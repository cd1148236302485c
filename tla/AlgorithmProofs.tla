--------------------------- MODULE AlgorithmProofs ---------------------------
(***************************************************************************)
(* What is proved of the pure algorithms, for inputs of any length, and of the *)
(* stream of reports (Srtcp), for every number of indices, every window and   *)
(* any number of calls.                                                     *)
(***************************************************************************)
EXTENDS MCAlgorithms, Srtcp, FiniteSetTheorems, SequenceTheorems,
        FunctionTheorems, WellFoundedInduction, TLAPS

-----------------------------------------------------------------------------
(* The stream of reports.                                                  *)

LEMMA Sizes == /\ half \in Nat /\ half > 0
               /\ rdb_bits_in_bitmask \in Nat /\ rdb_bits_in_bitmask > 0
               /\ rdb_bits_in_bitmask <= half
               /\ MaxCalls \in Nat
  BY RdbAssumption, SrtcpAssumption

\* A number below the modulus is its own remainder, and every remainder is below it.
LEMMA Small ==
  ASSUME NEW n \in Nat, n > 0, NEW i \in 0 .. n - 1
  PROVE  i % n = i
  OBVIOUS

LEMMA Remainder ==
  ASSUME NEW n \in Nat, n > 0, NEW i \in Int
  PROVE  i % n \in 0 .. n - 1
  OBVIOUS

(***************************************************************************)
(* The database of a receiver.                                             *)
(***************************************************************************)

\* The bits of r are the indices of S that are in its window, and no index of S
\* is beyond it.
Recorded(r, S) ==
  /\ \A slot \in 0 .. rdb_bits_in_bitmask - 1 :
       slot \in r.bitmask <=> r.window_start + slot \in S
  /\ \A i \in S : i < r.window_start + rdb_bits_in_bitmask

\* What rdb_check lets through is not behind the window and has not been seen.
LEMMA CheckedIsNew ==
  ASSUME NEW r \in RdbDatabase, NEW S \in SUBSET Nat, Recorded(r, S),
         NEW i \in 0 .. half - 1
  PROVE  rdb_check(r, i) = "ok" <=> i >= r.window_start /\ i \notin S
  <1> DEFINE ws == r.window_start
  <1>1. ws \in Nat /\ i \in Nat
    BY Sizes DEF RdbDatabase
  <1>2. CASE i >= ws + rdb_bits_in_bitmask
    <2>1. i \notin S /\ i >= ws
      BY <1>1, <1>2, Sizes DEF Recorded
    <2>2. QED
      BY <1>2, <2>1 DEF rdb_check
  <1>3. CASE i < ws
    <2>1. ~(i >= ws + rdb_bits_in_bitmask) /\ ~(i >= ws)
      BY <1>1, <1>3, Sizes
    <2>2. rdb_check(r, i) = "replay_old"
      BY <1>3, <2>1 DEF rdb_check
    <2>3. QED
      BY <2>1, <2>2
  <1>4. CASE i >= ws /\ ~(i >= ws + rdb_bits_in_bitmask)
    <2>1. i - ws \in 0 .. rdb_bits_in_bitmask - 1 /\ ws + (i - ws) = i /\ ~(i < ws)
      BY <1>1, <1>4, Sizes
    <2>2. i - ws \in r.bitmask <=> i \in S
      BY <2>1 DEF Recorded
    <2>3. rdb_check(r, i) = IF i - ws \in r.bitmask THEN "replay_fail" ELSE "ok"
      BY <1>4, <2>1 DEF rdb_check
    <2>4. QED
      BY <1>4, <2>2, <2>3
  <1>5. QED
    BY <1>1, <1>2, <1>3, <1>4, Sizes

\* rdb_add_index adds the index it is given and nothing else, whether it moves the
\* window or not.
LEMMA AddRecorded ==
  ASSUME NEW r \in RdbDatabase, NEW S \in SUBSET Nat, Recorded(r, S),
         NEW i \in 0 .. half - 1, i >= r.window_start
  PROVE  /\ rdb_add_index(r, i) \in RdbDatabase
         /\ Recorded(rdb_add_index(r, i), S \cup {i})
  <1> DEFINE ws == r.window_start
             delta == i - ws
             shift == delta - (rdb_bits_in_bitmask - 1)
             new == rdb_add_index(r, i)
             Bits == 0 .. rdb_bits_in_bitmask - 1
  <1>1. /\ ws \in Nat /\ i \in Nat /\ i < half /\ delta \in Nat /\ i = ws + delta
        /\ r.bitmask \subseteq Bits /\ ws \in 0 .. 2 * half - 1
    BY Sizes DEF RdbDatabase
  <1>2. CASE delta < rdb_bits_in_bitmask
    <2>1. new = [r EXCEPT !.bitmask = @ \cup {delta}]
      BY <1>2 DEF rdb_add_index
    <2>2. new = [window_start |-> ws, bitmask |-> r.bitmask \cup {delta}]
      BY <2>1 DEF RdbDatabase
    <2>3. delta \in Bits
      BY <1>1, <1>2, Sizes
    <2>4. new \in RdbDatabase
      BY <1>1, <2>2, <2>3 DEF RdbDatabase
    <2>5. ASSUME NEW slot \in Bits
          PROVE  slot \in new.bitmask <=> new.window_start + slot \in S \cup {i}
      <3>1. slot \in r.bitmask <=> ws + slot \in S
        BY DEF Recorded
      <3>2. slot = delta <=> ws + slot = i
        BY <1>1, Sizes
      <3>3. QED
        BY <2>2, <3>1, <3>2
    <2>6. \A j \in S \cup {i} : j < new.window_start + rdb_bits_in_bitmask
      BY <1>1, <1>2, <2>2, Sizes DEF Recorded
    <2>7. QED
      BY <2>4, <2>5, <2>6 DEF Recorded
  <1>3. CASE ~(delta < rdb_bits_in_bitmask)
    <2>1. new = [window_start |-> ws + shift,
                 bitmask |-> {slot \in Bits : \/ slot + shift \in r.bitmask
                                             \/ slot = rdb_bits_in_bitmask - 1}]
      BY <1>3 DEF rdb_add_index
    <2>2. /\ shift \in Nat /\ shift > 0
          /\ ws + shift = i - (rdb_bits_in_bitmask - 1)
          /\ ws + shift \in 0 .. 2 * half - 1
      BY <1>1, <1>3, Sizes
    <2>3. new \in RdbDatabase
      BY <2>1, <2>2 DEF RdbDatabase
    <2>4. ASSUME NEW slot \in Bits
          PROVE  slot \in new.bitmask <=> new.window_start + slot \in S \cup {i}
      <3>1. slot = rdb_bits_in_bitmask - 1 <=> (ws + shift) + slot = i
        BY <1>1, <2>2, Sizes
      <3>2. slot + shift \in r.bitmask <=> (ws + shift) + slot \in S
        <4>1. CASE slot + shift \in Bits
          <5>1. ws + (slot + shift) = (ws + shift) + slot
            BY <1>1, <2>2, Sizes
          <5>2. QED
            BY <4>1, <5>1 DEF Recorded
        <4>2. CASE slot + shift \notin Bits
          <5>1. ~((ws + shift) + slot < ws + rdb_bits_in_bitmask)
            BY <1>1, <2>2, <4>2, Sizes
          <5>2. QED
            BY <1>1, <4>2, <5>1 DEF Recorded
        <4>3. QED
          BY <4>1, <4>2
      <3>3. slot \in new.bitmask <=> \/ slot + shift \in r.bitmask
                                    \/ slot = rdb_bits_in_bitmask - 1
        BY <2>1
      <3>4. new.window_start + slot = (ws + shift) + slot
        BY <2>1
      <3>5. QED
        BY <3>1, <3>2, <3>3, <3>4
    <2>5. \A j \in S \cup {i} : j < new.window_start + rdb_bits_in_bitmask
      <3>1. new.window_start = ws + shift
        BY <2>1
      <3>2. \A j \in S : j \in Nat /\ j < ws + rdb_bits_in_bitmask
        BY DEF Recorded
      <3>3. QED
        BY <1>1, <2>2, <3>1, <3>2, Sizes
    <2>6. QED
      BY <2>3, <2>4, <2>5 DEF Recorded
  <1>4. QED
    BY <1>2, <1>3

(***************************************************************************)
(* The invariant.                                                          *)
(***************************************************************************)

\* A sender's counter is the number of its calls, until it has gone round.
SenderCounts ==
  /\ sender = {} => calls = 0
  /\ \A s \in sender : calls < 2 * half => s.window_start = calls

\* A packet's counter block and trailer come from its number.
SentRight ==
  \A p \in sent : /\ p.iv \in 1 .. half
                  /\ p.trailer = trailer(p.iv)
                  /\ p.n <= calls
                  /\ calls <= 2 * half => p.n = p.iv

\* A receiver's database is the record of what it has accepted.
ReceiverRecords ==
  /\ receiver = {} => accepted = {}
  /\ \A r \in receiver : Recorded(r, Seen)

IInv == TypeOK /\ SenderCounts /\ SentRight /\ ReceiverRecords /\ AcceptedOnce

\* A list has its database in it, or stands for a new one.
LEMMA GetStream ==
  ASSUME NEW list \in SUBSET RdbDatabase
  PROVE  /\ srtp_get_stream(list) \in RdbDatabase
         /\ list = {} => srtp_get_stream(list) = rdb_init
         /\ list # {} => srtp_get_stream(list) \in list
  <1>1. rdb_init \in RdbDatabase
    BY Sizes DEF rdb_init, RdbDatabase
  <1>2. list # {} => srtp_get_stream(list) \in list
    BY DEF srtp_get_stream
  <1>3. list = {} => srtp_get_stream(list) = rdb_init
    BY DEF srtp_get_stream
  <1>4. QED
    BY <1>1, <1>2, <1>3

LEMMA OneInList ==
  ASSUME NEW r \in RdbDatabase
  PROVE  {r} \subseteq RdbDatabase /\ Cardinality({r}) <= 1
  <1>1. Cardinality({r}) = 1
    BY FS_Singleton
  <1>2. QED
    BY <1>1

LEMMA NoneInList == Cardinality({}) <= 1
  <1>1. Cardinality({}) = 0
    BY FS_EmptySet
  <1>2. QED
    BY <1>1

LEMMA TrailerType ==
  ASSUME NEW i \in Nat
  PROVE  trailer(i) \in [E : {TRUE}, index : 0 .. half - 1]
  BY Sizes, Remainder DEF trailer

LEMMA SeenType == TypeOK => Seen \in SUBSET (0 .. half - 1)
  BY DEF TypeOK, Seen, Packet

LEMMA Initially == Init => IInv
  <1> SUFFICES ASSUME Init PROVE IInv
    OBVIOUS
  <1>1. TypeOK
    <2>1. 0 \in 0 .. MaxCalls
      BY Sizes
    <2>2. QED
      BY <2>1, NoneInList DEF Init, TypeOK
  <1>2. SenderCounts /\ SentRight /\ ReceiverRecords /\ AcceptedOnce
    BY DEF Init, SenderCounts, SentRight, ReceiverRecords, AcceptedOnce
  <1>3. QED
    BY <1>1, <1>2 DEF IInv

\* What the sender's counter becomes, and the packet that goes with it.
LEMMA Increment ==
  ASSUME NEW r \in RdbDatabase
  PROVE  /\ rdb_increment(r) \in RdbDatabase
         /\ r.window_start + 1 < 2 * half
              => rdb_get_value(rdb_increment(r)) = r.window_start + 1
         /\ rdb_get_value(rdb_increment(r)) = rdb_increment(r).window_start
         /\ rdb_increment_status(r) = "ok"
              => rdb_get_value(rdb_increment(r)) = r.window_start + 1
                 /\ r.window_start + 1 \in 1 .. half
  <1> DEFINE ws == r.window_start
             next == (ws + 1) % (2 * half)
  <1>1. ws \in 0 .. 2 * half - 1
    BY DEF RdbDatabase
  <1>2. 2 * half \in Nat /\ 2 * half > 0 /\ ws + 1 \in Int
    BY <1>1, Sizes
  <1>3. next \in 0 .. 2 * half - 1
    BY <1>2, Remainder
  <1>4. ws + 1 < 2 * half => next = ws + 1
    <2> SUFFICES ASSUME ws + 1 < 2 * half PROVE next = ws + 1
      OBVIOUS
    <2>1. ws + 1 \in 0 .. 2 * half - 1
      BY <1>1, Sizes
    <2>2. QED
      BY <1>2, <2>1, Small
  <1> HIDE DEF next
  <1>5. rdb_increment(r) = [window_start |-> next, bitmask |-> r.bitmask]
    BY DEF rdb_increment, RdbDatabase, next
  <1>6. rdb_increment(r) \in RdbDatabase
    BY <1>3, <1>5 DEF RdbDatabase
  <1>7. rdb_get_value(rdb_increment(r)) = next /\ rdb_increment(r).window_start = next
    BY <1>5 DEF rdb_get_value
  <1>8. rdb_increment_status(r) = "ok" => ws + 1 \in 1 .. half /\ ws + 1 < 2 * half
    BY <1>1, Sizes DEF rdb_increment_status
  <1>9. QED
    BY <1>4, <1>6, <1>7, <1>8

LEMMA ProtectPreserves == IInv /\ srtp_protect_rtcp => IInv'
  <1> SUFFICES ASSUME IInv, srtp_protect_rtcp PROVE IInv'
    OBVIOUS
  <1> DEFINE old == srtp_get_stream(sender)
             r == rdb_increment(old)
             seq_num == rdb_get_value(r)
             new == [n |-> calls', trailer |-> trailer(seq_num), iv |-> seq_num]
  <1>1. /\ calls \in 0 .. MaxCalls /\ calls < MaxCalls /\ calls' = calls + 1
        /\ sender \in SUBSET RdbDatabase /\ sent \subseteq Packet
    BY DEF IInv, TypeOK, srtp_protect_rtcp
  <1>2. old \in RdbDatabase /\ (calls < 2 * half => old.window_start = calls)
    BY <1>1, GetStream DEF IInv, SenderCounts, rdb_init
  <1>3. /\ r \in RdbDatabase
        /\ old.window_start + 1 < 2 * half => seq_num = old.window_start + 1
        /\ seq_num = r.window_start
        /\ rdb_increment_status(old) = "ok"
             => seq_num = old.window_start + 1 /\ old.window_start + 1 \in 1 .. half
    BY <1>2, Increment
  <1>4. /\ sender' = {r}
        /\ sent' = IF rdb_increment_status(old) = "ok" THEN sent \cup {new} ELSE sent
        /\ UNCHANGED receiving
    BY DEF srtp_protect_rtcp
  <1>5. old.window_start \in Nat /\ seq_num \in Nat
    BY <1>2, <1>3 DEF RdbDatabase
  <1>6. calls' \in 1 .. MaxCalls /\ calls \in Nat
    BY <1>1, Sizes
  <1>7. rdb_increment_status(old) = "ok" => new \in Packet /\ seq_num \in 1 .. half
    <2> SUFFICES ASSUME rdb_increment_status(old) = "ok"
                 PROVE  new \in Packet /\ seq_num \in 1 .. half
      OBVIOUS
    <2>1. seq_num \in 1 .. half
      BY <1>3
    <2>2. seq_num \in 0 .. 2 * half - 1
      BY <2>1, Sizes
    <2>3. trailer(seq_num) \in [E : {TRUE}, index : 0 .. half - 1]
      BY <1>5, TrailerType
    <2>4. QED
      BY <1>6, <2>1, <2>2, <2>3 DEF Packet
  <1> HIDE DEF r, seq_num, old
  <1>8. TypeOK'
    <2>1. sent \subseteq sent' /\ sent' \subseteq Packet
      BY <1>1, <1>4, <1>7
    <2>2. calls' \in 0 .. MaxCalls
      BY <1>6
    <2>3. sender' \subseteq RdbDatabase /\ Cardinality(sender') <= 1
      BY <1>3, <1>4, OneInList
    <2>4. QED
      BY <1>4, <2>1, <2>2, <2>3 DEF IInv, TypeOK, receiving
  <1>9. SenderCounts'
    <2>1. calls' < 2 * half => r.window_start = calls'
      BY <1>1, <1>2, <1>3, <1>5, <1>6, Sizes
    <2>2. QED
      BY <1>4, <2>1 DEF SenderCounts
  <1>10. SentRight'
    <2>1. ASSUME NEW p \in sent
          PROVE  /\ p.iv \in 1 .. half /\ p.trailer = trailer(p.iv)
                 /\ p.n <= calls' /\ (calls' <= 2 * half => p.n = p.iv)
      <3>1. p.n \in Nat
        <4>1. p \in Packet
          BY <1>1
        <4>2. QED
          BY <4>1 DEF Packet
      <3>2. QED
        BY <1>1, <1>6, <3>1, Sizes DEF IInv, SentRight
    <2>2. rdb_increment_status(old) = "ok" =>
            /\ new.iv \in 1 .. half /\ new.trailer = trailer(new.iv)
            /\ new.n <= calls' /\ (calls' <= 2 * half => new.n = new.iv)
      <3>1. calls' <= 2 * half => calls < 2 * half
        BY <1>1, <1>6, Sizes
      <3>2. new.iv = seq_num /\ new.trailer = trailer(seq_num) /\ new.n = calls'
        OBVIOUS
      <3>3. calls' <= calls'
        BY <1>6
      <3>4. QED
        BY <1>1, <1>2, <1>3, <1>7, <3>1, <3>2, <3>3
    <2>3. QED
      BY <1>4, <2>1, <2>2 DEF SentRight
  <1>11. ReceiverRecords' /\ AcceptedOnce'
    BY <1>4 DEF IInv, ReceiverRecords, AcceptedOnce, receiving, Seen, Recorded
  <1>12. QED
    BY <1>8, <1>9, <1>10, <1>11 DEF IInv

LEMMA UnprotectPreserves ==
  ASSUME NEW p, IInv, srtp_unprotect_rtcp(p)
  PROVE  IInv'
  <1> DEFINE r == srtp_get_stream(receiver)
             i == p.trailer.index
  <1>1. /\ p \in sent /\ rdb_check(r, i) = "ok"
        /\ receiver' = {rdb_add_index(r, i)}
        /\ accepted' = accepted \cup {p}
        /\ again' = (again \/ p \in accepted)
        /\ UNCHANGED sending
    BY DEF srtp_unprotect_rtcp
  <1>2. /\ receiver \in SUBSET RdbDatabase /\ accepted \subseteq sent
        /\ sent \subseteq Packet /\ Seen \in SUBSET Nat
    BY SeenType, Sizes DEF IInv, TypeOK
  <1>3. i \in 0 .. half - 1
    BY <1>1, <1>2 DEF Packet
  <1>4. r \in RdbDatabase /\ Recorded(r, Seen)
    <2>1. CASE receiver = {}
      <3>1. r = rdb_init /\ Seen = {} /\ r \in RdbDatabase
        BY <1>2, <2>1, GetStream DEF IInv, ReceiverRecords, Seen
      <3>2. QED
        BY <3>1 DEF Recorded, rdb_init
    <2>2. CASE receiver # {}
      BY <1>2, <2>2, GetStream DEF IInv, ReceiverRecords
    <2>3. QED
      BY <2>1, <2>2
  <1> HIDE DEF r, i
  <1>5. i >= r.window_start /\ i \notin Seen
    BY <1>1, <1>2, <1>3, <1>4, CheckedIsNew
  <1>6. /\ rdb_add_index(r, i) \in RdbDatabase
        /\ Recorded(rdb_add_index(r, i), Seen \cup {i})
    BY <1>2, <1>3, <1>4, <1>5, AddRecorded
  <1>7. Seen' = Seen \cup {i}
    BY <1>1 DEF Seen, i
  <1>8. TypeOK'
    <2>1. again' \in BOOLEAN
      BY <1>1
    <2>2. receiver' \subseteq RdbDatabase /\ Cardinality(receiver') <= 1
      BY <1>1, <1>6, OneInList
    <2>3. accepted' \subseteq sent'
      BY <1>1, <1>2 DEF sending
    <2>4. QED
      BY <1>1, <2>1, <2>2, <2>3 DEF IInv, TypeOK, sending
  <1>9. SenderCounts' /\ SentRight'
    BY <1>1 DEF IInv, SenderCounts, SentRight, sending
  <1>10. ReceiverRecords'
    BY <1>1, <1>6, <1>7 DEF ReceiverRecords
  <1>11. AcceptedOnce'
    <2>1. \A q \in accepted : q.trailer.index # i
      BY <1>5 DEF Seen
    <2>2. p \notin accepted /\ \A q \in accepted : q.trailer # p.trailer
      BY <2>1 DEF i
    <2>3. QED
      BY <1>1, <2>2 DEF IInv, AcceptedOnce
  <1>12. QED
    BY <1>8, <1>9, <1>10, <1>11 DEF IInv

LEMMA IInvHolds == Spec => []IInv
  <1>1. IInv /\ UNCHANGED vars => IInv'
    BY DEF IInv, TypeOK, SenderCounts, SentRight, ReceiverRecords, AcceptedOnce, Seen,
           Recorded, vars, sending, receiving
  <1>2. IInv /\ Next => IInv'
    BY ProtectPreserves, UnprotectPreserves DEF Next
  <1>3. QED
    BY Initially, <1>1, <1>2, PTL DEF Spec

(***************************************************************************)
(* The theorems.                                                           *)
(***************************************************************************)

\* Every variable has its type.
THEOREM TypeCorrect == Spec => []TypeOK
  <1>1. IInv => TypeOK
    BY DEF IInv
  <1>2. QED
    BY <1>1, IInvHolds, PTL

\* No report is accepted twice, nor two with one index.
THEOREM NoReplay == Spec => []AcceptedOnce
  <1>1. IInv => AcceptedOnce
    BY DEF IInv
  <1>2. QED
    BY <1>1, IInvHolds, PTL

\* The receiver's database is what has been accepted, and lets through just what is
\* new and not behind the window.
THEOREM DatabaseRecords == Spec => []DatabaseIsRecord
  <1>1. IInv => DatabaseIsRecord
    <2> SUFFICES ASSUME IInv, NEW r \in receiver
                 PROVE  /\ \A slot \in 0 .. rdb_bits_in_bitmask - 1 :
                             slot \in r.bitmask <=> r.window_start + slot \in Seen
                        /\ \A i \in Seen : i < r.window_start + rdb_bits_in_bitmask
                        /\ \A i \in 0 .. half - 1 :
                             i >= r.window_start /\ i \notin Seen
                               <=> rdb_check(r, i) = "ok"
      BY DEF DatabaseIsRecord
    <2>1. r \in RdbDatabase /\ Seen \in SUBSET Nat /\ Recorded(r, Seen)
      BY SeenType, Sizes DEF IInv, TypeOK, ReceiverRecords
    <2>2. QED
      BY <2>1, CheckedIsNew DEF Recorded
  <1>2. QED
    BY <1>1, IInvHolds, PTL

\* Until the sender's counter has gone round, no key stream is used for two reports.
THEOREM IvsDiffer == Spec => []IvUsedOnce
  <1>1. IInv => IvUsedOnce
    <2> SUFFICES ASSUME IInv, NEW p \in sent, NEW q \in sent, p.iv = q.iv,
                        ~(calls > 2 * half)
                 PROVE  p = q
      BY DEF IvUsedOnce
    <2>1. calls <= 2 * half
      BY Sizes DEF IInv, TypeOK
    <2>2. p.n = q.n /\ p.trailer = q.trailer
      BY <2>1 DEF IInv, SentRight
    <2>3. p \in Packet /\ q \in Packet
      BY DEF IInv, TypeOK
    <2>4. QED
      BY <2>2, <2>3 DEF Packet
  <1>2. QED
    BY <1>1, IInvHolds, PTL

\* The receiver decrypts a report with the counter block that it was encrypted with,
\* but for the one that comes too late.
THEOREM ReadAsWritten == Spec => []DecryptedRight
  <1>1. IInv => DecryptedRight
    <2> SUFFICES ASSUME IInv, NEW p \in accepted, p.iv # half
                 PROVE  p.trailer.index = p.iv
      BY DEF DecryptedRight
    <2>1. p.iv \in 1 .. half /\ p.trailer = trailer(p.iv)
      BY DEF IInv, TypeOK, SentRight
    <2>2. p.iv \in 0 .. half - 1
      BY <2>1, Sizes
    <2>3. p.iv % half = p.iv
      BY <2>2, Sizes, Small
    <2>4. QED
      BY <2>1, <2>3 DEF trailer
  <1>2. QED
    BY <1>1, IInvHolds, PTL

-----------------------------------------------------------------------------
(* Natural numbers.                                                        *)

LEMMA LeastNatural ==
  ASSUME NEW S \in SUBSET Nat, S # {}
  PROVE  \E x \in S : \A y \in S : x <= y
  <1> DEFINE R == OpToRel(<, Nat)
  <1>1. IsWellFoundedOn(R, Nat)
    BY NatLessThanWellFounded
  <1>2. \A x, y \in Nat : x < y => <<x, y>> \in R
    BY DEF OpToRel
  <1> HIDE DEF R
  <1>3. S \subseteq Nat
    OBVIOUS
  <1>4. PICK x \in S : \A y \in S : ~(<<y, x>> \in R)
    BY <1>1, <1>3, WFMin, Zenon
  <1>5. \A y \in S : ~(y < x)
    BY <1>2, <1>3, <1>4, Zenon
  <1>6. QED
    BY <1>3, <1>5

\* Induction over a set, which needs no operator.
LEMMA Induction ==
  ASSUME NEW S, 0 \in S, NEW n \in Nat,
         \A i \in 0 .. n - 1 : i \in S => i + 1 \in S
  PROVE  0 .. n \subseteq S
  <1> DEFINE T == {i \in 0 .. n : i \notin S}
  <1> SUFFICES ASSUME T # {} PROVE FALSE
    OBVIOUS
  <1>1. PICK x \in T : \A y \in T : x <= y
    <2>1. T \in SUBSET Nat
      OBVIOUS
    <2> HIDE DEF T
    <2>2. QED
      BY <2>1, LeastNatural
  <1>2. x \in 1 .. n
    OBVIOUS
  <1>3. x - 1 \notin T
    BY <1>1, <1>2
  <1>4. QED
    BY <1>2, <1>3

-----------------------------------------------------------------------------
(* Packet framing.                                                         *)

Events == [kind : {"segment"}, octets : Seq(Octet)] \cup {Interrupted, Error}

\* The events of s bring, with signals among them, the octets of z from position p on; C has
\* the position after each.
Cut(s, z, p, c) ==
  /\ c \in [0 .. Len(s) -> p .. Len(z)] /\ c[0] = p /\ c[Len(s)] = Len(z)
  /\ \A i \in 1 .. Len(s) :
       \/ s[i] = Interrupted /\ c[i] = c[i - 1]
       \/ s[i] = Segment(SubSeq(z, c[i - 1] + 1, c[i])) /\ c[i - 1] < c[i]
Carries(s, z, p) == s \in Seq(Events) /\ \E c : Cut(s, z, p, c)

LEMMA PieceOf ==
  ASSUME NEW S, NEW z \in Seq(S), NEW p \in 0 .. Len(z), NEW q \in p .. Len(z)
  PROVE  SubSeq(z, p + 1, q) \in Seq(S) /\ Len(SubSeq(z, p + 1, q)) = q - p
  <1>1. \A i \in p + 1 .. q : z[i] \in S
    BY ElementOfSeq
  <1>2. Len(z) \in Nat
    BY LenProperties
  <1>3. p + 1 \in Int /\ q \in Int
    BY <1>2
  <1>4. /\ SubSeq(z, p + 1, q) \in Seq(S)
        /\ Len(SubSeq(z, p + 1, q)) = IF p + 1 <= q THEN q - (p + 1) + 1 ELSE 0
    BY <1>1, <1>3, SubSeqProperties
  <1>5. QED
    BY <1>2, <1>4

LEMMA PieceOfPiece ==
  ASSUME NEW S, NEW z \in Seq(S), NEW p \in 0 .. Len(z), NEW q \in p .. Len(z),
         NEW k \in 0 .. q - p, NEW l \in k .. q - p
  PROVE  SubSeq(SubSeq(z, p + 1, q), k + 1, l) = SubSeq(z, p + k + 1, p + l)
  <1>1. Len(z) \in Nat /\ SubSeq(z, p + 1, q) \in Seq(S)
    BY LenProperties, PieceOf
  <1>2. CASE k = l
    <2>1. SubSeq(SubSeq(z, p + 1, q), k + 1, l) = <<>>
      BY <1>1, <1>2, SubSeqEmpty
    <2>2. SubSeq(z, p + k + 1, p + l) = <<>>
      <3>1. p + l < p + k + 1 /\ p + l \in Int /\ p + k + 1 \in Int
        BY <1>1, <1>2
      <3>2. QED
        BY <3>1, SubSeqEmpty
    <2>3. QED
      BY <2>1, <2>2
  <1>3. CASE k # l
    <2>1. /\ p + 1 \in 1 .. Len(z) /\ q \in 1 .. Len(z)
          /\ k + 1 \in 1 .. q - (p + 1) + 1 /\ l \in 1 .. q - (p + 1) + 1
      BY <1>1, <1>3
    <2>2. SubSeq(SubSeq(z, p + 1, q), k + 1, l) = SubSeq(z, (p + 1) + (k + 1) - 1, (p + 1) + l - 1)
      BY <2>1, SubSeqOfSubSeq
    <2>3. (p + 1) + (k + 1) - 1 = p + k + 1 /\ (p + 1) + l - 1 = p + l
      BY <1>1
    <2>4. QED
      BY <2>2, <2>3
  <1>4. QED
    BY <1>2, <1>3

LEMMA PiecesJoin ==
  ASSUME NEW S, NEW z \in Seq(S), NEW p \in 0 .. Len(z), NEW q \in p .. Len(z),
         NEW r \in q .. Len(z)
  PROVE  SubSeq(z, p + 1, q) \o SubSeq(z, q + 1, r) = SubSeq(z, p + 1, r)
  <1>1. Len(z) \in Nat
    BY LenProperties
  <1>2. p + 1 \in 1 .. Len(z) + 1 /\ q \in (p + 1) - 1 .. Len(z)
    BY <1>1
  <1>3. QED
    BY <1>2, ConcatAdjacentSubSeq

\* What is left of the events is what is left of the octets.
LEMMA CarriesTail ==
  ASSUME NEW z \in Seq(Octet), NEW p \in 0 .. Len(z), NEW s \in Seq(Events), s # <<>>,
         NEW c, Cut(s, z, p, c)
  PROVE  Carries(Tail(s), z, c[1])
  <1>1. /\ Tail(s) \in Seq(Events) /\ Len(Tail(s)) = Len(s) - 1
        /\ \A i \in 1 .. Len(Tail(s)) : Tail(s)[i] = s[i + 1]
    BY HeadTailProperties
  <1>2. Len(s) \in Nat \ {0} /\ Len(z) \in Nat
    BY EmptySeq, LenProperties
  <1> DEFINE d == [i \in 0 .. Len(Tail(s)) |-> c[i + 1]]
  <1>3. \A i \in 0 .. Len(s) : c[i] \in p .. Len(z)
    BY DEF Cut
  <1>4. \A j \in 1 .. Len(s) : c[j - 1] <= c[j]
    <2> TAKE j \in 1 .. Len(s)
    <2>1. c[j - 1] \in Int /\ c[j] \in Int
      BY <1>2, <1>3
    <2>2. QED
      BY <2>1 DEF Cut
  <1>5. \A i \in 0 .. Len(s) - 1 : c[1] <= c[i + 1]
    <2> DEFINE P == {i \in 0 .. Len(s) - 1 : c[1] <= c[i + 1]}
    <2>1. 0 \in P
      BY <1>2, <1>3
    <2>2. \A i \in 0 .. (Len(s) - 1) - 1 : i \in P => i + 1 \in P
      <3> TAKE i \in 0 .. (Len(s) - 1) - 1
      <3> HAVE i \in P
      <3>1. i + 2 \in 1 .. Len(s) /\ (i + 2) - 1 = i + 1 /\ i + 1 \in 0 .. Len(s) - 1
        BY <1>2
      <3>2. c[i + 1] <= c[i + 2] /\ c[i + 1] \in Int /\ c[i + 2] \in Int /\ c[1] \in Int
        BY <1>2, <1>3, <1>4, <3>1
      <3>3. (i + 1) + 1 = i + 2
        OBVIOUS
      <3>4. QED
        BY <3>1, <3>2, <3>3
    <2>3. 0 .. Len(s) - 1 \subseteq P
      <3> HIDE DEF P
      <3>1. Len(s) - 1 \in Nat
        BY <1>2
      <3>2. QED
        BY <2>1, <2>2, <3>1, Induction
    <2>4. QED
      BY <2>3
  <1>6. Cut(Tail(s), z, c[1], d)
    <2>1. d \in [0 .. Len(Tail(s)) -> c[1] .. Len(z)]
      <3>1. \A i \in 0 .. Len(s) - 1 : c[i + 1] \in c[1] .. Len(z)
        BY <1>2, <1>3, <1>5
      <3>2. QED
        BY <1>1, <3>1
    <2>2. d[0] = c[1] /\ d[Len(Tail(s))] = Len(z)
      BY <1>1, <1>2 DEF Cut
    <2>3. ASSUME NEW i \in 1 .. Len(Tail(s))
          PROVE  \/ Tail(s)[i] = Interrupted /\ d[i] = d[i - 1]
                 \/ Tail(s)[i] = Segment(SubSeq(z, d[i - 1] + 1, d[i])) /\ d[i - 1] < d[i]
      <3>1. i + 1 \in 1 .. Len(s) /\ (i + 1) - 1 = i /\ (i - 1) + 1 = i
            /\ i \in 0 .. Len(Tail(s)) /\ i - 1 \in 0 .. Len(Tail(s))
        BY <1>1, <1>2
      <3>2. d[i] = c[i + 1] /\ d[i - 1] = c[i]
        BY <3>1
      <3>3. \/ s[i + 1] = Interrupted /\ c[i + 1] = c[i]
            \/ s[i + 1] = Segment(SubSeq(z, c[i] + 1, c[i + 1])) /\ c[i] < c[i + 1]
        BY <3>1 DEF Cut
      <3> HIDE DEF d
      <3>4. QED
        BY <1>1, <3>2, <3>3
    <2> HIDE DEF d
    <2>4. QED
      BY <2>1, <2>2, <2>3 DEF Cut
  <1>7. QED
    BY <1>1, <1>6 DEF Carries

\* One recv takes a signal, or octets where they are, or meets the end.
Takes(s, z, p, n, got) ==
  \/ /\ s # <<>> /\ s[1] = Interrupted /\ got.n = -1 /\ got.octets = <<>>
     /\ Carries(got.rest, z, p) /\ Len(got.rest) = Len(s) - 1
  \/ \E k \in 1 .. n :
       /\ p + k <= Len(z) /\ got.n = k /\ got.octets = SubSeq(z, p + 1, p + k)
       /\ Carries(got.rest, z, p + k) /\ (k = n \/ Len(got.rest) = Len(s) - 1)
  \/ /\ p = Len(z) /\ got.n = 0 /\ got.octets = <<>> /\ Carries(got.rest, z, p)

LEMMA RecvTakes ==
  ASSUME NEW z \in Seq(Octet), NEW p \in 0 .. Len(z), NEW s, Carries(s, z, p),
         NEW n \in Nat \ {0}
  PROVE  Takes(s, z, p, n, recv(s, n))
  <1> DEFINE got == recv(s, n)
  <1>1. PICK c : Cut(s, z, p, c)
    BY DEF Carries
  <1>2. s \in Seq(Events) /\ Len(s) \in Nat /\ Len(z) \in Nat
    BY LenProperties DEF Carries
  <1>3. CASE s = <<>>
    <2>1. got = [n |-> 0, octets |-> <<>>, rest |-> <<>>]
      BY <1>3 DEF recv
    <2>2. Len(s) = 0
      BY <1>3
    <2>3. p = Len(z)
      BY <1>1, <2>2 DEF Cut
    <2>4. Takes(s, z, p, n, got)
      BY <1>3, <2>1, <2>3 DEF Takes
    <2>5. QED
      BY <2>4
  <1>4. CASE s # <<>> /\ s[1] = Interrupted
    <2>1. got = [n |-> -1, octets |-> <<>>, rest |-> Tail(s)]
      BY <1>4 DEF recv
    <2>2. Carries(Tail(s), z, c[1]) /\ Len(Tail(s)) = Len(s) - 1
      BY <1>1, <1>2, <1>4, CarriesTail, HeadTailProperties
    <2>3. c[1] = c[0] /\ c[0] = p
      <3>1. 1 \in 1 .. Len(s) /\ 1 - 1 = 0
        BY <1>2, <1>4, EmptySeq
      <3>2. s[1] # Segment(SubSeq(z, c[0] + 1, c[1]))
        BY <1>4 DEF Segment, Interrupted
      <3>3. QED
        BY <1>1, <3>1, <3>2 DEF Cut
    <2>4. Takes(s, z, p, n, got)
      BY <1>4, <2>1, <2>2, <2>3 DEF Takes
    <2>5. QED
      BY <2>4
  <1>5. CASE s # <<>> /\ s[1] # Interrupted
    <2> DEFINE come == SubSeq(z, p + 1, c[1])
               taken == smaller(n, Len(come))
    <2>1. 1 \in 1 .. Len(s) /\ 1 - 1 = 0 /\ Len(s) # 0 /\ Len(s) > 0
      BY <1>2, <1>5, EmptySeq
    <2>2. s[1] = Segment(come) /\ p < c[1] /\ c[1] \in p .. Len(z)
      BY <1>1, <1>5, <2>1 DEF Cut
    <2>3. come \in Seq(Octet) /\ Len(come) = c[1] - p
      BY <2>2, PieceOf
    <2>4. s[1] \notin {Interrupted, Error} /\ s[1].octets = come
      BY <2>2 DEF Segment, Interrupted, Error
    <2> HIDE DEF come
    <2>5. taken \in 1 .. n /\ taken <= Len(come) /\ p + taken <= Len(z)
          /\ (taken = n \/ taken = Len(come))
      BY <1>2, <2>2, <2>3 DEF smaller
    <2>6. SubSeq(come, 1, taken) = SubSeq(z, p + 1, p + taken)
      <3>1. 0 \in 0 .. c[1] - p /\ taken \in 0 .. c[1] - p /\ p + 0 + 1 = p + 1 /\ 0 + 1 = 1
        BY <1>2, <2>2, <2>3, <2>5
      <3> HIDE DEF taken
      <3>2. SubSeq(come, 0 + 1, taken) = SubSeq(z, p + 0 + 1, p + taken)
        BY <2>2, <3>1, PieceOfPiece DEF come
      <3>3. QED
        BY <3>1, <3>2
    <2>7. got = [n |-> taken, octets |-> SubSeq(come, 1, taken),
                 rest |-> IF taken = Len(come) THEN Tail(s)
                          ELSE <<Segment(SubSeq(come, taken + 1, Len(come)))>> \o Tail(s)]
      BY <1>5, <2>4 DEF recv
    <2>8. CASE taken = Len(come)
      <3>1. Carries(Tail(s), z, c[1]) /\ Len(Tail(s)) = Len(s) - 1
        BY <1>1, <1>2, <1>5, CarriesTail, HeadTailProperties
      <3>2. c[1] = p + taken
        BY <1>2, <2>2, <2>3, <2>8
      <3>3. got.n = taken /\ got.octets = SubSeq(z, p + 1, p + taken) /\ got.rest = Tail(s)
        BY <2>6, <2>7, <2>8
      <3> HIDE DEF taken, got
      <3>4. Takes(s, z, p, n, got)
        BY <2>5, <3>1, <3>2, <3>3 DEF Takes
      <3>5. QED
        BY <3>4 DEF got
    <2>9. CASE taken # Len(come)
      <3> DEFINE more == SubSeq(come, taken + 1, Len(come))
                 left == <<Segment(more)>> \o Tail(s)
                 d == [i \in 0 .. Len(left) |-> IF i = 0 THEN p + taken ELSE c[i]]
      <3>1. more = SubSeq(z, p + taken + 1, c[1])
        <4> HIDE DEF taken
        <4>1. c[1] \in Int /\ Len(come) \in Int
          BY <1>2, <2>2, <2>3
        <4>2. taken \in 0 .. c[1] - p /\ Len(come) \in taken .. c[1] - p /\ p + Len(come) = c[1]
          BY <1>2, <2>2, <2>3, <2>5, <4>1, SMTT(30)
        <4>3. SubSeq(SubSeq(z, p + 1, c[1]), taken + 1, Len(come)) = SubSeq(z, p + taken + 1, p + Len(come))
          BY <2>2, <4>2, PieceOfPiece
        <4>4. QED
          BY <4>2, <4>3 DEF come
      <3>2. Segment(more) \in Events /\ <<Segment(more)>> \in Seq(Events)
        <4>1. more \in Seq(Octet)
          <5>1. p + taken \in 0 .. Len(z) /\ c[1] \in p + taken .. Len(z)
            BY <1>2, <2>2, <2>3, <2>5
          <5> HIDE DEF taken, more
          <5>2. QED
            BY <3>1, <5>1, PieceOf
        <4> HIDE DEF more
        <4>2. Segment(more) \in Events
          BY <4>1 DEF Events, Segment
        <4>3. QED
          BY <4>2
      <3> HIDE DEF more
      <3>3. /\ Tail(s) \in Seq(Events) /\ Len(Tail(s)) = Len(s) - 1
            /\ \A i \in 1 .. Len(Tail(s)) : Tail(s)[i] = s[i + 1]
        BY <1>2, <1>5, HeadTailProperties
      <3>4. /\ left \in Seq(Events) /\ Len(left) = Len(s)
            /\ left[1] = Segment(more) /\ \A i \in 2 .. Len(s) : left[i] = s[i]
        <4>1. Len(<<Segment(more)>>) = 1 /\ <<Segment(more)>>[1] = Segment(more)
          OBVIOUS
        <4>2. /\ left \in Seq(Events) /\ Len(left) = 1 + (Len(s) - 1)
              /\ \A i \in 1 .. 1 + (Len(s) - 1) :
                   left[i] = IF i <= 1 THEN <<Segment(more)>>[i] ELSE Tail(s)[i - 1]
          BY <3>2, <3>3, <4>1, ConcatProperties
        <4> HIDE DEF left
        <4>3. 1 + (Len(s) - 1) = Len(s)
          BY <1>2
        <4>4. left[1] = Segment(more)
          BY <2>1, <4>1, <4>2, <4>3
        <4>5. ASSUME NEW i \in 2 .. Len(s) PROVE left[i] = s[i]
          <5>1. i \in 1 .. 1 + (Len(s) - 1) /\ ~(i <= 1) /\ i - 1 \in 1 .. Len(Tail(s)) /\ (i - 1) + 1 = i
            BY <1>2, <3>3
          <5>2. QED
            BY <3>3, <4>2, <5>1
        <4>6. QED
          BY <4>2, <4>3, <4>4, <4>5
      <3> HIDE DEF left
      <3>5. \A i \in 0 .. Len(s) : c[i] \in p .. Len(z)
        BY <1>1 DEF Cut
      <3>6. p + taken < c[1] /\ p + taken \in Nat
        BY <1>2, <2>2, <2>3, <2>5, <2>9
      <3>7. \A i \in 1 .. Len(s) : c[1] <= c[i]
        <4>1. Carries(Tail(s), z, c[1])
          BY <1>1, <1>2, <1>5, CarriesTail
        <4> DEFINE P == {i \in 0 .. Len(s) - 1 : c[1] <= c[i + 1]}
        <4>2. 0 \in P /\ Len(s) - 1 \in Nat
          BY <1>2, <2>1, <3>5
        <4>3. \A i \in 0 .. (Len(s) - 1) - 1 : i \in P => i + 1 \in P
          <5> TAKE i \in 0 .. (Len(s) - 1) - 1
          <5> HAVE i \in P
          <5>1. i + 2 \in 1 .. Len(s) /\ (i + 2) - 1 = i + 1 /\ i + 1 \in 0 .. Len(s) - 1
                /\ i + 2 \in 0 .. Len(s) /\ i + 1 \in 0 .. Len(s) /\ 1 \in 0 .. Len(s)
            BY <1>2
          <5>2. c[i + 1] \in Int /\ c[i + 2] \in Int /\ c[1] \in Int
            BY <1>2, <3>5, <5>1
          <5>3. c[i + 2] = c[i + 1] \/ c[i + 1] < c[i + 2]
            BY <1>1, <5>1 DEF Cut
          <5>4. (i + 1) + 1 = i + 2
            OBVIOUS
          <5>5. QED
            BY <5>1, <5>2, <5>3, <5>4
        <4>4. 0 .. Len(s) - 1 \subseteq P
          <5> HIDE DEF P
          <5>1. QED
            BY <4>2, <4>3, Induction
        <4>5. ASSUME NEW i \in 1 .. Len(s) PROVE c[1] <= c[i]
          <5>1. i - 1 \in 0 .. Len(s) - 1 /\ (i - 1) + 1 = i
            BY <1>2
          <5>2. QED
            BY <4>4, <5>1
        <4>6. QED
          BY <4>5
      <3>8. Cut(left, z, p + taken, d)
        <4>1. d \in [0 .. Len(left) -> p + taken .. Len(z)]
          <5>1. ASSUME NEW i \in 0 .. Len(s) PROVE (IF i = 0 THEN p + taken ELSE c[i]) \in p + taken .. Len(z)
            <6>1. CASE i = 0
              BY <1>2, <2>5, <3>6, <6>1
            <6>2. CASE i # 0
              <7>1. c[1] <= c[i] /\ c[i] \in p .. Len(z) /\ c[1] \in p .. Len(z)
                BY <1>2, <2>1, <3>5, <3>7, <6>2
              <7>2. c[i] \in p + taken .. Len(z)
                BY <1>2, <3>6, <7>1
              <7>3. QED
                BY <6>2, <7>2
            <6>3. QED
              BY <6>1, <6>2
          <5>2. QED
            BY <3>4, <5>1
        <4>2. d[0] = p + taken /\ d[Len(left)] = Len(z)
          BY <1>1, <1>2, <2>1, <3>4 DEF Cut
        <4>3. ASSUME NEW i \in 1 .. Len(left)
              PROVE  \/ left[i] = Interrupted /\ d[i] = d[i - 1]
                     \/ left[i] = Segment(SubSeq(z, d[i - 1] + 1, d[i])) /\ d[i - 1] < d[i]
          <5>1. i \in 0 .. Len(left) /\ i - 1 \in 0 .. Len(left)
            BY <1>2, <3>4
          <5>2. d[i] = c[i] /\ d[i - 1] = IF i = 1 THEN p + taken ELSE c[i - 1]
            <6>1. i # 0 /\ (i - 1 = 0 <=> i = 1)
              BY <1>2, <3>4
            <6>2. QED
              BY <5>1, <6>1
          <5> HIDE DEF d, taken
          <5>3. CASE i = 1
            BY <3>1, <3>4, <3>6, <5>2, <5>3
          <5>4. CASE i # 1
            <6>1. i \in 2 .. Len(s) /\ i \in 1 .. Len(s)
              BY <1>2, <3>4, <5>4
            <6>2. left[i] = s[i]
              BY <3>4, <6>1
            <6>3. QED
              BY <1>1, <5>2, <5>4, <6>1, <6>2 DEF Cut
          <5>5. QED
            BY <5>3, <5>4
        <4> HIDE DEF d, taken
        <4>4. QED
          BY <4>1, <4>2, <4>3 DEF Cut
      <3>9. Carries(left, z, p + taken)
        <4> HIDE DEF d, taken
        <4>1. QED
          BY <3>4, <3>8 DEF Carries
      <3>10. got.n = taken /\ got.octets = SubSeq(z, p + 1, p + taken) /\ got.rest = left
        <4> HIDE DEF taken, got
        <4>1. got.n = taken /\ got.octets = SubSeq(come, 1, taken)
              /\ got.rest = <<Segment(SubSeq(come, taken + 1, Len(come)))>> \o Tail(s)
          BY <2>7, <2>9
        <4>2. QED
          BY <2>6, <4>1 DEF left, more
      <3>11. taken = n
        BY <2>5, <2>9
      <3> HIDE DEF taken, got
      <3>12. Takes(s, z, p, n, got)
        BY <2>5, <3>9, <3>10, <3>11 DEF Takes
      <3>13. QED
        BY <3>12 DEF got
    <2>10. QED
      BY <2>8, <2>9
  <1>6. QED
    BY <1>3, <1>4, <1>5

\* The loop of readn has a solution: what each turn leaves.
Turns(f, n, a, len) == f = [k \in 0 .. n |-> IF k = 0 THEN a ELSE turn(f[k - 1], len)]

LEMMA TurnsExist ==
  ASSUME NEW n \in Nat, NEW a, NEW len
  PROVE  \E f : Turns(f, n, a, len)
  <1> DEFINE S == {m \in 0 .. n : \E f : Turns(f, m, a, len)}
  <1>1. 0 \in S
    <2>1. Turns([k \in 0 .. 0 |-> a], 0, a, len)
      BY DEF Turns
    <2>2. QED
      BY <2>1
  <1>2. ASSUME NEW m \in 0 .. n - 1, m \in S PROVE m + 1 \in S
    <2>1. PICK f : Turns(f, m, a, len)
      BY <1>2
    <2> DEFINE e == [k \in 0 .. m + 1 |-> IF k = m + 1 THEN turn(f[m], len) ELSE f[k]]
    <2>2. ASSUME NEW k \in 0 .. m + 1
          PROVE  e[k] = IF k = 0 THEN a ELSE turn(e[k - 1], len)
      <3>1. CASE k = m + 1
        <4>1. k # 0 /\ k - 1 = m /\ m \in 0 .. m + 1 /\ m # m + 1
          BY <3>1
        <4>2. QED
          BY <3>1, <4>1
      <3>2. CASE k # m + 1
        <4>1. k \in 0 .. m /\ (k # 0 => k - 1 \in 0 .. m /\ k - 1 # m + 1)
          BY <3>2
        <4>2. f[k] = IF k = 0 THEN a ELSE turn(f[k - 1], len)
          BY <2>1, <4>1 DEF Turns
        <4>3. QED
          BY <3>2, <4>1, <4>2
      <3>3. QED
        BY <3>1, <3>2
    <2>3. e = [k \in 0 .. m + 1 |-> e[k]]
      OBVIOUS
    <2> HIDE DEF e
    <2>4. Turns(e, m + 1, a, len)
      BY <2>2, <2>3 DEF Turns
    <2>5. m + 1 \in 0 .. n
      OBVIOUS
    <2>6. QED
      BY <2>4, <2>5
  <1>3. n \in S
    <2>1. n \in 0 .. n
      OBVIOUS
    <2> HIDE DEF S
    <2>2. QED
      BY <1>1, <1>2, <2>1, Induction
  <1>4. QED
    BY <1>3

\* How far the loop of readn has come after k turns, from position p of the octets on.
Reading(l, s, z, p, len, k) ==
  /\ l.n \in 0 .. len /\ p + l.n <= Len(z) /\ l.octets = SubSeq(z, p + 1, p + l.n)
  /\ Carries(l.rest, z, p + l.n) /\ l.over \in BOOLEAN
  /\ l.over => p + l.n = Len(z)
  /\ ~l.over /\ l.n # len => Len(l.rest) <= Len(s) - k

LEMMA TurnReads ==
  ASSUME NEW z \in Seq(Octet), NEW p \in 0 .. Len(z), NEW s \in Seq(Events),
         NEW len \in Nat, NEW k \in Nat, NEW l, Reading(l, s, z, p, len, k)
  PROVE  Reading(turn(l, len), s, z, p, len, k + 1)
  <1> DEFINE got == recv(l.rest, len - l.n)
             failed == got.n < 0 /\ l.rest[1] = Error
             n == l.n
             q == p + n
  <1>1. Len(z) \in Nat /\ Len(s) \in Nat /\ n \in 0 .. len /\ p \in Nat /\ q <= Len(z)
        /\ Carries(l.rest, z, q) /\ l.octets = SubSeq(z, p + 1, q) /\ l.rest \in Seq(Events)
    BY LenProperties DEF Reading, Carries
  <1>2. CASE l.over \/ l.n = len
    <2>1. turn(l, len) = l
      BY <1>2 DEF turn
    <2>2. QED
      BY <1>2, <2>1 DEF Reading
  <1>3. CASE ~l.over /\ l.n # len
    <2> DEFINE t == [n |-> IF failed THEN -1 ELSE l.n + Len(got.octets),
                     octets |-> l.octets \o got.octets, rest |-> got.rest,
                     over |-> failed \/ got.n = 0]
    <2>1. turn(l, len) = t
      BY <1>3 DEF turn
    <2>2. len - n \in Nat \ {0} /\ q \in 0 .. Len(z) /\ q \in p .. Len(z) /\ n # len
      BY <1>1, <1>3, SMTT(30)
    <2>3. Takes(l.rest, z, q, len - n, got)
      <3> HIDE DEF n, q
      <3>1. Takes(l.rest, z, q, len - n, recv(l.rest, len - n))
        BY <1>1, <2>2, RecvTakes
      <3>2. QED
        BY <3>1 DEF n
    <2>4. /\ t.n = (IF failed THEN -1 ELSE n + Len(got.octets))
          /\ t.octets = l.octets \o got.octets /\ t.rest = got.rest
          /\ t.over = (failed \/ got.n = 0)
      OBVIOUS
    <2>5. l.octets \in Seq(Octet)
      <3> HIDE DEF q
      <3>1. QED
        BY <1>1, <2>2, PieceOf
    <2>6. Len(l.rest) <= Len(s) - k /\ Len(l.rest) \in Nat
      <3>1. Len(l.rest) \in Nat
        BY <1>1, LenProperties
      <3>2. QED
        BY <1>3, <3>1 DEF Reading
    <2> HIDE DEF got, t, n, q
    <2>7. CASE /\ l.rest # <<>> /\ l.rest[1] = Interrupted /\ got.n = -1 /\ got.octets = <<>>
               /\ Carries(got.rest, z, q) /\ Len(got.rest) = Len(l.rest) - 1
      <3>1. Interrupted # Error
        <4>1. Interrupted.kind # Error.kind
          BY DEF Interrupted, Error
        <4>2. QED
          BY <4>1
      <3>2. failed = FALSE /\ (got.n = 0) = FALSE
        BY <2>7, <3>1
      <3> HIDE DEF failed
      <3>3. Len(got.octets) = 0 /\ l.octets \o got.octets = l.octets
        <4>1. l.octets \o <<>> = l.octets
          BY <2>5, ConcatEmptySeq
        <4>2. Len(<<>>) = 0
          BY EmptySeq
        <4>3. QED
          BY <2>7, <4>1, <4>2, Zenon
      <3>4. t.n = n /\ t.octets = l.octets /\ t.rest = got.rest /\ t.over = FALSE
        <4>1. t.n = n + Len(got.octets) /\ t.over = FALSE
          BY <2>4, <3>2, Zenon
        <4>2. t.n = n
          BY <1>1, <3>3, <4>1
        <4>3. QED
          BY <2>4, <3>3, <4>1, <4>2, Zenon
      <3>5. Len(t.rest) <= Len(s) - (k + 1)
        BY <1>1, <2>6, <2>7, <3>4
      <3>6. QED
        BY <1>1, <2>1, <2>2, <2>7, <3>4, <3>5 DEF Reading, q
    <2>8. CASE \E j \in 1 .. len - n :
                 /\ q + j <= Len(z) /\ got.n = j /\ got.octets = SubSeq(z, q + 1, q + j)
                 /\ Carries(got.rest, z, q + j) /\ (j = len - n \/ Len(got.rest) = Len(l.rest) - 1)
      <3>1. PICK j \in 1 .. len - n :
                 /\ q + j <= Len(z) /\ got.n = j /\ got.octets = SubSeq(z, q + 1, q + j)
                 /\ Carries(got.rest, z, q + j) /\ (j = len - n \/ Len(got.rest) = Len(l.rest) - 1)
        BY <2>8
      <3>2. j \in Nat /\ j > 0 /\ q + j \in q .. Len(z) /\ (q + j) - q = j
            /\ n + j \in 0 .. len /\ (j = len - n <=> n + j = len)
        <4>1. j \in Nat /\ j > 0 /\ q \in Nat /\ n \in Nat /\ j <= len - n /\ q + j <= Len(z)
          BY <1>1, <2>2, <3>1
        <4>2. QED
          BY <1>1, <4>1
      <3>3. p + (n + j) = q + j
        BY <1>1, <3>2 DEF q
      <3>4. failed = FALSE /\ (got.n = 0) = FALSE
        BY <3>1, <3>2
      <3> HIDE DEF failed
      <3>5. Len(got.octets) = j
        BY <2>2, <3>1, <3>2, PieceOf
      <3>6. l.octets \o got.octets = SubSeq(z, p + 1, q + j)
        BY <1>1, <2>2, <3>1, <3>2, PiecesJoin
      <3>7. t.n = n + j /\ t.octets = SubSeq(z, p + 1, q + j) /\ t.rest = got.rest /\ t.over = FALSE
        BY <2>4, <3>4, <3>5, <3>6
      <3>8. t.n # len => Len(t.rest) <= Len(s) - (k + 1)
        BY <1>1, <2>6, <3>1, <3>2, <3>7, SMTT(30)
      <3>9. QED
        BY <2>1, <3>1, <3>2, <3>3, <3>7, <3>8 DEF Reading
    <2>9. CASE q = Len(z) /\ got.n = 0 /\ got.octets = <<>> /\ Carries(got.rest, z, q)
      <3>1. failed = FALSE /\ (got.n = 0) = TRUE
        BY <2>9
      <3> HIDE DEF failed
      <3>2. Len(got.octets) = 0 /\ l.octets \o got.octets = l.octets
        <4>1. l.octets \o <<>> = l.octets
          BY <2>5, ConcatEmptySeq
        <4>2. Len(<<>>) = 0
          BY EmptySeq
        <4>3. QED
          BY <2>9, <4>1, <4>2, Zenon
      <3>3. t.n = n /\ t.octets = l.octets /\ t.rest = got.rest /\ t.over = TRUE
        <4>1. t.n = n + Len(got.octets) /\ t.over = TRUE
          BY <2>4, <3>1, Zenon
        <4>2. t.n = n
          BY <1>1, <3>2, <4>1
        <4>3. QED
          BY <2>4, <3>2, <4>1, <4>2, Zenon
      <3>4. QED
        BY <1>1, <2>1, <2>2, <2>9, <3>3 DEF Reading, q
    <2>10. QED
      BY <2>3, <2>7, <2>8, <2>9 DEF Takes
  <1>4. l.over \in BOOLEAN
    BY DEF Reading
  <1>5. QED
    BY <1>2, <1>3, <1>4

\* The next octets, as many as are wanted or as there are.
HasRead(r, z, p, len) ==
  /\ r.n \in 0 .. len /\ p + r.n <= Len(z) /\ r.n = smaller(len, Len(z) - p)
  /\ r.octets = SubSeq(z, p + 1, p + r.n) /\ Carries(r.rest, z, p + r.n)

\* Whatever the cuts and the signals, readn gives the next octets, as many as are wanted or
\* as there are, and leaves the others.
LEMMA ReadnReads ==
  ASSUME NEW z \in Seq(Octet), NEW p \in 0 .. Len(z), NEW s, Carries(s, z, p), NEW len \in Nat
  PROVE  HasRead(readn(s, len), z, p, len)
  <1> DEFINE a == [n |-> 0, octets |-> <<>>, rest |-> s, over |-> FALSE]
             f == CHOOSE h : h = [k \in 0 .. Len(s) + 1 |->
                                    IF k = 0 THEN a ELSE turn(h[k - 1], len)]
             m == Len(s) + 1
             R == {k \in 0 .. m : Reading(f[k], s, z, p, len, k)}
  <1>1. s \in Seq(Events) /\ Len(s) \in Nat /\ Len(z) \in Nat /\ m \in Nat
    BY LenProperties DEF Carries
  <1>2. readn(s, len) = f[m]
    BY DEF readn
  <1>3. Turns(f, m, a, len)
    <2> HIDE DEF a
    <2>1. QED
      BY <1>1, TurnsExist, SMTT(30) DEF Turns
  <1> HIDE DEF f
  <1>4. 0 \in R
    <2>1. f[0] = a
      BY <1>1, <1>3 DEF Turns
    <2>2. SubSeq(z, p + 1, p + 0) = <<>>
      <3>1. p + 0 < p + 1 /\ p + 0 \in Int /\ p + 1 \in Int
        OBVIOUS
      <3>2. QED
        BY <3>1, SubSeqEmpty
    <2>3. p + 0 = p
      OBVIOUS
    <2>4. Reading(a, s, z, p, len, 0)
      BY <1>1, <2>2, <2>3 DEF Reading
    <2>5. QED
      BY <1>1, <2>1, <2>4
  <1>5. ASSUME NEW k \in 0 .. m - 1, k \in R PROVE k + 1 \in R
    <2>1. k + 1 \in 0 .. m /\ k + 1 # 0 /\ (k + 1) - 1 = k /\ k \in Nat
      BY <1>1
    <2>2. f[k + 1] = turn(f[k], len)
      BY <1>3, <2>1 DEF Turns
    <2>3. Reading(f[k + 1], s, z, p, len, k + 1)
      BY <1>1, <1>5, <2>1, <2>2, TurnReads
    <2>4. QED
      BY <2>1, <2>3
  <1>6. m \in R
    <2>1. m \in 0 .. m
      BY <1>1
    <2> HIDE DEF R, m
    <2>2. QED
      BY <1>1, <1>4, <1>5, <2>1, Induction
  <1>7. Reading(f[m], s, z, p, len, m)
    BY <1>6
  <1> DEFINE r == f[m]
  <1>8. Carries(r.rest, z, p + r.n) /\ Len(r.rest) \in Nat
    BY <1>7, LenProperties DEF Reading, Carries
  <1>9. r.over \/ r.n = len
    BY <1>1, <1>7, <1>8 DEF Reading
  <1> HIDE DEF m
  <1>10. r.n \in 0 .. len /\ p + r.n <= Len(z) /\ r.octets = SubSeq(z, p + 1, p + r.n)
         /\ (r.over => p + r.n = Len(z))
    BY <1>7 DEF Reading
  <1> HIDE DEF r
  <1>11. r.n = smaller(len, Len(z) - p)
    BY <1>1, <1>9, <1>10, SMTT(30) DEF smaller
  <1>12. HasRead(r, z, p, len)
    BY <1>8, <1>10, <1>11 DEF HasRead
  <1>13. QED
    BY <1>2, <1>12 DEF r

\* What FlattenSeq is made of: the sequences put one behind the other.
Joined(F, q, S) ==
  /\ F \in [0 .. Len(q) -> Seq(S)] /\ F[0] = <<>>
  /\ \A i \in 1 .. Len(q) : F[i] = F[i - 1] \o q[i]

Flattens(f, q, n) == f = [i \in 1 .. n |-> IF i = 1 THEN q[i] ELSE f[i - 1] \o q[i]]

LEMMA FlattensExist ==
  ASSUME NEW q, NEW n \in Nat \ {0}
  PROVE  \E f : Flattens(f, q, n)
  <1> DEFINE S == {m \in 0 .. n - 1 : \E f : Flattens(f, q, m + 1)}
  <1>1. 0 \in S
    <2>1. Flattens([i \in 1 .. 0 + 1 |-> q[i]], q, 0 + 1)
      BY DEF Flattens
    <2>2. 0 \in 0 .. n - 1
      OBVIOUS
    <2>3. QED
      BY <2>1, <2>2
  <1>2. ASSUME NEW m \in 0 .. (n - 1) - 1, m \in S PROVE m + 1 \in S
    <2>1. PICK f : Flattens(f, q, m + 1)
      BY <1>2
    <2> DEFINE e == [i \in 1 .. (m + 1) + 1 |-> IF i = m + 2 THEN f[m + 1] \o q[i] ELSE f[i]]
    <2>2. ASSUME NEW i \in 1 .. (m + 1) + 1
          PROVE  e[i] = IF i = 1 THEN q[i] ELSE e[i - 1] \o q[i]
      <3>1. CASE i = m + 2
        <4>1. i # 1 /\ i - 1 = m + 1 /\ m + 1 \in 1 .. (m + 1) + 1 /\ m + 1 # m + 2
          BY <3>1
        <4>2. e[i] = f[m + 1] \o q[i]
          BY <3>1
        <4>3. e[m + 1] = f[m + 1]
          BY <4>1
        <4> HIDE DEF e
        <4>4. QED
          BY <4>1, <4>2, <4>3
      <3>2. CASE i # m + 2
        <4>1. i \in 1 .. m + 1 /\ (i # 1 => i - 1 \in 1 .. m + 1 /\ i - 1 # m + 2)
          BY <3>2
        <4>2. f[i] = IF i = 1 THEN q[i] ELSE f[i - 1] \o q[i]
          BY <2>1, <4>1 DEF Flattens
        <4>3. e[i] = f[i]
          BY <3>2
        <4>4. i # 1 => e[i - 1] = f[i - 1]
          BY <4>1
        <4> HIDE DEF e
        <4>5. QED
          BY <4>2, <4>3, <4>4
      <3>3. QED
        BY <3>1, <3>2
    <2>3. e = [i \in 1 .. (m + 1) + 1 |-> e[i]]
      OBVIOUS
    <2> HIDE DEF e
    <2>4. Flattens(e, q, (m + 1) + 1)
      BY <2>2, <2>3 DEF Flattens
    <2>5. m + 1 \in 0 .. n - 1
      OBVIOUS
    <2>6. QED
      BY <2>4, <2>5
  <1>3. n - 1 \in S
    <2>1. n - 1 \in 0 .. n - 1 /\ n - 1 \in Nat
      OBVIOUS
    <2> HIDE DEF S
    <2>2. QED
      BY <1>1, <1>2, <2>1, Induction
  <1>4. (n - 1) + 1 = n
    OBVIOUS
  <1>5. QED
    BY <1>3, <1>4

LEMMA FlattenJoins ==
  ASSUME NEW S, NEW q \in Seq(Seq(S))
  PROVE  \E F : Joined(F, q, S) /\ FlattenSeq(q) = F[Len(q)]
  <1>1. Len(q) \in Nat /\ \A i \in 1 .. Len(q) : q[i] \in Seq(S)
    BY LenProperties, ElementOfSeq
  <1>2. <<>> \in Seq(S)
    BY EmptySeq
  <1>3. CASE Len(q) = 0
    <2> DEFINE F == [i \in 0 .. 0 |-> <<>>]
    <2>1. FlattenSeq(q) = q /\ q = <<>>
      BY <1>3, EmptySeq DEF FlattenSeq
    <2>2. Joined(F, q, S)
      BY <1>2, <1>3 DEF Joined
    <2>3. F[Len(q)] = <<>>
      BY <1>3
    <2> HIDE DEF F
    <2>4. QED
      BY <2>1, <2>2, <2>3
  <1>4. CASE Len(q) # 0
    <2> DEFINE f == CHOOSE h : h = [i \in 1 .. Len(q) |->
                                      IF i = 1 THEN q[i] ELSE h[i - 1] \o q[i]]
               F == [i \in 0 .. Len(q) |-> IF i = 0 THEN <<>> ELSE f[i]]
    <2>1. FlattenSeq(q) = f[Len(q)]
      <3>1. FlattenSeq(q) = IF Len(q) = 0 THEN q ELSE f[Len(q)]
        BY DEF FlattenSeq
      <3> HIDE DEF f
      <3>2. QED
        BY <1>4, <3>1
    <2>2. Flattens(f, q, Len(q))
      <3>1. Len(q) \in Nat \ {0}
        BY <1>1, <1>4
      <3>2. \E h : Flattens(h, q, Len(q))
        BY <3>1, FlattensExist
      <3>3. QED
        BY <3>2 DEF Flattens
    <2> HIDE DEF f
    <2>3. F[0] = <<>> /\ F[Len(q)] = f[Len(q)]
      BY <1>1, <1>4
    <2>4. ASSUME NEW i \in 1 .. Len(q), F[i - 1] \in Seq(S)
          PROVE  F[i] = F[i - 1] \o q[i] /\ F[i] \in Seq(S)
      <3>1. i \in 0 .. Len(q) /\ i - 1 \in 0 .. Len(q) /\ i # 0 /\ (i - 1 = 0 <=> i = 1)
        BY <1>1
      <3>2. F[i] = f[i] /\ F[i - 1] = IF i = 1 THEN <<>> ELSE f[i - 1]
        BY <3>1
      <3>3. f[i] = IF i = 1 THEN q[i] ELSE f[i - 1] \o q[i]
        BY <2>2 DEF Flattens
      <3> HIDE DEF F
      <3>4. <<>> \o q[i] = q[i]
        BY <1>1, ConcatEmptySeq
      <3>5. F[i] = F[i - 1] \o q[i]
        BY <3>2, <3>3, <3>4
      <3>6. QED
        BY <1>1, <2>4, <3>5, ConcatProperties
    <2> DEFINE T == {i \in 0 .. Len(q) : F[i] \in Seq(S)}
    <2>5. 0 \in T
      BY <1>1, <1>2, <2>3
    <2>6. \A i \in 0 .. Len(q) - 1 : i \in T => i + 1 \in T
      <3> TAKE i \in 0 .. Len(q) - 1
      <3> HAVE i \in T
      <3>1. i + 1 \in 1 .. Len(q) /\ i + 1 \in 0 .. Len(q) /\ (i + 1) - 1 = i
        BY <1>1
      <3>2. F[i] \in Seq(S)
        OBVIOUS
      <3> HIDE DEF F
      <3>3. F[i + 1] \in Seq(S)
        BY <2>4, <3>1, <3>2
      <3>4. QED
        BY <3>1, <3>3
    <2>7. 0 .. Len(q) \subseteq T
      <3> HIDE DEF T
      <3>1. QED
        BY <1>1, <2>5, <2>6, Induction
    <2>8. \A i \in 0 .. Len(q) : F[i] \in Seq(S)
      BY <2>7
    <2>9. F \in [0 .. Len(q) -> Seq(S)]
      BY <2>8
    <2>10. ASSUME NEW i \in 1 .. Len(q) PROVE F[i] = F[i - 1] \o q[i]
      <3>1. i - 1 \in 0 .. Len(q)
        BY <1>1
      <3> HIDE DEF F
      <3>2. QED
        BY <2>4, <2>8, <3>1
    <2> HIDE DEF F
    <2>11. Joined(F, q, S)
      BY <2>3, <2>9, <2>10 DEF Joined
    <2>12. QED
      BY <2>1, <2>3, <2>11
  <1>5. QED
    BY <1>3, <1>4

\* Where a sequence stands among those that it is joined with.
LEMMA JoinedPiece ==
  ASSUME NEW S, NEW q \in Seq(Seq(S)), NEW F, Joined(F, q, S), NEW i \in 1 .. Len(q),
         q[i] # <<>>
  PROVE  /\ Len(F[i]) = Len(F[i - 1]) + Len(q[i]) /\ Len(F[i]) <= Len(F[Len(q)])
         /\ SubSeq(F[Len(q)], Len(F[i - 1]) + 1, Len(F[i])) = q[i]
  <1> DEFINE a == Len(F[i - 1])
             b == Len(F[i])
  <1>1. Len(q) \in Nat /\ \A k \in 1 .. Len(q) : q[k] \in Seq(S)
    BY LenProperties, ElementOfSeq
  <1>2. \A k \in 0 .. Len(q) : F[k] \in Seq(S)
    BY DEF Joined
  <1>3. i - 1 \in 0 .. Len(q) /\ i \in 0 .. Len(q)
    BY <1>1
  <1>4. F[i] = F[i - 1] \o q[i] /\ F[i - 1] \in Seq(S) /\ F[i] \in Seq(S) /\ q[i] \in Seq(S)
    BY <1>1, <1>2, <1>3 DEF Joined
  <1>5. a \in Nat /\ Len(q[i]) \in Nat \ {0} /\ b = a + Len(q[i])
    BY <1>4, ConcatProperties, LenProperties, EmptySeq
  <1> HIDE DEF a, b
  <1>6. SubSeq(F[i], a + 1, b) = q[i]
    <2>1. a + 1 \in a + 1 .. a + Len(q[i]) /\ b \in a + 1 .. a + Len(q[i])
          /\ (a + 1) - a = 1 /\ b - a = Len(q[i])
      BY <1>5
    <2>2. SubSeq(F[i - 1] \o q[i], a + 1, b) = SubSeq(q[i], (a + 1) - a, b - a)
      BY <1>4, <2>1, SubSeqOfConcat2, ZenonT(30) DEF a
    <2>3. QED
      BY <1>4, <2>1, <2>2, SubSeqFull
  <1> DEFINE T == {k \in 0 .. Len(q) :
                     i <= k => b <= Len(F[k]) /\ SubSeq(F[k], a + 1, b) = q[i]}
  <1>7. 0 \in T
    BY <1>1
  <1>8. ASSUME NEW k \in 0 .. Len(q) - 1, k \in T PROVE k + 1 \in T
    <2>1. k \in 0 .. Len(q) /\ k + 1 \in 1 .. Len(q) /\ (k + 1) - 1 = k /\ k + 1 \in 0 .. Len(q)
      BY <1>1
    <2>2. CASE k + 1 = i
      BY <1>5, <1>6, <2>1, <2>2 DEF b
    <2>3. CASE i <= k
      <3> DEFINE u == F[k]
                 v == q[k + 1]
                 w == F[k + 1]
      <3>1. b <= Len(u) /\ SubSeq(u, a + 1, b) = q[i]
        BY <1>8, <2>3
      <3>2. w = u \o v /\ u \in Seq(S) /\ v \in Seq(S)
        BY <1>1, <1>2, <2>1 DEF Joined
      <3> HIDE DEF u, v
      <3>3. Len(w) = Len(u) + Len(v) /\ Len(u) \in Nat /\ Len(v) \in Nat
        BY <3>2, ConcatProperties, LenProperties
      <3> HIDE DEF w
      <3>4. a + 1 \in 1 .. Len(u) /\ b \in 1 .. Len(u) /\ b <= Len(w)
        BY <1>5, <3>1, <3>3, SMTT(30)
      <3>5. SubSeq(w, a + 1, b) = SubSeq(u, a + 1, b)
        BY <3>2, <3>4, SubSeqOfConcat1
      <3>6. QED
        BY <2>1, <3>1, <3>4, <3>5 DEF w
    <2>4. CASE ~(i <= k + 1)
      BY <2>1, <2>4
    <2>5. QED
      BY <1>1, <2>2, <2>3, <2>4
  <1>9. Len(q) \in T
    <2>1. Len(q) \in 0 .. Len(q)
      BY <1>1
    <2> HIDE DEF T
    <2>2. QED
      BY <1>1, <1>7, <1>8, <2>1, Induction
  <1>10. b <= Len(F[Len(q)]) /\ SubSeq(F[Len(q)], a + 1, b) = q[i]
    BY <1>1, <1>9
  <1>11. QED
    BY <1>5, <1>10 DEF a, b

\* What four octets can say of a length.
LengthLimit == 256 * 256 * 256 * 256

LEMMA LengthLimitIs == LengthLimit \in Nat
  BY SMT DEF LengthLimit

LEMMA OctetOff ==
  ASSUME NEW n \in Nat
  PROVE  n \div 256 \in Nat /\ n % 256 \in Octet /\ n = (256 * (n \div 256)) + (n % 256)
  BY DEF Octet

Header(n) ==
  << n \div (256 * 256 * 256), (n \div (256 * 256)) % 256, (n \div 256) % 256, n % 256 >>

\* The length in front of a packet is read as it was written.
LEMMA LengthReadBack ==
  ASSUME NEW n \in Nat, n < LengthLimit
  PROVE  Header(n) \in Seq(Octet) /\ Len(Header(n)) = 4 /\ lengthIn(Header(n)) = n
  <1> DEFINE a == n \div 256
             b == n \div (256 * 256)
             c == n \div (256 * 256 * 256)
             h == << c, b % 256, a % 256, n % 256 >>
  <1>1. b = a \div 256 /\ c = b \div 256
    OBVIOUS
  <1>2. c \in Octet
    <2>1. n < 256 * 256 * 256 * 256
      BY SMT DEF LengthLimit
    <2>2. QED
      BY <2>1, SMT DEF Octet
  <1>3. a \in Nat /\ n % 256 \in Octet /\ n = (256 * a) + (n % 256)
    BY OctetOff
  <1> HIDE DEF a, b, c
  <1>4. b \in Nat /\ a % 256 \in Octet /\ a = (256 * b) + (a % 256)
    BY <1>1, <1>3, OctetOff
  <1>5. b % 256 \in Octet /\ b = (256 * c) + (b % 256)
    BY <1>1, <1>4, OctetOff
  <1>6. h \in Seq(Octet) /\ Len(h) = 4
    BY <1>2, <1>3, <1>4, <1>5
  <1>7. h[1] = c /\ h[2] = b % 256 /\ h[3] = a % 256 /\ h[4] = n % 256
    OBVIOUS
  <1>8. lengthIn(h) = (256 * ((256 * ((256 * c) + (b % 256))) + (a % 256))) + (n % 256)
    BY <1>7 DEF lengthIn
  <1>9. QED
    BY <1>3, <1>4, <1>5, <1>6, <1>8 DEF a, b, c, Header

LEMMA PacketIs ==
  ASSUME NEW m \in Seq(Octet), m # <<>>, Len(m) < LengthLimit
  PROVE  /\ sendPacket(m) \in Seq(Octet) /\ Len(sendPacket(m)) = 4 + Len(m)
         /\ lengthIn(SubSeq(sendPacket(m), 1, 4)) = Len(m)
         /\ SubSeq(sendPacket(m), 5, 4 + Len(m)) = m
  <1> DEFINE n == Len(m)
             h == Header(n)
  <1>1. n \in Nat /\ n # 0 /\ n < LengthLimit
    BY EmptySeq
  <1>2. sendPacket(m) = h \o m
    BY <1>1 DEF sendPacket, Header
  <1>3. h \in Seq(Octet) /\ Len(h) = 4 /\ lengthIn(h) = n
    <2> HIDE DEF n
    <2>1. QED
      BY <1>1, LengthReadBack
  <1> HIDE DEF h
  <1>4. h \o m \in Seq(Octet) /\ Len(h \o m) = 4 + n
    <2>1. h \in Seq(Octet) /\ Len(h) = 4
      BY <1>3
    <2>2. h \o m \in Seq(Octet) /\ Len(h \o m) = Len(h) + Len(m)
      BY <2>1, ConcatProperties
    <2>3. QED
      BY <2>1, <2>2
  <1>5. SubSeq(h \o m, 1, 4) = h
    <2>1. 1 \in 1 .. Len(h) /\ 4 \in 1 .. Len(h)
      BY <1>3
    <2>2. SubSeq(h \o m, 1, 4) = SubSeq(h, 1, 4)
      BY <1>3, <2>1, SubSeqOfConcat1
    <2>3. QED
      BY <1>3, <2>2, SubSeqFull
  <1>6. SubSeq(h \o m, 5, 4 + n) = m
    <2>1. 5 \in Len(h) + 1 .. Len(h) + Len(m) /\ 4 + n \in Len(h) + 1 .. Len(h) + Len(m)
          /\ 5 - Len(h) = 1 /\ (4 + n) - Len(h) = n
      <3>1. Len(h) = 4 /\ n \in Nat /\ n > 0 /\ Len(m) = n
        BY <1>1, <1>3
      <3> HIDE DEF n
      <3>2. QED
        BY <3>1
    <2>2. SubSeq(h \o m, 5, 4 + n) = SubSeq(m, 5 - Len(h), (4 + n) - Len(h))
      <3>1. h \in Seq(Octet)
        BY <1>3
      <3>2. QED
        BY <2>1, <3>1, SubSeqOfConcat2
    <2>3. QED
      BY <2>1, <2>2, SubSeqFull
  <1>7. QED
    BY <1>2, <1>3, <1>4, <1>5, <1>6

LEMMA ShortIsNone ==
  ASSUME NEW r
  PROVE  short(r).n \in {0, -1}
  BY DEF short

LEMMA DiscardIsNone ==
  ASSUME NEW s, NEW packetlen, NEW len
  PROVE  discard(s, packetlen, len).n \in {0, -1}
  <1> DEFINE many == (packetlen + len - 1) \div len
             want(k) == smaller(len, packetlen - (len * (k - 1)))
             read == CHOOSE h : h = [k \in 0 .. many |->
                        IF k = 0 THEN [n |-> 0, octets |-> <<>>, rest |-> s]
                        ELSE readn(h[k - 1].rest, want(k))]
             bad == {k \in 1 .. many : read[k].n # want(k)}
  <1>1. discard(s, packetlen, len) =
          IF bad # {} THEN short(read[Min(bad)])
          ELSE [n |-> -1, octets |-> <<>>, rest |-> read[many].rest]
    BY DEF discard
  <1> HIDE DEF bad, read, many
  <1>2. CASE bad # {}
    BY <1>1, <1>2, ShortIsNone
  <1>3. CASE ~(bad # {})
    BY <1>1, <1>3
  <1>4. QED
    BY <1>2, <1>3

\* What one readPacket gives of octets that have come in any pieces.
LEMMA ReadPacketReads ==
  ASSUME NEW z \in Seq(Octet), NEW p \in 0 .. Len(z), NEW s, Carries(s, z, p),
         NEW room \in Nat
  PROVE  LET r == readPacket(s, room)
             l == lengthIn(SubSeq(z, p + 1, p + 4))
         IN  /\ p + 4 > Len(z) => r.n \in {0, -1}
             /\ p + 4 <= Len(z) /\ l \in Nat /\ (l > room \/ p + 4 + l > Len(z)) => r.n \in {0, -1}
             /\ p + 4 <= Len(z) /\ l \in Nat /\ l <= room /\ p + 4 + l <= Len(z) =>
                  /\ r.n = l /\ r.octets = SubSeq(z, p + 4 + 1, p + 4 + l)
                  /\ Carries(r.rest, z, p + 4 + l)
  <1> DEFINE header == readn(s, 4)
             packetlen == lengthIn(header.octets)
             body == readn(header.rest, packetlen)
             r == readPacket(s, room)
             l == lengthIn(SubSeq(z, p + 1, p + 4))
  <1>1. Len(z) \in Nat /\ p \in Nat
    BY LenProperties
  <1>2. r = IF header.n # 4 THEN short(header)
            ELSE IF packetlen > room THEN discard(header.rest, packetlen, room)
            ELSE IF body.n # packetlen THEN short(body)
            ELSE body
    BY DEF readPacket, HeaderLen
  <1>3. /\ header.n = smaller(4, Len(z) - p)
        /\ header.octets = SubSeq(z, p + 1, p + header.n) /\ Carries(header.rest, z, p + header.n)
    <2>1. 4 \in Nat
      OBVIOUS
    <2>2. QED
      BY <2>1, ReadnReads DEF HasRead
  <1> HIDE DEF header, r
  <1>4. CASE p + 4 > Len(z)
    <2>1. header.n # 4
      BY <1>1, <1>3, <1>4 DEF smaller
    <2>2. r.n \in {0, -1}
      BY <1>2, <2>1, ShortIsNone
    <2>3. ~(p + 4 <= Len(z))
      BY <1>1, <1>4
    <2> HIDE DEF l
    <2>4. QED
      BY <2>2, <2>3 DEF r
  <1>5. CASE p + 4 <= Len(z) /\ l \in Nat
    <2>1. header.n = 4 /\ packetlen = l /\ Carries(header.rest, z, p + 4)
      BY <1>1, <1>3, <1>5 DEF smaller
    <2> HIDE DEF l, packetlen
    <2>2. CASE l > room
      <3>1. r = discard(header.rest, packetlen, room)
        BY <1>2, <2>1, <2>2
      <3>2. r.n \in {0, -1} /\ ~(l <= room) /\ ~(p + 4 > Len(z))
        BY <1>1, <1>5, <2>2, <3>1, DiscardIsNone
      <3>3. QED
        BY <3>2 DEF r, l
    <2>3. CASE l <= room
      <3>1. /\ body.n = smaller(l, Len(z) - (p + 4))
            /\ body.octets = SubSeq(z, p + 4 + 1, p + 4 + body.n)
            /\ Carries(body.rest, z, p + 4 + body.n)
        <4>1. p + 4 \in 0 .. Len(z)
          BY <1>1, <1>5
        <4>2. HasRead(readn(header.rest, l), z, p + 4, l)
          BY <1>5, <2>1, <4>1, ReadnReads
        <4>3. QED
          BY <2>1, <4>2 DEF HasRead
      <3> HIDE DEF body
      <3>2. r = IF body.n # l THEN short(body) ELSE body
        BY <1>1, <1>2, <1>5, <2>1, <2>3
      <3>3. CASE p + 4 + l > Len(z)
        <4>1. body.n # l /\ ~(p + 4 + l <= Len(z)) /\ ~(p + 4 > Len(z))
          BY <1>1, <1>5, <3>1, <3>3 DEF smaller
        <4>2. r.n \in {0, -1}
          BY <3>2, <4>1, ShortIsNone
        <4>3. QED
          BY <4>1, <4>2 DEF r, l
      <3>4. CASE p + 4 + l <= Len(z)
        <4>1. body.n = l /\ ~(p + 4 + l > Len(z)) /\ ~(p + 4 > Len(z)) /\ ~(l > room)
          BY <1>1, <1>5, <2>3, <3>1, <3>4 DEF smaller
        <4>2. r = body
          BY <3>2, <4>1
        <4>3. QED
          BY <3>1, <4>1, <4>2 DEF r, l
      <3>5. QED
        BY <1>1, <1>5, <3>3, <3>4
    <2>4. QED
      BY <1>5, <2>2, <2>3
  <1>6. CASE p + 4 <= Len(z) /\ l \notin Nat
    <2>1. ~(p + 4 > Len(z))
      BY <1>1, <1>6
    <2> HIDE DEF l
    <2>2. QED
      BY <1>6, <2>1 DEF l
  <1>7. QED
    BY <1>1, <1>4, <1>5, <1>6

\* What the reads of the gateway give, one after the other.
Reads(f, n, a, len) ==
  f = [k \in 0 .. n |-> IF k = 0 THEN a ELSE readPacket(f[k - 1].rest, len)]

LEMMA ReadsExist ==
  ASSUME NEW n \in Nat, NEW a, NEW len
  PROVE  \E f : Reads(f, n, a, len)
  <1> DEFINE S == {m \in 0 .. n : \E f : Reads(f, m, a, len)}
  <1>1. 0 \in S
    <2>1. Reads([k \in 0 .. 0 |-> a], 0, a, len)
      BY DEF Reads
    <2>2. QED
      BY <2>1
  <1>2. ASSUME NEW m \in 0 .. n - 1, m \in S PROVE m + 1 \in S
    <2>1. PICK f : Reads(f, m, a, len)
      BY <1>2
    <2> DEFINE e == [k \in 0 .. m + 1 |-> IF k = m + 1 THEN readPacket(f[m].rest, len) ELSE f[k]]
    <2>2. ASSUME NEW k \in 0 .. m + 1
          PROVE  e[k] = IF k = 0 THEN a ELSE readPacket(e[k - 1].rest, len)
      <3>1. CASE k = m + 1
        <4>1. k # 0 /\ k - 1 = m /\ m \in 0 .. m + 1 /\ m # m + 1
          BY <3>1
        <4>2. e[k] = readPacket(f[m].rest, len) /\ e[m] = f[m]
          BY <3>1, <4>1
        <4> HIDE DEF e
        <4>3. QED
          BY <4>1, <4>2
      <3>2. CASE k # m + 1
        <4>1. k \in 0 .. m /\ (k # 0 => k - 1 \in 0 .. m /\ k - 1 # m + 1)
          BY <3>2
        <4>2. f[k] = IF k = 0 THEN a ELSE readPacket(f[k - 1].rest, len)
          BY <2>1, <4>1 DEF Reads
        <4>3. e[k] = f[k] /\ (k # 0 => e[k - 1] = f[k - 1])
          BY <3>2, <4>1
        <4> HIDE DEF e
        <4>4. QED
          BY <4>2, <4>3
      <3>3. QED
        BY <3>1, <3>2
    <2>3. e = [k \in 0 .. m + 1 |-> e[k]]
      OBVIOUS
    <2> HIDE DEF e
    <2>4. Reads(e, m + 1, a, len)
      BY <2>2, <2>3 DEF Reads
    <2>5. m + 1 \in 0 .. n
      OBVIOUS
    <2>6. QED
      BY <2>4, <2>5
  <1>3. n \in S
    <2>1. n \in 0 .. n
      OBVIOUS
    <2> HIDE DEF S
    <2>2. QED
      BY <1>1, <1>2, <2>1, Induction
  <1>4. QED
    BY <1>3

\* What is heard message by message.
Hears(f, n, a, messages, room, size) ==
  f = [k \in 0 .. n |-> IF k = 0 THEN a ELSE hearing(f[k - 1], messages[k], room, size)]

LEMMA HearsExist ==
  ASSUME NEW n \in Nat, NEW a, NEW messages, NEW room, NEW size
  PROVE  \E f : Hears(f, n, a, messages, room, size)
  <1> DEFINE S == {m \in 0 .. n : \E f : Hears(f, m, a, messages, room, size)}
  <1>1. 0 \in S
    <2>1. Hears([k \in 0 .. 0 |-> a], 0, a, messages, room, size)
      BY DEF Hears
    <2>2. QED
      BY <2>1
  <1>2. ASSUME NEW m \in 0 .. n - 1, m \in S PROVE m + 1 \in S
    <2>1. PICK f : Hears(f, m, a, messages, room, size)
      BY <1>2
    <2> DEFINE e == [k \in 0 .. m + 1 |-> IF k = m + 1 THEN hearing(f[m], messages[(m + 1)], room, size) ELSE f[k]]
    <2>2. ASSUME NEW k \in 0 .. m + 1
          PROVE  e[k] = IF k = 0 THEN a ELSE hearing(e[k - 1], messages[k], room, size)
      <3>1. CASE k = m + 1
        <4>1. k # 0 /\ k - 1 = m /\ m \in 0 .. m + 1 /\ m # m + 1
          BY <3>1
        <4>2. e[k] = hearing(f[m], messages[k], room, size) /\ e[m] = f[m]
          BY <3>1, <4>1
        <4> HIDE DEF e
        <4>3. QED
          BY <4>1, <4>2
      <3>2. CASE k # m + 1
        <4>1. k \in 0 .. m /\ (k # 0 => k - 1 \in 0 .. m /\ k - 1 # m + 1)
          BY <3>2
        <4>2. f[k] = IF k = 0 THEN a ELSE hearing(f[k - 1], messages[k], room, size)
          BY <2>1, <4>1 DEF Hears
        <4>3. e[k] = f[k] /\ (k # 0 => e[k - 1] = f[k - 1])
          BY <3>2, <4>1
        <4> HIDE DEF e
        <4>4. QED
          BY <4>2, <4>3
      <3>3. QED
        BY <3>1, <3>2
    <2>3. e = [k \in 0 .. m + 1 |-> e[k]]
      OBVIOUS
    <2> HIDE DEF e
    <2>4. Hears(e, m + 1, a, messages, room, size)
      BY <2>2, <2>3 DEF Hears
    <2>5. m + 1 \in 0 .. n
      OBVIOUS
    <2>6. QED
      BY <2>4, <2>5
  <1>3. n \in S
    <2>1. n \in 0 .. n
      OBVIOUS
    <2> HIDE DEF S
    <2>2. QED
      BY <1>1, <1>2, <2>1, Induction
  <1>4. QED
    BY <1>3

LEMMA LeastOf ==
  ASSUME NEW S, S \subseteq Int, NEW x \in S, \A y \in S : x <= y
  PROVE  Min(S) = x
  <1>1. \E u \in S : \A y \in S : u <= y
    OBVIOUS
  <1>2. Min(S) \in S /\ \A y \in S : Min(S) <= y
    BY <1>1 DEF Min
  <1>3. Min(S) <= x /\ x <= Min(S) /\ x \in Int /\ Min(S) \in Int
    BY <1>2
  <1>4. QED
    BY <1>3

\* One message on its way: w is all that is sent, z what the connection carries of it.
LEMMA MessageIsRead ==
  ASSUME NEW w \in Seq(Octet), NEW q \in 0 .. Len(w), NEW m \in Seq(Octet), m # <<>>,
         Len(m) < LengthLimit, NEW p \in 0 .. q, p + 4 + Len(m) <= Len(w),
         SubSeq(w, p + 1, p + 4 + Len(m)) = sendPacket(m),
         NEW s, Carries(s, SubSeq(w, 1, q), p), NEW room \in Nat
  PROVE  LET r == readPacket(s, room)
             z == SubSeq(w, 1, q)
         IN  /\ Len(m) > room \/ p + 4 + Len(m) > q => r.n \in {0, -1}
             /\ ~(Len(m) > room \/ p + 4 + Len(m) > q) =>
                  r.n = Len(m) /\ r.octets = m /\ Carries(r.rest, z, p + 4 + Len(m))
  <1> DEFINE z == SubSeq(w, 1, q)
             r == readPacket(s, room)
             n == Len(m)
             l == lengthIn(SubSeq(z, p + 1, p + 4))
  <1>1. Len(w) \in Nat /\ q \in Nat /\ p \in Nat /\ p <= q /\ q <= Len(w)
    BY LenProperties
  <1>2. n \in Nat /\ n > 0
    BY EmptySeq
  <1>3. z \in Seq(Octet) /\ Len(z) = q
    <2>1. 0 \in 0 .. Len(w) /\ q \in 0 .. Len(w) /\ 0 + 1 = 1 /\ q - 0 = q
      BY <1>1
    <2>2. SubSeq(w, 0 + 1, q) \in Seq(Octet) /\ Len(SubSeq(w, 0 + 1, q)) = q - 0
      BY <2>1, PieceOf
    <2>3. QED
      BY <2>1, <2>2
  <1>4. ASSUME NEW a \in 0 .. q, NEW b \in a .. q PROVE SubSeq(z, a + 1, b) = SubSeq(w, a + 1, b)
    <2>1. 0 \in 0 .. Len(w) /\ q \in 0 .. Len(w) /\ a \in 0 .. q - 0 /\ b \in a .. q - 0
          /\ 0 + a + 1 = a + 1 /\ 0 + b = b /\ 0 + 1 = 1
      BY <1>1
    <2>2. SubSeq(SubSeq(w, 0 + 1, q), a + 1, b) = SubSeq(w, 0 + a + 1, 0 + b)
      BY <2>1, PieceOfPiece
    <2>3. QED
      BY <2>1, <2>2
  <1>5. ASSUME NEW a \in 0 .. 4 + n, NEW b \in a .. 4 + n
        PROVE  SubSeq(sendPacket(m), a + 1, b) = SubSeq(w, p + a + 1, p + b)
    <2>1. p \in 0 .. Len(w) /\ p + 4 + n \in p .. Len(w) /\ (p + 4 + n) - p = 4 + n
      BY <1>1, <1>2
    <2> HIDE DEF n
    <2>2. a \in 0 .. (p + 4 + n) - p /\ b \in a .. (p + 4 + n) - p
      BY <2>1
    <2>3. SubSeq(SubSeq(w, p + 1, p + 4 + n), a + 1, b) = SubSeq(w, p + a + 1, p + b)
      BY <2>1, <2>2, PieceOfPiece
    <2>4. QED
      BY <2>3 DEF n
  <1>6. SubSeq(sendPacket(m), 0 + 1, 4) = SubSeq(w, p + 0 + 1, p + 4)
        /\ SubSeq(sendPacket(m), 4 + 1, 4 + n) = SubSeq(w, p + 4 + 1, p + (4 + n))
    <2>1. 0 \in 0 .. 4 + n /\ 4 \in 0 .. 4 + n /\ 4 \in 0 .. 4 + n /\ 4 + n \in 4 .. 4 + n
      BY <1>2
    <2> HIDE DEF n
    <2>2. QED
      BY <1>5, <2>1
  <1>7. lengthIn(SubSeq(w, p + 1, p + 4)) = n /\ SubSeq(w, p + 4 + 1, p + 4 + n) = m
    <2>1. p + 0 + 1 = p + 1 /\ p + (4 + n) = p + 4 + n /\ 0 + 1 = 1 /\ 4 + 1 = 5
      BY <1>1, <1>2
    <2>2. lengthIn(SubSeq(sendPacket(m), 1, 4)) = n /\ SubSeq(sendPacket(m), 5, 4 + n) = m
      BY PacketIs
    <2> HIDE DEF n
    <2>3. QED
      BY <1>6, <2>1, <2>2
  <1>8. /\ p + 4 > q => r.n \in {0, -1}
        /\ p + 4 <= q /\ l \in Nat /\ (l > room \/ p + 4 + l > q) => r.n \in {0, -1}
        /\ p + 4 <= q /\ l \in Nat /\ l <= room /\ p + 4 + l <= q =>
             /\ r.n = l /\ r.octets = SubSeq(z, p + 4 + 1, p + 4 + l)
             /\ Carries(r.rest, z, p + 4 + l)
    <2>1. p \in 0 .. Len(z)
      BY <1>3
    <2> HIDE DEF z
    <2>2. Carries(s, z, p)
      BY DEF z
    <2>3. QED
      BY <1>3, <2>1, <2>2, ReadPacketReads
  <1>9. p + 4 <= q => l = n
    <2> SUFFICES ASSUME p + 4 <= q PROVE l = n
      OBVIOUS
    <2>1. p \in 0 .. q /\ p + 4 \in p .. q
      BY <1>1
    <2>2. SubSeq(z, p + 1, p + 4) = SubSeq(w, p + 1, p + 4)
      BY <1>4, <2>1
    <2>3. QED
      BY <1>7, <2>2
  <1>10. p + 4 + n <= q => SubSeq(z, p + 4 + 1, p + 4 + n) = m
    <2> SUFFICES ASSUME p + 4 + n <= q PROVE SubSeq(z, p + 4 + 1, p + 4 + n) = m
      OBVIOUS
    <2>1. p + 4 \in 0 .. q /\ p + 4 + n \in p + 4 .. q
      BY <1>1, <1>2
    <2> HIDE DEF n, z
    <2>2. SubSeq(z, p + 4 + 1, p + 4 + n) = SubSeq(w, p + 4 + 1, p + 4 + n)
      BY <1>4, <2>1
    <2>3. QED
      BY <1>7, <2>2
  <1> HIDE DEF l, r, n, z
  <1>11. CASE n > room \/ p + 4 + n > q
    <2>1. r.n \in {0, -1}
      BY <1>1, <1>2, <1>8, <1>9, <1>11
    <2>2. QED
      BY <1>11, <2>1 DEF r, n, z
  <1>12. CASE ~(n > room \/ p + 4 + n > q)
    <2>1. p + 4 <= q /\ n <= room /\ p + 4 + n <= q
      BY <1>1, <1>2, <1>12
    <2>2. r.n = n /\ r.octets = m /\ Carries(r.rest, z, p + 4 + n)
      BY <1>2, <1>8, <1>9, <1>10, <2>1
    <2>3. QED
      BY <1>12, <2>2 DEF r, n, z
  <1>13. QED
    BY <1>11, <1>12 DEF n

\* The packets of messages, one behind the other.
Packets(messages) == [i \in DOMAIN messages |-> sendPacket(messages[i])]

Sendable == {m \in Seq(Octet) : Len(m) < LengthLimit}

LEMMA SameInterval ==
  ASSUME NEW m \in Nat, NEW n \in Nat, 1 .. m = 1 .. n
  PROVE  m = n
  <1>1. m > 0 => m \in 1 .. n
    OBVIOUS
  <1>2. n > 0 => n \in 1 .. m
    OBVIOUS
  <1>3. QED
    BY <1>1, <1>2

LEMMA PacketsType ==
  ASSUME NEW messages \in Seq(Sendable)
  PROVE  /\ Packets(messages) \in Seq(Seq(Octet)) /\ Len(Packets(messages)) = Len(messages)
         /\ \A i \in 1 .. Len(messages) :
              Packets(messages)[i] = sendPacket(messages[i]) /\ messages[i] \in Sendable
  <1> DEFINE n == Len(messages)
  <1>1. n \in Nat /\ DOMAIN messages = 1 .. n /\ \A i \in 1 .. n : messages[i] \in Sendable
    BY LenProperties, ElementOfSeq
  <1>2. \A i \in 1 .. n : sendPacket(messages[i]) \in Seq(Octet)
    <2> TAKE i \in 1 .. n
    <2> DEFINE m == messages[i]
    <2>1. m \in Seq(Octet) /\ Len(m) < LengthLimit
      BY <1>1 DEF Sendable
    <2> HIDE DEF m
    <2>2. CASE m = <<>>
      <3>1. Len(m) = 0 /\ <<>> \in Seq(Octet)
        BY <2>2, EmptySeq
      <3>2. QED
        BY <3>1 DEF sendPacket, m
    <2>3. CASE m # <<>>
      BY <2>1, <2>3, PacketIs DEF m
    <2>4. QED
      BY <2>2, <2>3
  <1> HIDE DEF n
  <1>3. Packets(messages) \in [1 .. n -> Seq(Octet)]
    BY <1>1, <1>2 DEF Packets
  <1>4. Packets(messages) \in Seq(Seq(Octet))
    BY <1>1, <1>3, SeqDef
  <1>5. Len(Packets(messages)) = n
    <2>1. DOMAIN Packets(messages) = 1 .. Len(Packets(messages)) /\ Len(Packets(messages)) \in Nat
      BY <1>4, LenProperties
    <2>2. DOMAIN Packets(messages) = 1 .. n
      BY <1>3
    <2>3. QED
      BY <1>1, <2>1, <2>2, SameInterval
  <1>6. QED
    BY <1>1, <1>4, <1>5 DEF Packets, n

Hearing == [got : Seq(Sendable), end : Nat, open : BOOLEAN]

\* What the gateway has read, and what is left to be read, after i messages.
HeardSoFar(h, read, F, z, i) ==
  /\ h \in Hearing /\ Len(h.got) <= i
  /\ \A j \in 1 .. Len(h.got) : read[j].n \in Nat /\ read[j].n > 0
                                /\ read[j].octets = h.got[j]
  /\ h.open => /\ h.end = Len(F[i]) /\ h.end <= Len(z)
               /\ Carries(read[Len(h.got)].rest, z, h.end)
  /\ ~h.open => Len(h.got) < i /\ read[Len(h.got) + 1].n \in {0, -1}

LEMMA HearStep ==
  ASSUME NEW messages \in Seq(Sendable), NEW F, Joined(F, Packets(messages), Octet),
         NEW q \in 0 .. Len(F[Len(messages)]), NEW room \in Nat,
         NEW s, NEW read,
         Reads(read, Len(messages) + 1, [n |-> 0, octets |-> <<>>, rest |-> s], room),
         NEW i \in 0 .. Len(messages) - 1, NEW h,
         HeardSoFar(h, read, F, SubSeq(F[Len(messages)], 1, q), i)
  PROVE  HeardSoFar(hearing(h, messages[i + 1], room, q), read, F,
                    SubSeq(F[Len(messages)], 1, q), i + 1)
  <1> DEFINE N == Len(messages)
             w == F[N]
             z == SubSeq(w, 1, q)
             m == messages[i + 1]
             k == Len(h.got)
             g == hearing(h, m, room, q)
  <1>1. /\ Packets(messages) \in Seq(Seq(Octet)) /\ Len(Packets(messages)) = N
        /\ \A j \in 1 .. N : Packets(messages)[j] = sendPacket(messages[j])
                             /\ messages[j] \in Sendable
    BY PacketsType
  <1>2. N \in Nat /\ i + 1 \in 1 .. N /\ (i + 1) - 1 = i /\ i \in 0 .. N /\ i + 1 \in 0 .. N /\ N \in 0 .. N
    BY LenProperties
  <1>3. w \in Seq(Octet) /\ F[i] \in Seq(Octet) /\ F[i + 1] = F[i] \o sendPacket(m)
    BY <1>1, <1>2 DEF Joined
  <1>4. Len(w) \in Nat /\ q \in Nat /\ q <= Len(w)
    BY <1>3, LenProperties
  <1>5. z \in Seq(Octet) /\ Len(z) = q
    <2>1. 0 \in 0 .. Len(w) /\ q \in 0 .. Len(w) /\ 0 + 1 = 1 /\ q - 0 = q
      BY <1>4
    <2> HIDE DEF w
    <2>2. SubSeq(w, 0 + 1, q) \in Seq(Octet) /\ Len(SubSeq(w, 0 + 1, q)) = q - 0
      BY <1>3, <1>4, <2>1, PieceOf
    <2>3. QED
      BY <2>1, <2>2
  <1>6. /\ h \in Hearing /\ k <= i
        /\ \A j \in 1 .. k : read[j].n \in Nat /\ read[j].n > 0 /\ read[j].octets = h.got[j]
        /\ h.open => h.end = Len(F[i]) /\ h.end <= q /\ Carries(read[k].rest, z, h.end)
        /\ ~h.open => k < i /\ read[k + 1].n \in {0, -1}
    BY <1>5 DEF HeardSoFar
  <1>7. k \in Nat /\ h.got \in Seq(Sendable) /\ h.end \in Nat /\ h.open \in BOOLEAN
    BY <1>6, LenProperties DEF Hearing
  <1>8. m \in Sendable /\ m \in Seq(Octet) /\ Len(m) < LengthLimit /\ Len(m) \in Nat
    BY <1>1, <1>2, LenProperties DEF Sendable
  <1>9. read[k + 1] = readPacket(read[k].rest, room)
    <2>1. k + 1 \in 0 .. N + 1 /\ k + 1 # 0 /\ (k + 1) - 1 = k
      BY <1>2, <1>6, <1>7
    <2>2. QED
      BY <2>1 DEF Reads
  <1> DEFINE e == h.end + 4 + Len(m)
  <1>10. g = IF m = <<>> \/ ~h.open THEN h
             ELSE IF Len(m) > room \/ e > q THEN [h EXCEPT !.open = FALSE]
             ELSE [h EXCEPT !.got = Append(h.got, m), !.end = e]
    BY DEF hearing, HeaderLen
  <1> HIDE DEF g, z, w
  <1>11. CASE ~h.open
    <2>1. g = h
      BY <1>10, <1>11
    <2>2. HeardSoFar(h, read, F, z, i + 1)
      BY <1>2, <1>6, <1>7, <1>11 DEF HeardSoFar
    <2>3. QED
      BY <2>1, <2>2 DEF g, z, w
  <1>12. CASE h.open /\ m = <<>>
    <2>1. g = h
      BY <1>10, <1>12
    <2>2. F[i + 1] = F[i]
      <3>1. sendPacket(m) = <<>>
        <4>1. Len(m) = 0
          BY <1>12, EmptySeq
        <4>2. QED
          BY <4>1 DEF sendPacket
      <3>2. QED
        BY <1>3, <3>1, ConcatEmptySeq
    <2>3. HeardSoFar(h, read, F, z, i + 1)
      BY <1>2, <1>5, <1>6, <1>7, <1>12, <2>2 DEF HeardSoFar
    <2>4. QED
      BY <2>1, <2>3 DEF g, z, w
  <1>13. CASE h.open /\ m # <<>>
    <2> DEFINE p == h.end
    <2>1. sendPacket(m) # <<>> /\ Len(sendPacket(m)) = 4 + Len(m)
      BY <1>8, <1>13, PacketIs, EmptySeq
    <2>2. /\ Len(F[i + 1]) = e /\ e <= Len(w) /\ SubSeq(w, p + 1, e) = sendPacket(m)
      <3>1. /\ Len(F[i + 1]) = Len(F[i]) + Len(sendPacket(m)) /\ Len(F[i + 1]) <= Len(w)
            /\ SubSeq(w, Len(F[i]) + 1, Len(F[i + 1])) = sendPacket(m)
        <4> DEFINE c == Packets(messages)
                   j == i + 1
        <4>1. c[j] = sendPacket(m) /\ j \in 1 .. Len(c) /\ j - 1 = i
          BY <1>1, <1>2
        <4>2. c \in Seq(Seq(Octet)) /\ Joined(F, c, Octet) /\ Len(c) = N
          BY <1>1
        <4> HIDE DEF c, j
        <4>3. c[j] # <<>>
          BY <2>1, <4>1
        <4>4. /\ Len(F[j]) = Len(F[j - 1]) + Len(c[j]) /\ Len(F[j]) <= Len(F[Len(c)])
              /\ SubSeq(F[Len(c)], Len(F[j - 1]) + 1, Len(F[j])) = c[j]
          BY <4>1, <4>2, <4>3, JoinedPiece
        <4>5. QED
          BY <4>1, <4>2, <4>4 DEF w, j
      <3>2. Len(F[i]) = p
        BY <1>6, <1>13
      <3>3. Len(F[i + 1]) = e
        BY <1>7, <1>8, <2>1, <3>1, <3>2, SMTT(30)
      <3>4. QED
        BY <3>1, <3>2, <3>3
    <2>3. p \in 0 .. q /\ Carries(read[k].rest, z, p)
      BY <1>4, <1>6, <1>7, <1>13
    <2>4. /\ Len(m) > room \/ e > q => read[k + 1].n \in {0, -1}
          /\ ~(Len(m) > room \/ e > q) =>
               read[k + 1].n = Len(m) /\ read[k + 1].octets = m /\ Carries(read[k + 1].rest, z, e)
      <3>1. Carries(read[k].rest, SubSeq(w, 1, q), p) /\ q \in 0 .. Len(w)
        BY <1>4, <2>3 DEF z
      <3>2. p + 4 + Len(m) <= Len(w) /\ SubSeq(w, p + 1, p + 4 + Len(m)) = sendPacket(m)
        BY <2>2
      <3> DEFINE r == readPacket(read[k].rest, room)
      <3> HIDE DEF p, k
      <3>3. /\ Len(m) > room \/ p + 4 + Len(m) > q => r.n \in {0, -1}
            /\ ~(Len(m) > room \/ p + 4 + Len(m) > q) =>
                 r.n = Len(m) /\ r.octets = m /\ Carries(r.rest, SubSeq(w, 1, q), p + 4 + Len(m))
        <4> HIDE DEF m
        <4>1. m # <<>>
          BY <1>13
        <4>2. QED
          BY <1>3, <1>8, <2>3, <3>1, <3>2, <4>1, MessageIsRead
      <3> HIDE DEF r
      <3>4. read[k + 1] = r
        BY <1>9 DEF r
      <3>5. QED
        BY <3>3, <3>4 DEF z, p
    <2>5. CASE Len(m) > room \/ e > q
      <3>1. g = [h EXCEPT !.open = FALSE]
        BY <1>10, <1>13, <2>5
      <3>2. g \in Hearing /\ g.got = h.got /\ g.open = FALSE
        BY <1>6, <3>1 DEF Hearing
      <3>3. HeardSoFar(g, read, F, z, i + 1)
        BY <1>2, <1>6, <1>7, <2>4, <2>5, <3>2, SMTT(30) DEF HeardSoFar
      <3>4. QED
        BY <3>3 DEF g, z, w
    <2>6. CASE ~(Len(m) > room \/ e > q)
      <3>1. g = [h EXCEPT !.got = Append(h.got, m), !.end = e]
        BY <1>10, <1>13, <2>6
      <3>2. /\ Append(h.got, m) \in Seq(Sendable) /\ Len(Append(h.got, m)) = k + 1
            /\ \A j \in 1 .. k : Append(h.got, m)[j] = h.got[j]
            /\ Append(h.got, m)[k + 1] = m
        <4> DEFINE c == h.got
        <4>1. c \in Seq(Sendable)
          BY <1>7
        <4> HIDE DEF c, m
        <4>2. /\ Append(c, m) \in Seq(Sendable) /\ Len(Append(c, m)) = Len(c) + 1
              /\ \A j \in 1 .. Len(c) : Append(c, m)[j] = c[j]
              /\ Append(c, m)[Len(c) + 1] = m
          BY <1>8, <4>1, AppendProperties
        <4>3. c = h.got /\ k = Len(c)
          BY DEF c
        <4> HIDE DEF k
        <4>4. QED
          BY <4>2, <4>3
      <3>3. g \in Hearing /\ g.got = Append(h.got, m) /\ g.end = e /\ g.open = h.open
        <4> DEFINE c == Append(h.got, m)
        <4>1. e \in Nat
          BY <1>7, <1>8
        <4>2. c \in Seq(Sendable)
          BY <3>2
        <4> HIDE DEF e, c
        <4>3. g = [h EXCEPT !.got = c, !.end = e]
          BY <3>1 DEF c
        <4>4. g \in Hearing /\ g.got = c /\ g.end = e /\ g.open = h.open
          BY <1>6, <4>1, <4>2, <4>3 DEF Hearing
        <4>5. QED
          BY <4>4 DEF c
      <3>4. read[k + 1].n = Len(m) /\ read[k + 1].octets = m /\ Carries(read[k + 1].rest, z, e)
        BY <2>4, <2>6
      <3>5. Len(m) > 0 /\ Len(m) \in Nat
        BY <1>8, <1>13, EmptySeq
      <3>6. ASSUME NEW j \in 1 .. Len(g.got)
            PROVE  read[j].n \in Nat /\ read[j].n > 0 /\ read[j].octets = g.got[j]
        <4>1. CASE j = k + 1
          <5>1. g.got[j] = m
            BY <3>2, <3>3, <4>1
          <5> HIDE DEF m, k
          <5>2. read[j].n = Len(m) /\ read[j].octets = m
            BY <3>4, <4>1
          <5>3. read[j].n > 0 /\ read[j].n \in Nat
            BY <3>5, <5>2, Zenon
          <5>4. QED
            BY <5>1, <5>2, <5>3
        <4>2. CASE j # k + 1
          <5>1. j \in 1 .. k
            <6>1. Len(g.got) = k + 1
              BY <3>2, <3>3
            <6> HIDE DEF k
            <6>2. QED
              BY <1>7, <4>2, <6>1
          <5>2. QED
            BY <1>6, <3>2, <3>3, <5>1
        <4>3. QED
          BY <4>1, <4>2
      <3>7. Len(g.got) = k + 1 /\ k + 1 <= i + 1 /\ g.open
        BY <1>2, <1>6, <1>7, <1>13, <3>2, <3>3, SMTT(30)
      <3>8. e <= q
        BY <1>4, <1>7, <1>8, <2>6
      <3>9. HeardSoFar(g, read, F, z, i + 1)
        BY <1>5, <2>2, <3>3, <3>4, <3>6, <3>7, <3>8 DEF HeardSoFar
      <3>10. QED
        BY <3>9 DEF g, z, w
    <2>7. QED
      BY <2>5, <2>6
  <1>14. QED
    BY <1>7, <1>11, <1>12, <1>13

LEMMA PacketsAreHeard ==
  ASSUME NEW messages \in Seq(Sendable), NEW room \in Nat,
         NEW q \in 0 .. Len(FlattenSeq(Packets(messages))), NEW s,
         Carries(s, SubSeq(FlattenSeq(Packets(messages)), 1, q), 0)
  PROVE  packets(s, room, Len(messages) + 1) = Heard(messages, room, q)
  <1> DEFINE N == Len(messages)
             a == [n |-> 0, octets |-> <<>>, rest |-> s]
             b == [got |-> <<>>, end |-> 0, open |-> TRUE]
             read == CHOOSE f : f = [k \in 0 .. N + 1 |->
                                       IF k = 0 THEN a ELSE readPacket(f[k - 1].rest, room)]
             heard == CHOOSE f : f = [i \in 0 .. N |->
                                        IF i = 0 THEN b ELSE hearing(f[i - 1], messages[i], room, q)]
             last == {k \in 1 .. N + 1 : read[k].n <= 0}
  <1>1. N \in Nat /\ N + 1 \in Nat
    BY LenProperties
  <1>2. PICK F : Joined(F, Packets(messages), Octet)
                 /\ FlattenSeq(Packets(messages)) = F[Len(Packets(messages))]
    BY PacketsType, FlattenJoins
  <1> DEFINE z == SubSeq(F[N], 1, q)
  <1>3. Len(Packets(messages)) = N /\ FlattenSeq(Packets(messages)) = F[N]
        /\ q \in 0 .. Len(F[N]) /\ F[N] \in Seq(Octet)
    <2>1. Len(Packets(messages)) = N
      BY PacketsType
    <2>2. F[N] \in Seq(Octet)
      BY <1>1, <1>2, <2>1 DEF Joined
    <2>3. QED
      BY <1>2, <2>1, <2>2
  <1>4. z \in Seq(Octet) /\ Len(z) = q /\ Carries(s, z, 0)
    <2> DEFINE w == F[N]
    <2>1. w \in Seq(Octet) /\ Len(w) \in Nat /\ q \in 0 .. Len(w)
      BY <1>3, LenProperties
    <2>2. 0 \in 0 .. Len(w) /\ 0 + 1 = 1 /\ q - 0 = q
      BY <2>1
    <2>3. Carries(s, SubSeq(w, 1, q), 0)
      BY <1>3
    <2> HIDE DEF w
    <2>4. SubSeq(w, 0 + 1, q) \in Seq(Octet) /\ Len(SubSeq(w, 0 + 1, q)) = q - 0
      BY <2>1, <2>2, PieceOf
    <2>5. QED
      BY <2>2, <2>3, <2>4 DEF w
  <1>5. packets(s, room, N + 1) =
          [k \in 1 .. (IF last = {} THEN N + 1 ELSE Min(last) - 1) |-> read[k].octets]
    BY DEF packets
  <1>6. Heard(messages, room, q) = heard[N].got
    BY DEF Heard
  <1>7. Reads(read, N + 1, a, room)
    <2> HIDE DEF N, a
    <2>1. \E f : Reads(f, N + 1, a, room)
      BY <1>1, ReadsExist
    <2>2. QED
      BY <2>1 DEF Reads
  <1>8. Hears(heard, N, b, messages, room, q)
    <2> HIDE DEF N, b
    <2>1. \E f : Hears(f, N, b, messages, room, q)
      BY <1>1, HearsExist
    <2>2. QED
      BY <2>1 DEF Hears
  <1> HIDE DEF read, heard
  <1> DEFINE T == {i \in 0 .. N : HeardSoFar(heard[i], read, F, z, i)}
  <1>9. 0 \in T
    <2>1. heard[0] = b
      BY <1>1, <1>8 DEF Hears
    <2>2. read[0] = a
      BY <1>1, <1>7 DEF Reads
    <2>3. F[0] = <<>> /\ Len(<<>>) = 0
      BY <1>2, EmptySeq DEF Joined
    <2>4. b \in Hearing
      <3>1. <<>> \in Seq(Sendable)
        BY EmptySeq
      <3>2. QED
        BY <3>1 DEF Hearing
    <2>5. b.got = <<>> /\ b.end = 0 /\ b.open = TRUE /\ a.rest = s
      OBVIOUS
    <2>6. Len(b.got) = 0
      BY <2>3, <2>5
    <2>7. q >= 0 /\ q \in Int
      <3>1. Len(F[N]) \in Nat
        BY <1>3, LenProperties
      <3>2. QED
        BY <1>3, <3>1
    <2> HIDE DEF z, b, a
    <2>8. HeardSoFar(b, read, F, z, 0)
      BY <1>4, <2>2, <2>3, <2>4, <2>5, <2>6, <2>7 DEF HeardSoFar
    <2>9. QED
      BY <1>1, <2>1, <2>8
  <1>10. ASSUME NEW i \in 0 .. N - 1, i \in T PROVE i + 1 \in T
    <2>1. i + 1 \in 0 .. N /\ i + 1 # 0 /\ (i + 1) - 1 = i
      BY <1>1
    <2>2. heard[i + 1] = hearing(heard[i], messages[i + 1], room, q)
      BY <1>8, <2>1 DEF Hears
    <2>3. HeardSoFar(heard[i], read, F, SubSeq(F[Len(messages)], 1, q), i)
      BY <1>10
    <2>4. Reads(read, Len(messages) + 1, [n |-> 0, octets |-> <<>>, rest |-> s], room)
      BY <1>7
    <2>5. Joined(F, Packets(messages), Octet) /\ q \in 0 .. Len(F[Len(messages)])
          /\ i \in 0 .. Len(messages) - 1
      BY <1>2, <1>3
    <2>6. HeardSoFar(hearing(heard[i], messages[i + 1], room, q), read, F,
                     SubSeq(F[Len(messages)], 1, q), i + 1)
      BY <2>3, <2>4, <2>5, HearStep
    <2>7. HeardSoFar(heard[i + 1], read, F, z, i + 1)
      BY <2>2, <2>6
    <2> HIDE DEF z
    <2>8. QED
      BY <2>1, <2>7
  <1>11. N \in T
    <2>1. N \in 0 .. N
      BY <1>1
    <2> HIDE DEF T, N
    <2>2. QED
      BY <1>1, <1>9, <1>10, <2>1, Induction
  <1> DEFINE h == heard[N]
             k == Len(h.got)
  <1>12. HeardSoFar(h, read, F, z, N)
    BY <1>11
  <1> HIDE DEF z, h, T, N, a, b
  <1>13. /\ h \in Hearing /\ k <= N
         /\ \A j \in 1 .. k : read[j].n \in Nat /\ read[j].n > 0 /\ read[j].octets = h.got[j]
         /\ h.open => h.end = Len(F[N]) /\ h.end <= Len(z) /\ Carries(read[k].rest, z, h.end)
         /\ ~h.open => k < N /\ read[k + 1].n \in {0, -1}
    BY <1>12 DEF HeardSoFar
  <1>14. h.got \in Seq(Sendable) /\ k \in Nat /\ h.open \in BOOLEAN
    BY <1>13, LenProperties DEF Hearing
  <1> HIDE DEF k
  <1>15. read[k + 1].n \in {0, -1}
    <2>1. CASE h.open
      <3>1. Len(F[N]) \in Nat /\ Len(z) <= Len(F[N]) /\ h.end = Len(z) /\ Len(z) \in Nat
        <4>1. Len(F[N]) \in Nat
          BY <1>3, LenProperties
        <4>2. QED
          BY <1>3, <1>4, <1>13, <2>1, <4>1
      <3>2. read[k + 1] = readPacket(read[k].rest, room)
        <4>1. k + 1 \in 0 .. N + 1 /\ k + 1 # 0 /\ (k + 1) - 1 = k
          BY <1>1, <1>13, <1>14
        <4>2. QED
          BY <1>7, <4>1 DEF Reads
      <3>3. h.end \in 0 .. Len(z) /\ h.end + 4 > Len(z) /\ Carries(read[k].rest, z, h.end)
        BY <1>13, <2>1, <3>1
      <3>4. readPacket(read[k].rest, room).n \in {0, -1}
        BY <1>4, <3>3, ReadPacketReads
      <3>5. QED
        BY <3>2, <3>4
    <2>2. CASE ~h.open
      BY <1>13, <2>2
    <2>3. QED
      BY <1>14, <2>1, <2>2
  <1>16. k + 1 \in last /\ last \subseteq Int /\ \A y \in last : k + 1 <= y
    <2>1. k + 1 \in 1 .. N + 1 /\ read[k + 1].n <= 0
      BY <1>1, <1>13, <1>14, <1>15
    <2>2. ASSUME NEW y \in last PROVE k + 1 <= y
      <3>1. y \in 1 .. N + 1 /\ read[y].n <= 0
        OBVIOUS
      <3> SUFFICES ASSUME ~(k + 1 <= y) PROVE FALSE
        OBVIOUS
      <3>2. y \in 1 .. k
        BY <1>1, <1>14, <3>1
      <3>3. read[y].n > 0
        BY <1>13, <3>2
      <3>4. read[y].n \in Nat
        BY <1>13, <3>2
      <3>5. QED
        BY <3>1, <3>3, <3>4
    <2>3. QED
      BY <1>1, <2>1, <2>2
  <1>17. last # {} /\ Min(last) - 1 = k
    <2> HIDE DEF last
    <2>1. Min(last) = k + 1
      BY <1>16, LeastOf
    <2>2. QED
      BY <1>14, <1>16, <2>1
  <1> HIDE DEF last
  <1>18. packets(s, room, N + 1) = [j \in 1 .. k |-> read[j].octets]
    BY <1>5, <1>17
  <1>19. h.got = [j \in 1 .. k |-> h.got[j]]
    <2>1. h.got \in [1 .. k -> Sendable]
      BY <1>14, LenProperties DEF k
    <2>2. QED
      BY <2>1
  <1>20. [j \in 1 .. k |-> read[j].octets] = [j \in 1 .. k |-> h.got[j]]
    BY <1>13
  <1>21. QED
    BY <1>6, <1>18, <1>19, <1>20 DEF N, h

\* Multiples.
LEMMA Multiples ==
  ASSUME NEW b \in Nat \ {0}, NEW k \in Nat
  PROVE  b * k \in Nat /\ b * (k + 1) = (b * k) + b
         /\ \A n \in Nat : k <= n => b * k <= b * n
  <1>1. b * k \in Nat /\ b * (k + 1) = (b * k) + b
    BY SMT
  <1>2. ASSUME NEW n \in Nat, k <= n PROVE b * k <= b * n
    BY <1>2, SMT
  <1>3. QED
    BY <1>1, <1>2

LEMMA Division ==
  ASSUME NEW b \in Nat \ {0}, NEW a \in Nat
  PROVE  a \div b \in Nat /\ b * (a \div b) <= a /\ a < (b * (a \div b)) + b
         /\ a % b \in 0 .. b - 1 /\ a = (b * (a \div b)) + (a % b)
  BY SMT

LEMMA Whole ==
  ASSUME NEW b \in Nat \ {0}, NEW l \in Nat
  PROVE  LET n == (l + b - 1) \div b
         IN  n \in Nat /\ l <= b * n /\ \A k \in 1 .. n : b * (k - 1) \in Nat /\ b * (k - 1) < l
  <1> DEFINE n == (l + b - 1) \div b
  <1>1. l + b - 1 \in Nat
    OBVIOUS
  <1>2. n \in Nat /\ b * n <= l + b - 1 /\ l + b - 1 < (b * n) + b
    BY <1>1, Division
  <1> HIDE DEF n
  <1>3. b * n \in Nat
    BY <1>2, Multiples
  <1>4. l <= b * n
    BY <1>2, <1>3
  <1>5. ASSUME NEW k \in 1 .. n PROVE b * (k - 1) \in Nat /\ b * (k - 1) < l
    <2>1. k - 1 \in Nat /\ k \in Nat /\ (k - 1) + 1 = k /\ k <= n
      BY <1>2
    <2>2. b * (k - 1) \in Nat /\ b * k = (b * (k - 1)) + b /\ b * k <= b * n
      <3> DEFINE j == k - 1
      <3>1. j \in Nat /\ j + 1 = k
        BY <2>1
      <3> HIDE DEF j
      <3>2. b * j \in Nat /\ b * (j + 1) = (b * j) + b
        BY <3>1, Multiples
      <3>3. b * k <= b * n
        BY <1>2, <2>1, Multiples
      <3>4. QED
        BY <3>1, <3>2, <3>3 DEF j
    <2>3. QED
      BY <1>2, <1>3, <2>2
  <1>6. QED
    BY <1>2, <1>4, <1>5 DEF n

\* Where a segment ends.
End(z, size, k) == smaller(size * k, Len(z))

LEMMA SegmentEnds ==
  ASSUME NEW z \in Seq(Octet), NEW size \in Nat \ {0}
  PROVE  LET n == (Len(z) + size - 1) \div size
         IN  /\ n \in Nat /\ End(z, size, 0) = 0 /\ End(z, size, n) = Len(z)
             /\ \A k \in 0 .. n : End(z, size, k) \in 0 .. Len(z)
             /\ \A k \in 1 .. n : /\ End(z, size, k - 1) < End(z, size, k)
                                  /\ End(z, size, k - 1) = size * (k - 1)
  <1> DEFINE l == Len(z)
             n == (l + size - 1) \div size
  <1>1. l \in Nat
    BY LenProperties
  <1>2. n \in Nat /\ l <= size * n /\ \A k \in 1 .. n : size * (k - 1) \in Nat /\ size * (k - 1) < l
    <2> HIDE DEF l
    <2>1. QED
      BY <1>1, Whole
  <1> HIDE DEF n
  <1>3. \A k \in 0 .. n : size * k \in Nat
    BY <1>2, Multiples
  <1>4. End(z, size, 0) = 0
    BY <1>1, SMT DEF End, smaller
  <1>5. End(z, size, n) = l
    BY <1>1, <1>2, <1>3 DEF End, smaller
  <1>6. ASSUME NEW k \in 0 .. n PROVE End(z, size, k) \in 0 .. l
    <2> DEFINE t == size * k
    <2>1. t \in Nat
      BY <1>3
    <2> HIDE DEF t
    <2>2. smaller(t, Len(z)) \in 0 .. l
      BY <1>1, <2>1 DEF smaller
    <2>3. QED
      BY <2>2 DEF End, t
  <1>7. ASSUME NEW k \in 1 .. n
        PROVE  End(z, size, k - 1) < End(z, size, k) /\ End(z, size, k - 1) = size * (k - 1)
    <2> DEFINE t == size * (k - 1)
               u == size * k
               j == k - 1
    <2>1. t \in Nat /\ t < l
      BY <1>2
    <2>2. u = t + size /\ u \in Nat
      <3>1. j \in Nat /\ j + 1 = k /\ k \in 0 .. n
        BY <1>2
      <3> HIDE DEF j
      <3>2. size * (j + 1) = (size * j) + size
        BY <3>1, Multiples
      <3>3. QED
        BY <1>3, <3>1, <3>2 DEF j
    <2> HIDE DEF t, u
    <2>3. smaller(t, Len(z)) = t /\ t < smaller(u, Len(z))
      BY <1>1, <2>1, <2>2 DEF smaller
    <2>4. QED
      BY <2>3 DEF End, t, u
  <1>8. QED
    BY <1>2, <1>4, <1>5, <1>6, <1>7 DEF n

LEMMA ArrivingCarries ==
  ASSUME NEW z \in Seq(Octet), NEW size \in Nat \ {0}, NEW signal \in Nat
  PROVE  Carries(Arriving(z, size, signal), z, 0)
  <1> DEFINE n == (Len(z) + size - 1) \div size
             comes == signal \in 1 .. n
             l == IF comes THEN n + 1 ELSE n
             late(i) == IF comes /\ i > signal THEN 1 ELSE 0
             done(i) == IF comes /\ i >= signal THEN i - 1 ELSE i
             segment(k) == SubSeq(z, (size * (k - 1)) + 1, smaller(size * k, Len(z)))
             s == Arriving(z, size, signal)
             c == [i \in 0 .. l |-> End(z, size, done(i))]
  <1>1. /\ n \in Nat /\ Len(z) \in Nat /\ End(z, size, 0) = 0 /\ End(z, size, n) = Len(z)
        /\ \A k \in 0 .. n : End(z, size, k) \in 0 .. Len(z)
        /\ \A k \in 1 .. n : /\ End(z, size, k - 1) < End(z, size, k)
                             /\ End(z, size, k - 1) = size * (k - 1)
    BY SegmentEnds, LenProperties
  <1>2. s = [i \in 1 .. l |-> IF i = signal THEN Interrupted ELSE Segment(segment(i - late(i)))]
    BY DEF Arriving
  <1>3. l \in Nat
    BY <1>1
  <1>4. ASSUME NEW k \in 1 .. n
        PROVE  /\ segment(k) = SubSeq(z, End(z, size, k - 1) + 1, End(z, size, k))
               /\ Segment(segment(k)) \in Events
    <2>1. segment(k) = SubSeq(z, End(z, size, k - 1) + 1, End(z, size, k))
      BY <1>1 DEF End
    <2> DEFINE a == End(z, size, k - 1)
               b == End(z, size, k)
    <2>2. a \in 0 .. Len(z) /\ b \in a .. Len(z)
      <3>1. k - 1 \in 0 .. n /\ k \in 0 .. n
        BY <1>1
      <3>2. End(z, size, k - 1) \in 0 .. Len(z) /\ End(z, size, k) \in 0 .. Len(z)
            /\ End(z, size, k - 1) < End(z, size, k)
        BY <1>1, <3>1
      <3> HIDE DEF a, b
      <3>3. QED
        BY <1>1, <3>2 DEF a, b
    <2> HIDE DEF a, b, segment
    <2>3. segment(k) \in Seq(Octet)
      BY <2>1, <2>2, PieceOf DEF a, b
    <2>4. QED
      BY <2>1, <2>3 DEF Events, Segment
  <1> HIDE DEF n, segment
  <1>5. ASSUME NEW i \in 1 .. l, i # signal PROVE i - late(i) \in 1 .. n
    BY <1>1, <1>3, <1>5
  <1>6. \A i \in 1 .. l : s[i] \in Events
    <2> TAKE i \in 1 .. l
    <2>1. CASE i = signal
      BY <1>2, <2>1 DEF Events
    <2>2. CASE i # signal
      <3> DEFINE k == i - late(i)
      <3>1. k \in 1 .. n /\ s[i] = Segment(segment(k))
        BY <1>2, <1>5, <2>2
      <3> HIDE DEF k
      <3>2. QED
        BY <1>4, <3>1
    <2>3. QED
      BY <2>1, <2>2
  <1>7. s \in Seq(Events) /\ Len(s) = l
    <2>1. s \in [1 .. l -> Events]
      <3>1. DOMAIN s = 1 .. l /\ s = [i \in 1 .. l |-> s[i]]
        BY <1>2
      <3> HIDE DEF s, l
      <3>2. QED
        BY <1>6, <3>1
    <2> HIDE DEF s, l
    <2>2. s \in Seq(Events)
      BY <1>3, <2>1, SeqDef
    <2>3. DOMAIN s = 1 .. Len(s) /\ Len(s) \in Nat /\ DOMAIN s = 1 .. l
      BY <2>1, <2>2, LenProperties
    <2>4. QED
      BY <1>3, <2>2, <2>3, SameInterval
  <1>8. ASSUME NEW i \in 0 .. l PROVE done(i) \in 0 .. n
    BY <1>1, <1>3
  <1>9. c \in [0 .. l -> 0 .. Len(z)]
    <2> HIDE DEF done, l
    <2>1. \A i \in 0 .. l : End(z, size, done(i)) \in 0 .. Len(z)
      BY <1>1, <1>8
    <2>2. QED
      BY <2>1
  <1>10. c[0] = 0 /\ c[l] = Len(z)
    <2>1. done(0) = 0 /\ done(l) = n
      BY <1>1, <1>3
    <2>2. 0 \in 0 .. l /\ l \in 0 .. l
      BY <1>3
    <2> HIDE DEF done, l
    <2>3. QED
      BY <1>1, <2>1, <2>2
  <1>11. ASSUME NEW i \in 1 .. l
         PROVE  \/ s[i] = Interrupted /\ c[i] = c[i - 1]
                \/ s[i] = Segment(SubSeq(z, c[i - 1] + 1, c[i])) /\ c[i - 1] < c[i]
    <2>1. i \in 0 .. l /\ i - 1 \in 0 .. l
      BY <1>3
    <2>2. c[i] = End(z, size, done(i)) /\ c[i - 1] = End(z, size, done(i - 1))
      BY <2>1
    <2>3. CASE i = signal
      <3>1. done(i) = i - 1 /\ done(i - 1) = i - 1
        BY <1>1, <1>3, <2>3
      <3>2. s[i] = Interrupted
        BY <1>2, <2>3
      <3> HIDE DEF c, s, done, l
      <3>3. QED
        BY <2>2, <3>1, <3>2
    <2>4. CASE i # signal
      <3> DEFINE k == i - late(i)
      <3>1. k \in 1 .. n /\ s[i] = Segment(segment(k))
        BY <1>2, <1>5, <2>4
      <3>2. done(i) = k /\ done(i - 1) = k - 1
        BY <1>1, <1>3, <2>4
      <3> HIDE DEF c, s, done, l, k, late
      <3>3. QED
        BY <1>1, <1>4, <2>2, <3>1, <3>2
    <2>5. QED
      BY <2>3, <2>4
  <1> HIDE DEF c, s, l
  <1>12. Cut(s, z, 0, c)
    BY <1>7, <1>9, <1>10, <1>11 DEF Cut
  <1>13. QED
    BY <1>7, <1>12 DEF Carries, s

LEMMA FramesAreHeard ==
  ASSUME work.kind = "frames", work.messages \in Seq(Sendable), work.room \in Nat \ {0},
         work.size \in Nat \ {0}, work.signal \in Nat, work.missing \in Nat
  PROVE  FramesInOrder
  <1> DEFINE wire == FlattenSeq(Packets(work.messages))
             q == IF work.missing <= Len(wire) THEN Len(wire) - work.missing ELSE 0
             octets == SubSeq(wire, 1, Len(wire) - work.missing)
             s == Arriving(octets, work.size, work.signal)
  <1>1. wire \in Seq(Octet) /\ Len(wire) \in Nat
    <2>1. PICK F : /\ Joined(F, Packets(work.messages), Octet)
                   /\ wire = F[Len(Packets(work.messages))]
      BY PacketsType, FlattenJoins
    <2>2. Len(Packets(work.messages)) \in Nat
      BY PacketsType, LenProperties
    <2> HIDE DEF wire
    <2>3. wire \in Seq(Octet)
      BY <2>1, <2>2 DEF Joined
    <2>4. QED
      BY <2>3, LenProperties
  <1> HIDE DEF wire
  <1>2. q \in 0 .. Len(wire) /\ q \in Nat
    BY <1>1
  <1>3. octets = SubSeq(wire, 1, q)
    <2>1. CASE work.missing <= Len(wire)
      BY <2>1
    <2>2. CASE ~(work.missing <= Len(wire))
      <3>1. Len(wire) - work.missing \in Int /\ Len(wire) - work.missing < 1 /\ 0 < 1 /\ q = 0
        BY <1>1, <2>2
      <3>2. octets = <<>> /\ SubSeq(wire, 1, 0) = <<>>
        BY <3>1, SubSeqEmpty
      <3>3. QED
        BY <3>1, <3>2
    <2>3. QED
      BY <2>1, <2>2
  <1> HIDE DEF q
  <1>4. octets \in Seq(Octet) /\ Len(octets) = q
    <2>1. 0 \in 0 .. Len(wire) /\ q \in 0 .. Len(wire) /\ 0 + 1 = 1 /\ q - 0 = q
      BY <1>1, <1>2
    <2>2. SubSeq(wire, 0 + 1, q) \in Seq(Octet) /\ Len(SubSeq(wire, 0 + 1, q)) = q - 0
      BY <1>1, <2>1, PieceOf
    <2> HIDE DEF octets
    <2>3. QED
      BY <1>3, <2>1, <2>2
  <1>5. Carries(s, octets, 0)
    <2> HIDE DEF octets
    <2>1. QED
      BY <1>4, ArrivingCarries
  <1> HIDE DEF s, octets
  <1>6. packets(s, work.room, Len(work.messages) + 1) = Heard(work.messages, work.room, Len(octets))
    <2>1. q \in 0 .. Len(FlattenSeq(Packets(work.messages)))
          /\ Carries(s, SubSeq(FlattenSeq(Packets(work.messages)), 1, q), 0)
      BY <1>2, <1>3, <1>5 DEF wire
    <2>2. work.room \in Nat
      OBVIOUS
    <2>3. QED
      BY <1>4, <2>1, <2>2, PacketsAreHeard
  <1>7. QED
    BY <1>6 DEF FramesInOrder, s, octets, wire, Packets
-----------------------------------------------------------------------------
(* Counter mode.                                                           *)

\* The octet of the key stream of IV that is P octets in, and N of them from there on.
StreamOctet(iv, p) == [block |-> Block(iv, p \div BlockOctets), octet |-> p % BlockOctets]
Stream(iv, p, n) == [k \in 1 .. n |-> StreamOctet(iv, p + k - 1)]

\* The context is P octets into the stream of IV, in the B-th of its blocks.
InBlock(c, iv, p, b) ==
  /\ c = [counter |-> Block(iv, b), keystream_buffer |-> c.keystream_buffer,
          bytes_in_buffer |-> (BlockOctets * b) - p]
  /\ (BlockOctets * b) - p \in 0 .. BlockOctets - 1
  /\ b > 0 => c.keystream_buffer = Block(iv, b - 1)
At(c, iv, p) == \E b \in Nat : InBlock(c, iv, p, b)

LEMMA IcmSizes ==
  BlockOctets \in Nat /\ BlockOctets > 0 /\ CtrRange \in Nat /\ CtrRange > 0
  BY IcmAssumption

LEMMA Quotient ==
  ASSUME NEW b \in Nat \ {0}, NEW q \in Nat, NEW r \in 0 .. b - 1
  PROVE  ((b * q) + r) \div b = q /\ ((b * q) + r) % b = r
  <1>1. b * q \in Nat
    BY Multiples
  <1> DEFINE x == (b * q) + r
             d == x \div b
  <1>2. x \in Nat
    BY <1>1
  <1>3. d \in Nat /\ b * d <= x /\ x < (b * d) + b /\ x = (b * d) + (x % b) /\ x % b \in Int
    <2> HIDE DEF x
    <2>1. QED
      BY <1>2, Division
  <1> HIDE DEF d
  <1>4. b * d \in Nat
    BY <1>3, Multiples
  <1>5. ~(d < q)
    <2> SUFFICES ASSUME d < q PROVE FALSE
      OBVIOUS
    <2>1. d + 1 \in Nat /\ d + 1 <= q
      BY <1>3
    <2>2. b * (d + 1) <= b * q /\ b * (d + 1) = (b * d) + b
      BY <1>3, <2>1, Multiples
    <2>3. QED
      BY <1>1, <1>3, <1>4, <2>2
  <1>6. ~(q < d)
    <2> SUFFICES ASSUME q < d PROVE FALSE
      OBVIOUS
    <2>1. q + 1 \in Nat /\ q + 1 <= d
      BY <1>3
    <2>2. b * (q + 1) <= b * d /\ b * (q + 1) = (b * q) + b
      BY <1>3, <2>1, Multiples
    <2>3. QED
      BY <1>1, <1>3, <1>4, <2>2
  <1>7. d = q
    BY <1>3, <1>5, <1>6
  <1>8. x % b = r
    BY <1>1, <1>3, <1>7
  <1>9. QED
    BY <1>7, <1>8 DEF d

LEMMA Distributes ==
  ASSUME NEW b \in Nat, NEW m \in Nat, NEW n \in Nat
  PROVE  b * (m + n) = (b * m) + (b * n)
  BY SMT

LEMMA RemainderOfSum ==
  ASSUME NEW r \in Nat \ {0}, NEW b \in Nat, NEW d \in Nat
  PROVE  ((b % r) + d) % r = (b + d) % r
  <1> DEFINE q == b \div r
             x == (b % r) + d
             y == x \div r
             z == x % r
  <1>1. q \in Nat /\ b % r \in 0 .. r - 1 /\ b = (r * q) + (b % r)
    BY Division
  <1>2. x \in Nat
    BY <1>1
  <1>3. y \in Nat /\ z \in 0 .. r - 1 /\ x = (r * y) + z
    <2> HIDE DEF x
    <2>1. QED
      BY <1>2, Division
  <1>4. b + d = (r * q) + x
    <2> HIDE DEF q
    <2>1. r * q \in Nat
      BY <1>1, Multiples
    <2>2. QED
      BY <1>1, <2>1
  <1> HIDE DEF q, x, y, z
  <1>5. r * q \in Nat /\ r * y \in Nat /\ r * (q + y) = (r * q) + (r * y) /\ q + y \in Nat
    BY <1>1, <1>3, Multiples, Distributes
  <1>6. b + d = (r * (q + y)) + z
    BY <1>3, <1>4, <1>5
  <1>7. (b + d) % r = z
    <2> DEFINE k == q + y
               n == b + d
    <2>1. k \in Nat /\ n \in Nat /\ n = (r * k) + z
      BY <1>5, <1>6
    <2> HIDE DEF k, n
    <2>2. n % r = z
      BY <1>3, <2>1, Quotient
    <2>3. QED
      BY <2>2 DEF n
  <1>8. QED
    BY <1>7 DEF z, x

\* A block counter that has wrapped goes on as if it had not.
LEMMA BlockGoesOn ==
  ASSUME NEW iv, NEW b \in Nat, NEW d \in Nat
  PROVE  Block(Block(iv, b).iv, Block(iv, b).ctr + d) = Block(iv, b + d)
  <1>1. ((b % CtrRange) + d) % CtrRange = (b + d) % CtrRange
    <2> DEFINE r == CtrRange
    <2>1. r \in Nat \ {0}
      BY IcmSizes
    <2> HIDE DEF r
    <2>2. ((b % r) + d) % r = (b + d) % r
      BY <2>1, RemainderOfSum
    <2>3. QED
      BY <2>2 DEF r
  <1>2. QED
    BY <1>1 DEF Block

\* The streams, as sequences.
Places(iv) == {StreamOctet(iv, p) : p \in Nat}

LEMMA StreamType ==
  ASSUME NEW iv, NEW p \in Nat, NEW n \in Nat
  PROVE  /\ Stream(iv, p, n) \in Seq(Places(iv)) /\ Len(Stream(iv, p, n)) = n
         /\ \A k \in 1 .. n : Stream(iv, p, n)[k] = StreamOctet(iv, p + k - 1)
  <1>1. \A k \in 1 .. n : StreamOctet(iv, p + k - 1) \in Places(iv)
    BY DEF Places
  <1>2. Stream(iv, p, n) \in [1 .. n -> Places(iv)]
    BY <1>1 DEF Stream
  <1>3. QED
    BY <1>2 DEF Stream

\* Sequences of one length with the same elements are the same.
LEMMA SameElements ==
  ASSUME NEW S, NEW s \in Seq(S), NEW t \in Seq(S), Len(s) = Len(t),
         \A i \in 1 .. Len(s) : s[i] = t[i]
  PROVE  s = t
  BY SMT

LEMMA StreamJoins ==
  ASSUME NEW iv, NEW p \in Nat, NEW n \in Nat, NEW m \in Nat
  PROVE  Stream(iv, p, n) \o Stream(iv, p + n, m) = Stream(iv, p, n + m)
  <1> DEFINE S == Places(iv)
             s == Stream(iv, p, n)
             t == Stream(iv, p + n, m)
             u == Stream(iv, p, n + m)
  <1>1. s \in Seq(S) /\ Len(s) = n /\ \A k \in 1 .. n : s[k] = StreamOctet(iv, p + k - 1)
    BY StreamType
  <1>a. p + n \in Nat /\ n + m \in Nat
    OBVIOUS
  <1>2. t \in Seq(S) /\ Len(t) = m /\ \A k \in 1 .. m : t[k] = StreamOctet(iv, p + n + k - 1)
    BY <1>a, StreamType
  <1>3. u \in Seq(S) /\ Len(u) = n + m
        /\ \A k \in 1 .. n + m : u[k] = StreamOctet(iv, p + k - 1)
    BY <1>a, StreamType
  <1> HIDE DEF S, s, t, u
  <1>4. /\ s \o t \in Seq(S) /\ Len(s \o t) = n + m
        /\ \A i \in 1 .. n + m : (s \o t)[i] = IF i <= n THEN s[i] ELSE t[i - n]
    BY <1>1, <1>2, ConcatProperties
  <1>5. ASSUME NEW i \in 1 .. n + m PROVE (s \o t)[i] = u[i]
    <2>1. CASE i <= n
      BY <1>1, <1>3, <1>4, <2>1
    <2>2. CASE ~(i <= n)
      <3>1. i - n \in 1 .. m /\ p + n + (i - n) - 1 = p + i - 1
        BY <2>2
      <3>2. QED
        BY <1>2, <1>3, <1>4, <2>2, <3>1
    <2>3. QED
      BY <2>1, <2>2
  <1>6. s \o t = u
    BY <1>3, <1>4, <1>5, SameElements
  <1>7. QED
    BY <1>6 DEF s, t, u

LEMMA StartsAtZero ==
  ASSUME NEW iv
  PROVE  At(aes_icm_set_iv(iv), iv, 0)
  <1>1. BlockOctets * 0 = 0
    BY IcmSizes
  <1>2. InBlock(aes_icm_set_iv(iv), iv, 0, 0)
    BY <1>1, IcmSizes DEF InBlock, aes_icm_set_iv
  <1>3. QED
    BY <1>2 DEF At

\* What is in the buffer is the rest of the block.
LEMMA BufferIsRest ==
  ASSUME NEW iv, NEW b \in Nat, NEW p \in Nat, NEW n \in Nat,
         b > 0, (BlockOctets * b) - p \in 0 .. BlockOctets - 1, n <= (BlockOctets * b) - p
  PROVE  LET start == BlockOctets - ((BlockOctets * b) - p)
         IN  Octets(Block(iv, b - 1), start, start + n) = Stream(iv, p, n)
  <1> DEFINE B == BlockOctets
             start == B - ((B * b) - p)
             a == b - 1
  <1>1. B \in Nat \ {0} /\ a \in Nat /\ a + 1 = b
    BY IcmSizes
  <1>2. B * a \in Nat /\ B * b = (B * a) + B
    <2> HIDE DEF B, a
    <2>1. QED
      BY <1>1, Multiples
  <1>3. start = p - (B * a) /\ start \in 0 .. B /\ start + n <= B
    <2>1. (B * b) - p \in 0 .. B - 1 /\ n <= (B * b) - p
      OBVIOUS
    <2> HIDE DEF B, a
    <2>2. QED
      BY <1>1, <1>2, <2>1
  <1>4. (start + n) - start = n
    BY <1>3
  <1> HIDE DEF start
  <1>5. ASSUME NEW k \in 1 .. n
        PROVE  StreamOctet(iv, p + k - 1) = [block |-> Block(iv, a), octet |-> start + k - 1]
    <2> DEFINE r == start + k - 1
    <2> HIDE DEF B, a
    <2>1. r \in 0 .. B - 1 /\ p + k - 1 = (B * a) + r
      BY <1>1, <1>2, <1>3
    <2> HIDE DEF r
    <2>2. ((B * a) + r) \div B = a /\ ((B * a) + r) % B = r
      BY <1>1, <2>1, Quotient
    <2>3. QED
      BY <2>1, <2>2 DEF StreamOctet, r, B
  <1> HIDE DEF a
  <1>6. Octets(Block(iv, a), start, start + n)
          = [k \in 1 .. n |-> [block |-> Block(iv, a), octet |-> start + k - 1]]
    <2> DEFINE block == Block(iv, a)
    <2> HIDE DEF block, B
    <2>1. Octets(block, start, start + n)
            = [k \in 1 .. (start + n) - start |-> [block |-> block, octet |-> start + k - 1]]
      BY DEF Octets
    <2>2. QED
      BY <1>4, <2>1 DEF block
  <1>7. QED
    BY <1>5, <1>6 DEF Stream, start, a

\* Whole blocks come after it.
LEMMA FreshIsNext ==
  ASSUME NEW iv, NEW c, NEW b \in Nat, c.counter = Block(iv, b), NEW n \in Nat
  PROVE  FreshOctets(c, n) = Stream(iv, BlockOctets * b, n)
  <1> DEFINE B == BlockOctets
  <1>1. B \in Nat \ {0}
    BY IcmSizes
  <1>2. ASSUME NEW k \in 1 .. n
        PROVE  StreamOctet(iv, (BlockOctets * b) + k - 1)
                 = [block |-> Block(c.counter.iv, c.counter.ctr + (k - 1) \div BlockOctets),
                    octet |-> (k - 1) % BlockOctets]
    <2> DEFINE j == k - 1
               d == j \div B
               r == j % B
    <2> HIDE DEF B
    <2>1. j \in Nat
      OBVIOUS
    <2>2. d \in Nat /\ r \in 0 .. B - 1 /\ j = (B * d) + r
      <3> HIDE DEF j
      <3>1. QED
        BY <1>1, <2>1, Division
    <2> HIDE DEF d, r
    <2>3. B * b \in Nat /\ B * d \in Nat /\ B * (b + d) = (B * b) + (B * d) /\ b + d \in Nat
      BY <1>1, <2>2, Multiples, Distributes
    <2>4. (B * b) + k - 1 = (B * (b + d)) + r
      <3>1. (B * b) + k - 1 = (B * b) + j
        BY <2>3
      <3> HIDE DEF j
      <3>2. QED
        BY <2>2, <2>3, <3>1
    <2>5. ((B * b) + k - 1) \div B = b + d /\ ((B * b) + k - 1) % B = r
      BY <1>1, <2>2, <2>3, <2>4, Quotient
    <2>6. Block(c.counter.iv, c.counter.ctr + d) = Block(iv, b + d)
      BY <2>2, BlockGoesOn
    <2>7. QED
      BY <2>5, <2>6 DEF StreamOctet, B, d, r
  <1>3. QED
    BY <1>2 DEF Stream, FreshOctets

\* What a call to aes_icm_encrypt adds is the stream from where the context is, and the
\* context goes on by as much.
LEMMA StreamGoesOn ==
  ASSUME NEW c, NEW iv, NEW p \in Nat, At(c, iv, p), NEW n \in Nat
  PROVE  keystream(c, n) = Stream(iv, p, n) /\ At(aes_icm_encrypt(c, n), iv, p + n)
  <1> DEFINE B == BlockOctets
             r == c.bytes_in_buffer
  <1>1. B \in Nat \ {0}
    BY IcmSizes
  <1>2. PICK b \in Nat : InBlock(c, iv, p, b)
    BY DEF At
  <1>3. /\ c = [counter |-> Block(iv, b), keystream_buffer |-> c.keystream_buffer,
                bytes_in_buffer |-> r]
        /\ c.counter = Block(iv, b) /\ r = (B * b) - p /\ r \in 0 .. B - 1
        /\ b > 0 => c.keystream_buffer = Block(iv, b - 1)
    BY <1>2 DEF InBlock
  <1>4. B * b \in Nat
    <2> HIDE DEF B
    <2>1. QED
      BY <1>1, Multiples
  <1>5. r \in Nat /\ (b = 0 => r = 0 /\ p = 0)
    <2>1. B * 0 = 0
      BY <1>1
    <2> HIDE DEF B
    <2>2. QED
      BY <1>3, <1>4, <2>1
  <1>6. \A m \in 0 .. r : Octets(c.keystream_buffer, B - r, (B - r) + m) = Stream(iv, p, m)
    <2> TAKE m \in 0 .. r
    <2>1. CASE b > 0
      <3>1. (B * b) - p \in 0 .. B - 1 /\ m <= (B * b) - p /\ m \in Nat
        BY <1>3, <1>5
      <3>2. QED
        BY <1>3, <2>1, <3>1, BufferIsRest
    <2>2. CASE ~(b > 0)
      <3> DEFINE start == B - r
      <3>1. m = 0 /\ start \in Int /\ (start + m) - start = 0
        BY <1>1, <1>5, <2>2
      <3> HIDE DEF start
      <3>2. Octets(c.keystream_buffer, start, start + m) = <<>> /\ Stream(iv, p, m) = <<>>
        BY <3>1 DEF Octets, Stream
      <3>3. QED
        BY <3>2 DEF start
    <2>3. QED
      BY <2>1, <2>2
  <1>7. CASE n <= r
    <2>1. keystream(c, n) = Stream(iv, p, n)
      <3>1. n \in 0 .. r
        BY <1>5, <1>7
      <3>2. keystream(c, n) = Octets(c.keystream_buffer, B - r, (B - r) + n)
        BY <1>7 DEF keystream
      <3>3. QED
        BY <1>6, <3>1, <3>2
    <2>2. aes_icm_encrypt(c, n) = [c EXCEPT !.bytes_in_buffer = r - n]
      BY <1>7 DEF aes_icm_encrypt
    <2>3. r - n = (B * b) - (p + n) /\ r - n \in 0 .. B - 1
      <3> DEFINE x == B * b
      <3> HIDE DEF B, x, r
      <3>1. QED
        BY <1>1, <1>3, <1>4, <1>5, <1>7 DEF x
    <2>4. InBlock(aes_icm_encrypt(c, n), iv, p + n, b)
      BY <1>3, <2>2, <2>3 DEF InBlock
    <2>5. QED
      BY <2>1, <2>4 DEF At
  <1>8. CASE ~(n <= r)
    <2> DEFINE rest == n - r
    <2>1. rest \in Nat /\ rest > 0 /\ r + rest = n
      BY <1>5, <1>8
    <2>2. keystream(c, n) = Octets(c.keystream_buffer, B - r, B) \o FreshOctets(c, rest)
      BY <1>8 DEF keystream
    <2>3. Octets(c.keystream_buffer, B - r, B) = Stream(iv, p, r)
      <3>1. r \in 0 .. r /\ (B - r) + r = B
        BY <1>1, <1>5
      <3>2. QED
        BY <1>6, <3>1
    <2>4. p + r = B * b
      <3> HIDE DEF B, r
      <3>1. QED
        BY <1>3, <1>4
    <2>5. FreshOctets(c, rest) = Stream(iv, p + r, rest)
      <3> HIDE DEF rest, r
      <3>1. QED
        BY <1>3, <2>1, <2>4, FreshIsNext
    <2>6. Stream(iv, p, r) \o Stream(iv, p + r, rest) = Stream(iv, p, n)
      <3> HIDE DEF rest, r, B
      <3>1. r \in Nat /\ rest \in Nat
        BY <1>5, <2>1
      <3>2. Stream(iv, p, r) \o Stream(iv, p + r, rest) = Stream(iv, p, r + rest)
        BY <3>1, StreamJoins, ZenonT(30)
      <3>3. QED
        BY <2>1, <3>2, Zenon
    <2> DEFINE blocks == Ceil(rest)
    <2>7. blocks \in Nat \ {0} /\ rest <= B * blocks /\ (B * blocks) - rest \in 0 .. B - 1
      <3> DEFINE a == rest + B - 1
                 d == a \div B
      <3> HIDE DEF B, rest
      <3>1. a \in Nat /\ a = rest + B - 1
        BY <1>1, <2>1
      <3>2. d \in Nat /\ B * d <= a /\ a < (B * d) + B
        <4> HIDE DEF a
        <4>1. QED
          BY <1>1, <3>1, Division
      <3>3. d = blocks
        BY DEF Ceil, B
      <3> HIDE DEF a, d, blocks
      <3>4. B * d \in Nat /\ B * 0 = 0
        BY <1>1, <3>2, Multiples
      <3>5. d # 0
        BY <1>1, <2>1, <3>1, <3>2, <3>4
      <3>6. QED
        BY <1>1, <2>1, <3>1, <3>2, <3>3, <3>4, <3>5
    <2>8. aes_icm_encrypt(c, n)
            = [counter |-> Block(c.counter.iv, c.counter.ctr + blocks),
               keystream_buffer |-> Block(c.counter.iv, c.counter.ctr + blocks - 1),
               bytes_in_buffer |-> (B * blocks) - rest]
      BY <1>8 DEF aes_icm_encrypt
    <2>9. /\ Block(c.counter.iv, c.counter.ctr + blocks) = Block(iv, b + blocks)
          /\ Block(c.counter.iv, c.counter.ctr + blocks - 1) = Block(iv, b + blocks - 1)
      <3> DEFINE less == blocks - 1
                 ctr == c.counter.ctr
      <3>1. less \in Nat /\ ctr \in Int
        BY <1>3, <2>7, IcmSizes DEF Block
      <3> HIDE DEF blocks
      <3>2. ctr + blocks - 1 = ctr + less /\ b + blocks - 1 = b + less
        <4> HIDE DEF ctr
        <4>1. QED
          BY <2>7, <3>1
      <3> HIDE DEF less
      <3>3. Block(Block(iv, b).iv, Block(iv, b).ctr + less) = Block(iv, b + less)
        BY <3>1, BlockGoesOn
      <3>4. Block(Block(iv, b).iv, Block(iv, b).ctr + blocks) = Block(iv, b + blocks)
        BY <2>7, BlockGoesOn
      <3>5. QED
        BY <1>3, <3>2, <3>3, <3>4 DEF ctr
    <2>10. (B * (b + blocks)) - (p + n) = (B * blocks) - rest
      <3> HIDE DEF blocks, B, rest, r
      <3>1. B * (b + blocks) = (B * b) + (B * blocks) /\ B * blocks \in Nat
        BY <1>1, <2>7, Distributes, Multiples
      <3>2. QED
        BY <1>4, <1>5, <2>1, <2>4, <3>1
    <2> HIDE DEF blocks, rest
    <2>11. b + blocks \in Nat /\ b + blocks > 0
      BY <2>7
    <2>12. InBlock(aes_icm_encrypt(c, n), iv, p + n, b + blocks)
      BY <2>7, <2>8, <2>9, <2>10 DEF InBlock
    <2>13. QED
      BY <2>2, <2>3, <2>5, <2>6, <2>11, <2>12 DEF At
  <1>9. QED
    BY <1>7, <1>8

\* A context that is as far in the same stream is in the same block.
LEMMA AtIsOnePlace ==
  ASSUME NEW c, NEW d, NEW iv, NEW p \in Nat, At(c, iv, p), At(d, iv, p)
  PROVE  c.counter = d.counter /\ c.bytes_in_buffer = d.bytes_in_buffer
  <1> DEFINE B == BlockOctets
  <1>1. B \in Nat \ {0}
    BY IcmSizes
  <1>2. PICK a \in Nat : InBlock(c, iv, p, a)
    BY DEF At
  <1>3. PICK b \in Nat : InBlock(d, iv, p, b)
    BY DEF At
  <1>4. (B * a) - p \in 0 .. B - 1 /\ (B * b) - p \in 0 .. B - 1
    BY <1>2, <1>3 DEF InBlock
  <1> HIDE DEF B
  <1>5. B * a \in Nat /\ B * b \in Nat /\ B * (a + 1) = (B * a) + B /\ B * (b + 1) = (B * b) + B
    BY <1>1, Multiples
  <1>6. ~(a < b)
    <2> SUFFICES ASSUME a < b PROVE FALSE
      OBVIOUS
    <2>1. a + 1 \in Nat /\ a + 1 <= b
      OBVIOUS
    <2>2. B * (a + 1) <= B * b
      BY <1>1, <2>1, Multiples
    <2>3. QED
      BY <1>1, <1>4, <1>5, <2>2
  <1>7. ~(b < a)
    <2> SUFFICES ASSUME b < a PROVE FALSE
      OBVIOUS
    <2>1. b + 1 \in Nat /\ b + 1 <= a
      OBVIOUS
    <2>2. B * (b + 1) <= B * a
      BY <1>1, <2>1, Multiples
    <2>3. QED
      BY <1>1, <1>4, <1>5, <2>2
  <1>8. a = b
    BY <1>6, <1>7
  <1>9. QED
    BY <1>2, <1>3, <1>8 DEF InBlock

LEMMA ThreePieces ==
  ASSUME NEW l1 \in Nat, NEW l2 \in Nat, NEW l3 \in Nat
  PROVE  StreamInPieces(l1, l2, l3)
  <1> DEFINE iv == "iv"
             a == aes_icm_set_iv(iv)
             b == aes_icm_encrypt(a, l1)
             c == aes_icm_encrypt(b, l2)
             last == aes_icm_encrypt(c, l3)
             total == l1 + l2 + l3
             whole == aes_icm_encrypt(a, total)
  <1>2. At(a, iv, 0)
    BY StartsAtZero
  <1> HIDE DEF iv, a
  <1>3. /\ total \in Nat /\ l1 + l2 \in Nat /\ total = (l1 + l2) + l3 /\ 0 + l1 = l1
        /\ 0 + total = total /\ 0 + (l1 + l2) = l1 + l2
    OBVIOUS
  <1> HIDE DEF total
  <1>4. keystream(a, l1) = Stream(iv, 0, l1) /\ At(b, iv, l1)
    <2>1. keystream(a, l1) = Stream(iv, 0, l1) /\ At(b, iv, 0 + l1)
      BY <1>2, StreamGoesOn
    <2>2. QED
      BY <1>3, <2>1
  <1>5. keystream(a, total) = Stream(iv, 0, total) /\ At(whole, iv, total)
    <2>1. keystream(a, total) = Stream(iv, 0, total) /\ At(whole, iv, 0 + total)
      BY <1>2, <1>3, StreamGoesOn
    <2>2. QED
      BY <1>3, <2>1
  <1> HIDE DEF b, whole
  <1>6. keystream(b, l2) = Stream(iv, l1, l2) /\ At(c, iv, l1 + l2)
    BY <1>4, StreamGoesOn
  <1> HIDE DEF c
  <1>7. keystream(c, l3) = Stream(iv, l1 + l2, l3) /\ At(last, iv, (l1 + l2) + l3)
    BY <1>3, <1>6, StreamGoesOn
  <1> HIDE DEF last
  <1>8. last.counter = whole.counter /\ last.bytes_in_buffer = whole.bytes_in_buffer
    BY <1>3, <1>5, <1>7, AtIsOnePlace
  <1>9. Stream(iv, 0, l1) \o Stream(iv, 0 + l1, l2) = Stream(iv, 0, l1 + l2)
    <2> DEFINE z == 0
    <2>1. z \in Nat
      OBVIOUS
    <2> HIDE DEF z
    <2>2. Stream(iv, z, l1) \o Stream(iv, z + l1, l2) = Stream(iv, z, l1 + l2)
      BY <2>1, StreamJoins
    <2>3. QED
      BY <2>2 DEF z
  <1>10. Stream(iv, 0, l1 + l2) \o Stream(iv, 0 + (l1 + l2), l3) = Stream(iv, 0, (l1 + l2) + l3)
    <2> DEFINE z == 0
               n == l1 + l2
    <2>1. z \in Nat /\ n \in Nat
      BY <1>3
    <2> HIDE DEF z, n
    <2>2. Stream(iv, z, n) \o Stream(iv, z + n, l3) = Stream(iv, z, n + l3)
      BY <2>1, StreamJoins, ZenonT(30)
    <2>3. QED
      BY <2>2 DEF z, n
  <1>11. keystream(a, l1) \o keystream(b, l2) \o keystream(c, l3) = keystream(a, total)
    BY <1>3, <1>4, <1>5, <1>6, <1>7, <1>9, <1>10
  <1>13. QED
    BY <1>8, <1>11 DEF StreamInPieces, iv, a, b, c, last, total, whole

-----------------------------------------------------------------------------
(* Octets of key stream that are different.                                *)

\* As long as the block counter has not gone round, an octet tells the stream and the place.
LEMMA OctetTellsPlace ==
  ASSUME NEW iv, NEW jv, NEW p \in 0 .. (BlockOctets * CtrRange) - 1,
         NEW q \in 0 .. (BlockOctets * CtrRange) - 1, StreamOctet(iv, p) = StreamOctet(jv, q)
  PROVE  iv = jv /\ p = q
  <1> DEFINE B == BlockOctets
             R == CtrRange
             d == p \div B
             e == q \div B
  <1>1. B \in Nat \ {0} /\ R \in Nat \ {0}
    BY IcmSizes
  <1>2. B * R \in Nat
    <2> HIDE DEF B, R
    <2>1. QED
      BY <1>1, Multiples
  <1>3. p \in Nat /\ q \in Nat /\ p < B * R /\ q < B * R
    BY <1>2
  <1>4. iv = jv /\ d % R = e % R /\ p % B = q % B
    BY Zenon DEF StreamOctet, Block
  <1> HIDE DEF B, R
  <1>5. d \in Nat /\ B * d <= p /\ p = (B * d) + (p % B) /\ p % B \in Int
    <2>1. d \in Nat /\ B * d <= p /\ p = (B * d) + (p % B) /\ p % B \in 0 .. B - 1
      BY <1>1, <1>3, Division
    <2> HIDE DEF d
    <2>2. QED
      BY <2>1
  <1>6. e \in Nat /\ B * e <= q /\ q = (B * e) + (q % B)
    BY <1>1, <1>3, Division
  <1> HIDE DEF d, e
  <1>7. d < R /\ e < R
    <2>1. R <= d => B * R <= B * d
      BY <1>1, <1>5, Multiples
    <2>2. R <= e => B * R <= B * e
      BY <1>1, <1>6, Multiples
    <2>3. B * d \in Nat /\ B * e \in Nat
      BY <1>1, <1>5, <1>6, Multiples
    <2>4. QED
      BY <1>1, <1>2, <1>3, <1>5, <1>6, <2>1, <2>2, <2>3
  <1>8. d % R = d /\ e % R = e
    BY <1>1, <1>5, <1>6, <1>7
  <1>9. d = e
    BY <1>4, <1>8
  <1>10. QED
    BY <1>4, <1>5, <1>6, <1>9

\* The elements of s are different, and are in S.
Distinct(s, S) == s \in Seq(S) /\ \A i, j \in 1 .. Len(s) : s[i] = s[j] => i = j

LEMMA DistinctCount ==
  ASSUME NEW S, NEW s, Distinct(s, S)
  PROVE  Cardinality(Range(s)) = Len(s)
  <1> DEFINE n == Len(s)
             T == Range(s)
  <1>1. n \in Nat /\ DOMAIN s = 1 .. n /\ s \in [1 .. n -> S]
    BY LenProperties DEF Distinct
  <1>2. s \in [1 .. n -> T] /\ \A y \in T : \E x \in 1 .. n : s[x] = y
    BY <1>1 DEF Range
  <1>3. \A i, j \in 1 .. n : s[i] = s[j] => i = j
    BY DEF Distinct
  <1> HIDE DEF n, T
  <1>4. ExistsBijection(1 .. n, T)
    BY <1>2, <1>3, Fun_IsBij DEF ExistsBijection
  <1>5. IsFiniteSet(1 .. n) /\ Cardinality(1 .. n) = n
    BY <1>1, FS_Interval
  <1>6. QED
    BY <1>4, <1>5, FS_Bijection DEF n, T

LEMMA DistinctJoin ==
  ASSUME NEW S, NEW T, NEW U, NEW s, NEW t, Distinct(s, S), Distinct(t, T),
         S \cap T = {}, S \subseteq U, T \subseteq U
  PROVE  Distinct(s \o t, U)
  <1>1. Len(s) \in Nat /\ Len(t) \in Nat
        /\ (\A i \in 1 .. Len(s) : s[i] \in S) /\ (\A i \in 1 .. Len(t) : t[i] \in T)
    BY LenProperties, ElementOfSeq DEF Distinct
  <1>2. s \in Seq(U) /\ t \in Seq(U)
    BY DEF Distinct
  <1>3. s \o t \in Seq(U) /\ Len(s \o t) = Len(s) + Len(t)
        /\ \A i \in 1 .. Len(s) + Len(t) : (s \o t)[i] = IF i <= Len(s) THEN s[i] ELSE t[i - Len(s)]
    BY <1>2, ConcatProperties
  <1> DEFINE u == s \o t
             n == Len(s)
             m == Len(t)
  <1>4. (\A i, j \in 1 .. n : s[i] = s[j] => i = j) /\ (\A i, j \in 1 .. m : t[i] = t[j] => i = j)
    BY DEF Distinct
  <1> HIDE DEF u, n, m
  <1>5. ASSUME NEW i \in 1 .. n + m, NEW j \in 1 .. n + m, u[i] = u[j] PROVE i = j
    <2>1. CASE i <= n /\ j <= n
      BY <1>1, <1>3, <1>4, <1>5, <2>1 DEF u, n, m
    <2>2. CASE ~(i <= n) /\ ~(j <= n)
      <3>1. i - n \in 1 .. m /\ j - n \in 1 .. m
        BY <1>1, <2>2 DEF n, m
      <3>2. t[i - n] = t[j - n]
        BY <1>3, <1>5, <2>2 DEF u, n, m
      <3>3. i - n = j - n
        BY <1>4, <3>1, <3>2
      <3>4. QED
        BY <1>1, <3>3 DEF n, m
    <2>3. CASE i <= n /\ ~(j <= n)
      <3>1. i \in 1 .. n /\ j - n \in 1 .. m
        BY <1>1, <2>3 DEF n, m
      <3>2. s[i] = t[j - n]
        BY <1>3, <1>5, <2>3 DEF u, n, m
      <3>3. QED
        BY <1>1, <3>1, <3>2 DEF n, m
    <2>4. CASE ~(i <= n) /\ j <= n
      <3>1. j \in 1 .. n /\ i - n \in 1 .. m
        BY <1>1, <2>4 DEF n, m
      <3>2. s[j] = t[i - n]
        BY <1>3, <1>5, <2>4 DEF u, n, m
      <3>3. QED
        BY <1>1, <3>1, <3>2 DEF n, m
    <2>5. QED
      BY <2>1, <2>2, <2>3, <2>4
  <1>6. QED
    BY <1>3, <1>5 DEF Distinct, u, n, m

\* The octets of a stream from a place on.
Stretch(iv, p, n) == {StreamOctet(iv, q) : q \in p .. p + n - 1}

LEMMA StreamIsDistinct ==
  ASSUME NEW iv, NEW p \in Nat, NEW n \in Nat, p + n <= BlockOctets * CtrRange
  PROVE  Distinct(Stream(iv, p, n), Stretch(iv, p, n))
  <1> DEFINE s == Stream(iv, p, n)
             T == Stretch(iv, p, n)
             M == BlockOctets * CtrRange
  <1>1. M \in Nat
    BY IcmSizes, Multiples
  <1>2. Len(s) = n /\ \A k \in 1 .. n : s[k] = StreamOctet(iv, p + k - 1)
    BY StreamType
  <1>3. \A k \in 1 .. n : p + k - 1 \in p .. p + n - 1 /\ p + k - 1 \in 0 .. M - 1
    <2> HIDE DEF M
    <2>1. p + n <= M
      BY DEF M
    <2>2. QED
      BY <1>1, <2>1
  <1>4. s \in [1 .. n -> T]
    BY <1>3 DEF Stream, Stretch
  <1>5. s \in Seq(T)
    BY <1>4
  <1> HIDE DEF s, T
  <1>6. ASSUME NEW i \in 1 .. n, NEW j \in 1 .. n, s[i] = s[j] PROVE i = j
    <2>1. StreamOctet(iv, p + i - 1) = StreamOctet(iv, p + j - 1)
      BY <1>2, <1>6
    <2>2. p + i - 1 = p + j - 1
      <3>1. p + i - 1 \in 0 .. M - 1 /\ p + j - 1 \in 0 .. M - 1
        BY <1>3
      <3> DEFINE x == p + i - 1
                 y == p + j - 1
      <3> HIDE DEF x, y
      <3>2. x = y
        BY <2>1, <3>1, OctetTellsPlace DEF x, y
      <3>3. QED
        BY <3>2 DEF x, y
    <2>3. QED
      BY <2>2
  <1>7. QED
    BY <1>2, <1>5, <1>6 DEF Distinct, s, T

-----------------------------------------------------------------------------
(* The keys of a stream.                                                   *)

\* The octets of the streams of some labels.
Labelled(L) == UNION {Places(label) : label \in L}

LEMMA LabelsApart ==
  ASSUME NEW L, NEW M, L \cap M = {}
  PROVE  /\ Labelled(L) \cap Labelled(M) = {}
         /\ Labelled(L) \subseteq Labelled(L \cup M) /\ Labelled(M) \subseteq Labelled(L \cup M)
  <1>1. \A o \in Labelled(L) : o.block.iv \in L
    BY DEF Labelled, Places, StreamOctet, Block
  <1>2. \A o \in Labelled(M) : o.block.iv \in M
    BY DEF Labelled, Places, StreamOctet, Block
  <1>3. Labelled(L) \cap Labelled(M) = {}
    BY <1>1, <1>2
  <1>4. QED
    BY <1>3 DEF Labelled

LEMMA LabelledJoin ==
  ASSUME NEW L, NEW M, NEW s, NEW t, L \cap M = {},
         Distinct(s, Labelled(L)), Distinct(t, Labelled(M))
  PROVE  Distinct(s \o t, Labelled(L \cup M)) /\ Len(s \o t) = Len(s) + Len(t)
  <1>1. Distinct(s \o t, Labelled(L \cup M))
    BY LabelsApart, DistinctJoin
  <1>2. Len(s \o t) = Len(s) + Len(t)
    BY ConcatProperties DEF Distinct
  <1>3. QED
    BY <1>1, <1>2

LEMMA KeyIsStream ==
  ASSUME NEW label, NEW n \in Nat, n <= BlockOctets * CtrRange
  PROVE  Distinct(srtp_kdf_generate(label, n), Labelled({label}))
         /\ Len(srtp_kdf_generate(label, n)) = n
  <1> DEFINE z == 0
             s == srtp_kdf_generate(label, n)
  <1>1. z \in Nat /\ z + n <= BlockOctets * CtrRange /\ At(aes_icm_set_iv(label), label, z)
    <2>1. z + n = n
      OBVIOUS
    <2>2. QED
      BY <2>1, StartsAtZero
  <1> HIDE DEF z
  <1>2. s = Stream(label, z, n)
    BY <1>1, StreamGoesOn DEF srtp_kdf_generate
  <1> HIDE DEF s
  <1>3. Distinct(s, Stretch(label, z, n)) /\ Len(s) = n
    BY <1>1, <1>2, StreamIsDistinct, StreamType
  <1>4. Stretch(label, z, n) \subseteq Labelled({label})
    <2>1. \A q \in z .. z + n - 1 : q \in Nat
      BY <1>1
    <2>2. QED
      BY <2>1 DEF Stretch, Labelled, Places
  <1>5. QED
    <2> DEFINE T == Stretch(label, z, n)
               U == Labelled({label})
    <2> HIDE DEF T, U
    <2>1. Distinct(s, T) /\ T \subseteq U
      BY <1>3, <1>4 DEF T, U
    <2>2. Distinct(s, U)
      BY <2>1 DEF Distinct
    <2>3. QED
      BY <1>3, <2>2 DEF s, U

LEMMA PolicyLengths ==
  ASSUME NEW p \in Policies
  PROVE  /\ p.cipher_key_len \in {0, 30, 46} /\ p.auth_key_len \in {0, 20}
         /\ p.cipher_type = "AES_ICM" => p.cipher_key_len \in {30, 46}
         /\ p.cipher_type # "AES_ICM" => p.cipher_key_len = 0
  BY DEF Policies, policy, crypto_policy_set_rtp_default, crypto_policy_set_rtcp_default,
         crypto_policy_set_aes_cm_128_hmac_sha1_32, crypto_policy_set_aes_cm_128_null_auth,
         crypto_policy_set_null_cipher_hmac_sha1_80, crypto_policy_set_aes_cm_256_hmac_sha1_80,
         crypto_policy_set_aes_cm_256_hmac_sha1_32

\* The keys that one policy asks for.
LEMMA KeysOfPolicy ==
  ASSUME NEW p \in Policies, 32 <= BlockOctets * CtrRange, NEW e, NEW s, NEW a,
         e # s, e # a, s # a
  PROVE  LET k == keysOf(p, e, s, a)
         IN  /\ Distinct(k.cipher \o k.auth, Labelled({e, s, a}))
             /\ Distinct(k.cipher, Labelled({e, s})) /\ Distinct(k.auth, Labelled({a}))
             /\ Len(k.cipher) = p.cipher_key_len /\ Len(k.auth) = p.auth_key_len
  <1> DEFINE base == base_key_length(p.cipher_type, p.cipher_key_len)
             rest == p.cipher_key_len - base
             m == p.auth_key_len
             M == BlockOctets * CtrRange
             E == srtp_kdf_generate(e, base)
             S == srtp_kdf_generate(s, rest)
             A == srtp_kdf_generate(a, m)
  <1>1. base \in {0, 16, 32} /\ rest \in {0, 14} /\ m \in {0, 20} /\ base + rest = p.cipher_key_len
    BY PolicyLengths DEF base_key_length
  <1>2. M \in Nat
    BY IcmSizes, Multiples
  <1>3. 32 <= M
    OBVIOUS
  <1>4. keysOf(p, e, s, a) = [cipher |-> E \o S, auth |-> A]
    BY DEF keysOf
  <1> HIDE DEF base, rest, m, M
  <1>5. /\ base \in Nat /\ rest \in Nat /\ m \in Nat
        /\ base <= M /\ rest <= M /\ m <= M
    BY <1>1, <1>2, <1>3
  <1>6. /\ Distinct(E, Labelled({e})) /\ Len(E) = base
        /\ Distinct(S, Labelled({s})) /\ Len(S) = rest
        /\ Distinct(A, Labelled({a})) /\ Len(A) = m
    BY <1>5, KeyIsStream DEF M
  <1> HIDE DEF E, S, A
  <1>7. Distinct(E \o S, Labelled({e} \cup {s})) /\ Len(E \o S) = base + rest
    <2>1. {e} \cap {s} = {}
      OBVIOUS
    <2>2. QED
      BY <1>6, <2>1, LabelledJoin
  <1>8. {e} \cup {s} = {e, s} /\ {e, s} \cup {a} = {e, s, a} /\ {e, s} \cap {a} = {}
    OBVIOUS
  <1>9. Distinct((E \o S) \o A, Labelled({e, s} \cup {a}))
    BY <1>6, <1>7, <1>8, LabelledJoin
  <1> DEFINE k == keysOf(p, e, s, a)
  <1>10. k.cipher = E \o S /\ k.auth = A
    BY <1>4
  <1> HIDE DEF k
  <1>11. /\ Distinct(k.cipher \o k.auth, Labelled({e, s, a}))
         /\ Distinct(k.cipher, Labelled({e, s})) /\ Distinct(k.auth, Labelled({a}))
    BY <1>6, <1>7, <1>8, <1>9, <1>10
  <1>12. Len(k.cipher) = p.cipher_key_len /\ Len(k.auth) = p.auth_key_len
    BY <1>1, <1>6, <1>7, <1>10 DEF m
  <1>13. QED
    BY <1>11, <1>12 DEF k

LEMMA KeysAreApart ==
  ASSUME NEW rtp \in Policies, NEW rtcp \in Policies, 32 <= BlockOctets * CtrRange
  PROVE  KeysApart(rtp, rtcp)
  <1> DEFINE L == {"rtp_encryption", "rtp_salt", "rtp_msg_auth"}
             M == {"rtcp_encryption", "rtcp_salt", "rtcp_msg_auth"}
             k == srtp_stream_init_keys(rtp, rtcp)
             c1 == k.rtp.cipher
             a1 == k.rtp.auth
             c2 == k.rtcp.cipher
             a2 == k.rtcp.auth
  <1>1. /\ Distinct(c1 \o a1, Labelled(L))
        /\ Distinct(c1, Labelled({"rtp_encryption", "rtp_salt"}))
        /\ Distinct(a1, Labelled({"rtp_msg_auth"}))
        /\ Len(c1) = rtp.cipher_key_len /\ Len(a1) = rtp.auth_key_len
    <2>1. k.rtp = keysOf(rtp, "rtp_encryption", "rtp_salt", "rtp_msg_auth")
      BY Zenon DEF srtp_stream_init_keys
    <2> DEFINE e == "rtp_encryption"
               s == "rtp_salt"
               a == "rtp_msg_auth"
               keys == keysOf(rtp, e, s, a)
    <2>2. e # s /\ e # a /\ s # a
      OBVIOUS
    <2> HIDE DEF k, e, s, a
    <2>3. /\ Distinct(keys.cipher \o keys.auth, Labelled({e, s, a}))
          /\ Distinct(keys.cipher, Labelled({e, s})) /\ Distinct(keys.auth, Labelled({a}))
          /\ Len(keys.cipher) = rtp.cipher_key_len /\ Len(keys.auth) = rtp.auth_key_len
      BY <2>2, KeysOfPolicy
    <2> HIDE DEF keys
    <2>4. k.rtp = keys
      BY <2>1 DEF keys, e, s, a
    <2>5. QED
      BY <2>3, <2>4 DEF e, s, a
  <1>2. /\ Distinct(c2 \o a2, Labelled(M))
        /\ Distinct(c2, Labelled({"rtcp_encryption", "rtcp_salt"}))
        /\ Distinct(a2, Labelled({"rtcp_msg_auth"}))
        /\ Len(c2) = rtcp.cipher_key_len /\ Len(a2) = rtcp.auth_key_len
    <2>1. k.rtcp = keysOf(rtcp, "rtcp_encryption", "rtcp_salt", "rtcp_msg_auth")
      BY Zenon DEF srtp_stream_init_keys
    <2> DEFINE e == "rtcp_encryption"
               s == "rtcp_salt"
               a == "rtcp_msg_auth"
               keys == keysOf(rtcp, e, s, a)
    <2>2. e # s /\ e # a /\ s # a
      OBVIOUS
    <2> HIDE DEF k, e, s, a
    <2>3. /\ Distinct(keys.cipher \o keys.auth, Labelled({e, s, a}))
          /\ Distinct(keys.cipher, Labelled({e, s})) /\ Distinct(keys.auth, Labelled({a}))
          /\ Len(keys.cipher) = rtcp.cipher_key_len /\ Len(keys.auth) = rtcp.auth_key_len
      BY <2>2, KeysOfPolicy
    <2> HIDE DEF keys
    <2>4. k.rtcp = keys
      BY <2>1 DEF keys, e, s, a
    <2>5. QED
      BY <2>3, <2>4 DEF e, s, a
  <1>3. aes_icm_alloc(k.kdf_keylen)
    <2> DEFINE S == {30, rtp.cipher_key_len, rtcp.cipher_key_len}
    <2>1. rtp.cipher_key_len \in {0, 30, 46} /\ rtcp.cipher_key_len \in {0, 30, 46}
      BY PolicyLengths
    <2>2. \E n \in S : \A m \in S : m <= n
      <3>1. CASE 46 \in S
        BY <2>1, <3>1
      <3>2. CASE 46 \notin S
        BY <2>1, <3>2
      <3>3. QED
        BY <3>1, <3>2
    <2>3. k.kdf_keylen = CHOOSE n \in S : \A m \in S : m <= n
      BY Zenon DEF srtp_stream_init_keys
    <2> HIDE DEF k
    <2>4. k.kdf_keylen \in S /\ \A m \in S : m <= k.kdf_keylen
      <3> HIDE DEF S
      <3>1. QED
        BY <2>2, <2>3, Zenon
    <2>5. k.kdf_keylen \in {30, 46}
      BY <2>1, <2>4
    <2>6. QED
      BY <2>5 DEF aes_icm_alloc
  <1>4. ASSUME NEW p \in Policies, p.cipher_type = "AES_ICM"
        PROVE  /\ aes_icm_alloc(p.cipher_key_len)
               /\ base_key_length(p.cipher_type, p.cipher_key_len)
                    = aes_icm_context_init(p.cipher_key_len)
    BY <1>4, PolicyLengths DEF aes_icm_alloc, base_key_length, aes_icm_context_init
  <1> HIDE DEF k
  <1> DEFINE x == (c1 \o a1) \o c2
             all == x \o a2
  <1>5. Distinct(x, Labelled(L \cup {"rtcp_encryption", "rtcp_salt"}))
    <2> HIDE DEF c1, a1, c2, a2
    <2>1. L \cap {"rtcp_encryption", "rtcp_salt"} = {}
      OBVIOUS
    <2>2. QED
      BY <1>1, <1>2, <2>1, LabelledJoin
  <1>6. Distinct(all, Labelled((L \cup {"rtcp_encryption", "rtcp_salt"}) \cup {"rtcp_msg_auth"}))
    <2> HIDE DEF x, a2
    <2>1. (L \cup {"rtcp_encryption", "rtcp_salt"}) \cap {"rtcp_msg_auth"} = {}
      OBVIOUS
    <2>2. QED
      BY <1>2, <1>5, <2>1, LabelledJoin
  <1> HIDE DEF all
  <1>7. Cardinality(Range(all)) = Len(all)
    BY <1>6, DistinctCount
  <1> HIDE DEF c1, a1, c2, a2, x
  <1>8. QED
    BY <1>1, <1>2, <1>3, <1>4, <1>7 DEF KeysApart, all, x, c1, a1, c2, a2, k

LEMMA ProfilesFit ==
  ASSUME NEW profile \in Supported
  PROVE  ProfileFits(profile)
  <1> DEFINE p == crypto_policy_set_from_profile_for_rtp(profile)
             q == crypto_policy_set_from_profile_for_rtcp(profile)
             n == srtp_profile_get_master_key_length(profile)
             salt == srtp_profile_get_master_salt_length(profile)
  <1> USE DEF Supported, Profiles, crypto_policy_set_from_profile_for_rtp,
              crypto_policy_set_from_profile_for_rtcp, srtp_profile_get_master_key_length,
              srtp_profile_get_master_salt_length, policy, crypto_policy_set_rtp_default,
              crypto_policy_set_aes_cm_128_hmac_sha1_80,
              crypto_policy_set_aes_cm_256_hmac_sha1_80,
              crypto_policy_set_null_cipher_hmac_sha1_80
  <1>1. /\ p.cipher_type = "AES_ICM" => p.cipher_key_len = n + salt
        /\ q.auth_tag_len = 10 /\ q.cipher_key_len = p.cipher_key_len
        /\ n \in {16, 32} /\ salt = 14
    <2>1. CASE profile \in {"aes128_cm_sha1_80", "aes128_cm_sha1_32"}
      BY <2>1
    <2>2. CASE profile \in {"aes256_cm_sha1_80", "aes256_cm_sha1_32"}
      BY <2>2
    <2>3. CASE profile = "null_sha1_80"
      BY <2>3
    <2>4. QED
      BY <2>1, <2>2, <2>3
  <1> HIDE DEF p, q, n, salt
  <1>2. Len(append_salt_to_key(Pattern(n, 1), n, Pattern(salt, 2), salt)) = n + salt
    BY <1>1 DEF append_salt_to_key
  <1>3. QED
    BY <1>1, <1>2 DEF ProfileFits, p, q, n, salt

-----------------------------------------------------------------------------
(* The counter generator.                                                  *)

\* The octets of the streams of all keys so far, that of KEY up to a place.
CtrUsed(reads, key, pos) ==
  UNION {Stretch(k, 0, IF k = key THEN pos ELSE BlockOctets * CtrRange) : k \in 0 .. reads}

Sources == [open : BOOLEAN, reads : Nat, good : Nat]

\* The generator is at a place of the stream of KEY, and the octets are from before it.
CtrSound(p, octets, key, pos) ==
  /\ p = [octet_count |-> p.octet_count, source |-> p.source, status |-> p.status,
          state |-> p.state]
  /\ p.source \in Sources
  /\ key \in 0 .. p.source.reads /\ pos \in Nat /\ pos <= BlockOctets * (CtrRange - 1)
  /\ At(p.state, key, pos)
  /\ Distinct(octets, CtrUsed(p.source.reads, key, pos))

LEMMA StreamLength ==
  /\ BlockOctets * CtrRange \in Nat /\ BlockOctets * (CtrRange - 1) \in Nat
  /\ BlockOctets * CtrRange = (BlockOctets * (CtrRange - 1)) + BlockOctets
  <1> DEFINE B == BlockOctets
             r == CtrRange - 1
  <1>1. B \in Nat \ {0} /\ r \in Nat /\ r + 1 = CtrRange /\ CtrRange \in Nat
    BY IcmSizes
  <1> HIDE DEF B, r
  <1>2. B * r \in Nat /\ B * (r + 1) = (B * r) + B /\ B * CtrRange \in Nat
    BY <1>1, Multiples
  <1>3. QED
    BY <1>1, <1>2 DEF B, r

\* A call that does not end in terminus ends before the block counter goes round.
LEMMA NoWrap ==
  ASSUME NEW c, NEW iv, NEW pos \in Nat, At(c, iv, pos), pos <= BlockOctets * (CtrRange - 1),
         NEW len \in Nat, ~terminus(c, len)
  PROVE  pos + len <= BlockOctets * (CtrRange - 1)
  <1> DEFINE B == BlockOctets
             R == CtrRange
             r == R - 1
  <1>1. B \in Nat \ {0} /\ R \in Nat \ {0} /\ r \in Nat /\ r + 1 = R
    BY IcmSizes
  <1>2. PICK b \in Nat : InBlock(c, iv, pos, b)
    BY DEF At
  <1>3. (B * b) - pos \in 0 .. B - 1 /\ c.counter.ctr = b % R
    BY <1>2 DEF InBlock, Block
  <1>4. ~(len + c.counter.ctr > R - 1) /\ pos <= B * r
    BY DEF terminus
  <1> HIDE DEF B, R
  <1>5. B * b \in Nat
    BY <1>1, Multiples
  <1> HIDE DEF r
  <1>6. B * r \in Nat /\ B * (r + 1) = (B * r) + B
    BY <1>1, Multiples
  <1>7. b < R
    <2> SUFFICES ASSUME ~(b < R) PROVE FALSE
      OBVIOUS
    <2>1. R <= b
      BY <1>1
    <2>2. B * R <= B * b
      BY <1>1, <2>1, Multiples
    <2>3. B * R = (B * r) + B
      BY <1>1, <1>6
    <2>4. QED
      BY <1>1, <1>3, <1>4, <1>5, <1>6, <2>2, <2>3
  <1>8. b % R = b
    BY <1>1, <1>7
  <1>9. len + b <= r /\ len + b \in Nat
    BY <1>1, <1>3, <1>4, <1>8 DEF r
  <1>10. B * (len + b) <= B * r /\ B * (len + b) = (B * len) + (B * b) /\ B * len \in Nat
    BY <1>1, <1>9, Multiples, Distributes
  <1>11. len <= B * len
    BY <1>1, SMT
  <1>12. QED
    BY <1>3, <1>5, <1>6, <1>10, <1>11 DEF B, r, R

LEMMA UsedBefore ==
  ASSUME NEW reads \in Nat, NEW key \in 0 .. reads, NEW pos \in Nat,
         pos <= BlockOctets * (CtrRange - 1)
  PROVE  CtrUsed(reads, key, pos) \subseteq CtrUsed(reads + 1, reads + 1, 0)
  <1> DEFINE M == BlockOctets * CtrRange
  <1>1. M \in Nat /\ pos <= M
    <2> DEFINE L == BlockOctets * (CtrRange - 1)
    <2>1. M \in Nat /\ L \in Nat /\ M = L + BlockOctets /\ pos <= L /\ BlockOctets \in Nat
      BY StreamLength, IcmSizes
    <2> HIDE DEF M, L
    <2>2. QED
      BY <2>1
  <1> SUFFICES ASSUME NEW o \in CtrUsed(reads, key, pos)
               PROVE  o \in CtrUsed(reads + 1, reads + 1, 0)
    OBVIOUS
  <1>2. PICK k \in 0 .. reads : o \in Stretch(k, 0, IF k = key THEN pos ELSE M)
    BY DEF CtrUsed
  <1> HIDE DEF M
  <1>3. o \in Stretch(k, 0, M)
    <2>1. PICK q \in 0 .. 0 + (IF k = key THEN pos ELSE M) - 1 : o = StreamOctet(k, q)
      BY <1>2 DEF Stretch
    <2>2. q \in 0 .. 0 + M - 1
      BY <1>1, <2>1
    <2>3. QED
      BY <2>1, <2>2 DEF Stretch
  <1>4. k \in 0 .. reads + 1 /\ k # reads + 1
    OBVIOUS
  <1>5. QED
    BY <1>3, <1>4 DEF CtrUsed, M

LEMMA UsedGrows ==
  ASSUME NEW reads \in Nat, NEW key \in 0 .. reads, NEW pos \in Nat, NEW n \in Nat,
         pos + n <= BlockOctets * (CtrRange - 1)
  PROVE  /\ CtrUsed(reads, key, pos) \cap Stretch(key, pos, n) = {}
         /\ CtrUsed(reads, key, pos) \subseteq CtrUsed(reads, key, pos + n)
         /\ Stretch(key, pos, n) \subseteq CtrUsed(reads, key, pos + n)
  <1> DEFINE M == BlockOctets * CtrRange
             lim(k, p) == IF k = key THEN p ELSE M
  <1>1. M \in Nat /\ pos + n <= M
    <2> DEFINE L == BlockOctets * (CtrRange - 1)
    <2>1. M \in Nat /\ L \in Nat /\ M = L + BlockOctets /\ pos + n <= L /\ BlockOctets \in Nat
      BY StreamLength, IcmSizes
    <2> HIDE DEF M, L
    <2>2. QED
      BY <2>1
  <1>2. \A p, o : o \in CtrUsed(reads, key, p)
                    <=> \E k \in 0 .. reads : \E q \in 0 .. 0 + lim(k, p) - 1 : o = StreamOctet(k, q)
    BY DEF CtrUsed, Stretch
  <1>3. \A o : o \in Stretch(key, pos, n) <=> \E q \in pos .. pos + n - 1 : o = StreamOctet(key, q)
    BY DEF Stretch
  <1> HIDE DEF M
  <1>5. ASSUME NEW o, o \in CtrUsed(reads, key, pos), o \in Stretch(key, pos, n) PROVE FALSE
    <2>0. PICK k \in 0 .. reads : \E q \in 0 .. 0 + lim(k, pos) - 1 : o = StreamOctet(k, q)
      BY <1>2, <1>5
    <2>1. PICK q \in 0 .. 0 + lim(k, pos) - 1 : o = StreamOctet(k, q)
      BY <2>0
    <2>2. PICK r \in pos .. pos + n - 1 : o = StreamOctet(key, r)
      BY <1>3, <1>5
    <2>3. q \in 0 .. M - 1 /\ r \in 0 .. M - 1
      BY <1>1
    <2>4. StreamOctet(k, q) = StreamOctet(key, r)
      BY <2>1, <2>2
    <2>5. k = key /\ q = r
      BY <2>3, <2>4, OctetTellsPlace DEF M
    <2>6. QED
      BY <2>5
  <1>6. ASSUME NEW o, o \in CtrUsed(reads, key, pos) PROVE o \in CtrUsed(reads, key, pos + n)
    <2>0. PICK k \in 0 .. reads : \E q \in 0 .. 0 + lim(k, pos) - 1 : o = StreamOctet(k, q)
      BY <1>2, <1>6
    <2>1. PICK q \in 0 .. 0 + lim(k, pos) - 1 : o = StreamOctet(k, q)
      BY <2>0
    <2>2. q \in 0 .. 0 + lim(k, pos + n) - 1
      BY <1>1
    <2>3. QED
      BY <1>2, <2>1, <2>2
  <1>7. ASSUME NEW o, o \in Stretch(key, pos, n) PROVE o \in CtrUsed(reads, key, pos + n)
    <2>1. PICK r \in pos .. pos + n - 1 : o = StreamOctet(key, r)
      BY <1>3, <1>7
    <2>2. r \in 0 .. 0 + lim(key, pos + n) - 1
      OBVIOUS
    <2>3. QED
      BY <1>2, <2>1, <2>2
  <1>8. QED
    BY <1>5, <1>6, <1>7

LEMMA DistinctWiden ==
  ASSUME NEW S, NEW T, NEW s, Distinct(s, S), S \subseteq T
  PROVE  Distinct(s, T)
  BY DEF Distinct

\* A new key, if the source has one, and the old one if not.
LEMMA CtrInit ==
  ASSUME NEW p, NEW octets, NEW key, NEW pos, CtrSound(p, octets, key, pos)
  PROVE  \E k, q : CtrSound(ctr_prng_init(p), octets, k, q)
  <1> DEFINE source == p.source
             drawn == rand_source_get_octet_string(source)
             new == ctr_prng_init(p)
  <1>1. /\ source \in Sources /\ key \in 0 .. source.reads /\ pos \in Nat
        /\ pos <= BlockOctets * (CtrRange - 1) /\ At(p.state, key, pos)
        /\ Distinct(octets, CtrUsed(source.reads, key, pos))
    BY DEF CtrSound
  <1>2. new = [octet_count |-> 0, source |-> drawn.source, status |-> drawn.status,
               state |-> IF drawn.status = "ok" THEN aes_icm_set_iv(drawn.source.reads) ELSE p.state]
    BY DEF ctr_prng_init
  <1> HIDE DEF new
  <1>3. CASE source.open /\ source.reads < source.good
    <2>1. drawn = [status |-> "ok", source |-> [source EXCEPT !.reads = @ + 1]]
      BY <1>3 DEF rand_source_get_octet_string
    <2>2. drawn.source \in Sources /\ drawn.source.reads = source.reads + 1 /\ drawn.status = "ok"
      BY <1>1, <2>1 DEF Sources
    <2> HIDE DEF drawn
    <2> DEFINE r == source.reads
    <2>3. r \in Nat /\ key \in 0 .. r
      BY <1>1 DEF Sources
    <2>4. new.source = drawn.source /\ new.state = aes_icm_set_iv(r + 1)
          /\ new = [octet_count |-> new.octet_count, source |-> new.source,
                    status |-> new.status, state |-> new.state]
      BY <1>2, <2>2
    <2>5. At(new.state, r + 1, 0)
      BY <2>4, StartsAtZero
    <2> HIDE DEF r, source
    <2>6. Distinct(octets, CtrUsed(r + 1, r + 1, 0))
      BY <1>1, <2>3, UsedBefore, DistinctWiden DEF r
    <2>7. r + 1 \in 0 .. r + 1 /\ 0 \in Nat /\ 0 <= BlockOctets * (CtrRange - 1)
      BY <2>3, StreamLength
    <2>8. CtrSound(new, octets, r + 1, 0)
      BY <2>2, <2>4, <2>5, <2>6, <2>7 DEF CtrSound, r
    <2>9. QED
      BY <2>8 DEF new
  <1>4. CASE ~(source.open /\ source.reads < source.good)
    <2>1. drawn = [status |-> "fail", source |-> source]
      BY <1>4 DEF rand_source_get_octet_string
    <2>2. drawn.source = source /\ drawn.status # "ok"
      BY <2>1
    <2> HIDE DEF drawn
    <2>3. new.source = source /\ new.state = p.state
          /\ new = [octet_count |-> new.octet_count, source |-> new.source,
                    status |-> new.status, state |-> new.state]
      BY <1>2, <2>2
    <2>4. CtrSound(new, octets, key, pos)
      BY <1>1, <2>3 DEF CtrSound
    <2>5. QED
      BY <2>4 DEF new
  <1>5. QED
    BY <1>3, <1>4

LEMMA CtrGet ==
  ASSUME NEW p, NEW octets, NEW key, NEW pos, CtrSound(p, octets, key, pos), NEW len \in Nat
  PROVE  LET r == ctr_prng_get_octet_string(p, len)
         IN  \E k, q : CtrSound(r.p, octets \o r.octets, k, q)
  <1> DEFINE begun == IF p.octet_count > MAX_PRNG_OUT_LEN - len THEN ctr_prng_init(p)
                      ELSE [p EXCEPT !.status = "ok"]
             added == [begun EXCEPT !.octet_count = @ + len]
             given == ctr_prng_get_octet_string(p, len)
  <1>1. given = IF begun.status # "ok" THEN [p |-> begun, octets |-> <<>>]
                 ELSE IF terminus(added.state, len)
                 THEN [p |-> [added EXCEPT !.status = "terminus"], octets |-> <<>>]
                 ELSE [p |-> [added EXCEPT !.state = aes_icm_encrypt(@, len)],
                       octets |-> keystream(added.state, len)]
    BY DEF ctr_prng_get_octet_string
  <1>2. PICK k, q : CtrSound(begun, octets, k, q)
    <2>1. CASE p.octet_count > MAX_PRNG_OUT_LEN - len
      <3>1. begun = ctr_prng_init(p)
        BY <2>1
      <3> HIDE DEF begun
      <3>2. QED
        BY <3>1, CtrInit
    <2>2. CASE ~(p.octet_count > MAX_PRNG_OUT_LEN - len)
      <3>1. begun = [p EXCEPT !.status = "ok"]
        BY <2>2
      <3> HIDE DEF begun
      <3>2. p = [octet_count |-> p.octet_count, source |-> p.source, status |-> p.status,
                 state |-> p.state]
        BY DEF CtrSound
      <3>3. begun = [octet_count |-> p.octet_count, source |-> p.source, status |-> "ok",
                     state |-> p.state]
        BY <3>1, <3>2
      <3>4. begun.source = p.source /\ begun.state = p.state
            /\ begun = [octet_count |-> begun.octet_count, source |-> begun.source,
                        status |-> begun.status, state |-> begun.state]
        BY <3>3
      <3>5. CtrSound(begun, octets, key, pos)
        BY <3>4 DEF CtrSound
      <3>6. QED
        BY <3>5
    <2>3. QED
      BY <2>1, <2>2
  <1> HIDE DEF begun
  <1>3. begun = [octet_count |-> begun.octet_count, source |-> begun.source,
                 status |-> begun.status, state |-> begun.state]
    BY <1>2 DEF CtrSound
  <1>4. added = [octet_count |-> begun.octet_count + len, source |-> begun.source,
                   status |-> begun.status, state |-> begun.state]
    BY <1>3
  <1> HIDE DEF added, given
  <1>5. octets \o <<>> = octets
    BY <1>2, ConcatEmptySeq DEF CtrSound, Distinct
  <1>6. CASE begun.status # "ok"
    <2>1. given.p = begun /\ given.octets = <<>>
      BY <1>1, <1>6
    <2>2. QED
      BY <1>2, <1>5, <2>1 DEF given
  <1>7. CASE begun.status = "ok" /\ terminus(added.state, len)
    <2>1. given.p = [added EXCEPT !.status = "terminus"] /\ given.octets = <<>>
      BY <1>1, <1>7
    <2>2. given.p = [octet_count |-> begun.octet_count + len, source |-> begun.source,
                      status |-> "terminus", state |-> begun.state]
      BY <1>4, <2>1
    <2>3. given.p.source = begun.source /\ given.p.state = begun.state
          /\ given.p = [octet_count |-> given.p.octet_count, source |-> given.p.source,
                         status |-> given.p.status, state |-> given.p.state]
      BY <2>2
    <2>4. CtrSound(given.p, octets, k, q)
      BY <1>2, <2>3 DEF CtrSound
    <2>5. QED
      BY <1>5, <2>1, <2>4 DEF given
  <1>8. CASE begun.status = "ok" /\ ~terminus(added.state, len)
    <2>1. given.p = [added EXCEPT !.state = aes_icm_encrypt(@, len)]
          /\ given.octets = keystream(added.state, len)
      BY <1>1, <1>8
    <2>2. added.state = begun.state
      BY <1>4
    <2>3. given.p = [octet_count |-> begun.octet_count + len, source |-> begun.source,
                      status |-> begun.status, state |-> aes_icm_encrypt(begun.state, len)]
      BY <1>4, <2>1
    <2>4. given.p.source = begun.source /\ given.p.state = aes_icm_encrypt(begun.state, len)
          /\ given.p = [octet_count |-> given.p.octet_count, source |-> given.p.source,
                         status |-> given.p.status, state |-> given.p.state]
      BY <2>3
    <2> DEFINE c == begun.state
               r == begun.source.reads
    <2>5. /\ r \in Nat /\ k \in 0 .. r /\ q \in Nat /\ q <= BlockOctets * (CtrRange - 1)
          /\ At(c, k, q) /\ Distinct(octets, CtrUsed(r, k, q)) /\ begun.source \in Sources
      BY <1>2 DEF CtrSound, Sources
    <2>6. ~terminus(c, len)
      BY <1>8, <2>2
    <2> HIDE DEF c, r
    <2>7. q + len <= BlockOctets * (CtrRange - 1)
      BY <2>5, <2>6, NoWrap
    <2>8. keystream(c, len) = Stream(k, q, len) /\ At(aes_icm_encrypt(c, len), k, q + len)
      BY <2>5, StreamGoesOn
    <2>9. Distinct(Stream(k, q, len), Stretch(k, q, len))
      <3> DEFINE M == BlockOctets * CtrRange
                 L == BlockOctets * (CtrRange - 1)
      <3>1. M \in Nat /\ L \in Nat /\ M = L + BlockOctets /\ BlockOctets \in Nat /\ q + len <= L
        BY <2>7, StreamLength, IcmSizes
      <3> HIDE DEF M, L
      <3>2. q + len <= M
        BY <2>5, <3>1
      <3>3. QED
        BY <2>5, <3>2, StreamIsDistinct DEF M
    <2>10. Distinct(octets \o Stream(k, q, len), CtrUsed(r, k, q + len))
      BY <2>5, <2>7, <2>9, UsedGrows, DistinctJoin
    <2>11. q + len \in Nat
      BY <2>5
    <2>12. CtrSound(given.p, octets \o given.octets, k, q + len)
      <3>1. given.octets = Stream(k, q, len)
        BY <2>1, <2>2, <2>8 DEF c
      <3>2. At(given.p.state, k, q + len)
        BY <2>4, <2>8 DEF c
      <3>3. given.p.source.reads = r /\ given.p.source \in Sources
        BY <2>4, <2>5 DEF r
      <3>4. QED
        BY <2>4, <2>5, <2>7, <2>10, <2>11, <3>1, <3>2, <3>3 DEF CtrSound
    <2>13. QED
      BY <2>12 DEF given
  <1>9. QED
    BY <1>6, <1>7, <1>8

\* What calls of the counter generator yield, one after the other.
CtrDraws(f, n, generator, lens) ==
  f = [k \in 0 .. n |-> IF k = 0 THEN [p |-> generator, octets |-> <<>>]
                      ELSE Yielding(f[k - 1], ctr_prng_get_octet_string(f[k - 1].p, lens[k]))]

LEMMA CtrDrawsExist ==
  ASSUME NEW n \in Nat, NEW generator, NEW lens
  PROVE  \E f : CtrDraws(f, n, generator, lens)
  <1> DEFINE S == {m \in 0 .. n : \E f : CtrDraws(f, m, generator, lens)}
  <1>1. 0 \in S
    <2>1. CtrDraws([k \in 0 .. 0 |-> [p |-> generator, octets |-> <<>>]], 0, generator, lens)
      BY DEF CtrDraws
    <2>2. QED
      BY <2>1
  <1>2. ASSUME NEW m \in 0 .. n - 1, m \in S PROVE m + 1 \in S
    <2>1. PICK f : CtrDraws(f, m, generator, lens)
      BY <1>2
    <2> DEFINE e == [k \in 0 .. m + 1 |->
                      IF k = m + 1 THEN Yielding(f[m], ctr_prng_get_octet_string(f[m].p, lens[m + 1]))
                      ELSE f[k]]
    <2>2. ASSUME NEW k \in 0 .. m + 1
          PROVE  e[k] = IF k = 0 THEN [p |-> generator, octets |-> <<>>]
                         ELSE Yielding(e[k - 1], ctr_prng_get_octet_string(e[k - 1].p, lens[k]))
      <3>1. CASE k = m + 1
        <4>1. k # 0 /\ k - 1 = m /\ m \in 0 .. m + 1 /\ m # m + 1
          BY <3>1
        <4>2. e[k] = Yielding(f[m], ctr_prng_get_octet_string(f[m].p, lens[k])) /\ e[m] = f[m]
          BY <3>1, <4>1
        <4> HIDE DEF e
        <4>3. QED
          BY <4>1, <4>2
      <3>2. CASE k # m + 1
        <4>1. k \in 0 .. m /\ (k # 0 => k - 1 \in 0 .. m /\ k - 1 # m + 1)
          BY <3>2
        <4>2. f[k] = IF k = 0 THEN [p |-> generator, octets |-> <<>>]
                     ELSE Yielding(f[k - 1], ctr_prng_get_octet_string(f[k - 1].p, lens[k]))
          BY <2>1, <4>1 DEF CtrDraws
        <4>3. e[k] = f[k] /\ (k # 0 => e[k - 1] = f[k - 1])
          BY <3>2, <4>1
        <4> HIDE DEF e
        <4>4. QED
          BY <4>2, <4>3
      <3>3. QED
        BY <3>1, <3>2
    <2>3. e = [k \in 0 .. m + 1 |-> e[k]]
      OBVIOUS
    <2> HIDE DEF e
    <2>4. CtrDraws(e, m + 1, generator, lens)
      BY <2>2, <2>3 DEF CtrDraws
    <2>5. m + 1 \in 0 .. n
      OBVIOUS
    <2>6. QED
      BY <2>4, <2>5
  <1>3. n \in S
    <2>1. n \in 0 .. n
      OBVIOUS
    <2> HIDE DEF S
    <2>2. QED
      BY <1>1, <1>2, <2>1, Induction
  <1>4. QED
    BY <1>3

\* What the counter generator yields in the end, whatever it is asked for.
LEMMA CtrDrawn ==
  ASSUME NEW p, NEW octets, NEW key, NEW pos, octets = <<>>, CtrSound(p, octets, key, pos),
         work.lens \in Seq(Nat)
  PROVE  Cardinality(Range(Drawn(p, ctr_prng_get_octet_string)))
           = Len(Drawn(p, ctr_prng_get_octet_string))
  <1> DEFINE lens == work.lens
             n == Len(lens)
             f == CHOOSE h : h = [i \in 0 .. n |->
                    IF i = 0 THEN [p |-> p, octets |-> <<>>]
                    ELSE Yielding(h[i - 1], ctr_prng_get_octet_string(h[i - 1].p, lens[i]))]
             drawn == Drawn(p, ctr_prng_get_octet_string)
  <1>1. drawn = f[n].octets
    BY DEF Drawn
  <1>2. n \in Nat /\ \A i \in 1 .. n : lens[i] \in Nat
    BY LenProperties, ElementOfSeq
  <1>3. CtrDraws(f, n, p, lens)
    <2>1. \E h : CtrDraws(h, n, p, lens)
      BY <1>2, CtrDrawsExist
    <2>2. QED
      BY <2>1, Zenon DEF CtrDraws
  <1> HIDE DEF f, n, lens, drawn
  <1> DEFINE S == {i \in 0 .. n : \E k, q : CtrSound(f[i].p, f[i].octets, k, q)}
  <1>4. 0 \in S
    <2>1. f[0] = [p |-> p, octets |-> <<>>] /\ 0 \in 0 .. n
      BY <1>2, <1>3 DEF CtrDraws
    <2>2. CtrSound(f[0].p, f[0].octets, key, pos)
      BY <2>1
    <2>3. QED
      BY <2>1, <2>2
  <1>5. ASSUME NEW i \in 0 .. n - 1, i \in S PROVE i + 1 \in S
    <2>1. i + 1 \in 0 .. n /\ i + 1 \in 1 .. n /\ i + 1 # 0 /\ (i + 1) - 1 = i
      BY <1>2
    <2> DEFINE r == ctr_prng_get_octet_string(f[i].p, lens[i + 1])
    <2>2. f[i + 1] = [p |-> r.p, octets |-> f[i].octets \o r.octets]
      BY <1>3, <2>1 DEF CtrDraws, Yielding
    <2>3. PICK k, q : CtrSound(f[i].p, f[i].octets, k, q)
      BY <1>5
    <2>4. lens[i + 1] \in Nat
      BY <1>2, <2>1
    <2> DEFINE len == lens[i + 1]
               a == f[i].p
               b == f[i].octets
    <2> HIDE DEF len, a, b
    <2>5. \E kk, qq : CtrSound(r.p, b \o r.octets, kk, qq)
      BY <2>3, <2>4, CtrGet DEF len, a, b
    <2> HIDE DEF r
    <2>6. \E kk, qq : CtrSound(f[i + 1].p, f[i + 1].octets, kk, qq)
      BY <2>2, <2>5 DEF b
    <2>7. QED
      BY <2>1, <2>6
  <1>6. n \in S
    <2>1. n \in 0 .. n
      BY <1>2
    <2> HIDE DEF S
    <2>2. QED
      BY <1>2, <1>4, <1>5, <2>1, Induction
  <1>7. PICK k, q : CtrSound(f[n].p, f[n].octets, k, q)
    BY <1>6
  <1>8. QED
    BY <1>1, <1>7, DistinctCount DEF CtrSound, drawn

-----------------------------------------------------------------------------
(* The generator of X9.17.                                                 *)

\* An octet of a block of the chain of a key.
ChainOctet(key, step, octet) == [block |-> [key |-> key, step |-> step], octet |-> octet]

Chains(reads) == {ChainOctet(k, t, i) : k \in 0 .. reads, t \in Nat, i \in Nat}

\* The octets of the chains of all keys so far, of that of KEY up to a step.
X917Used(reads, key, step) ==
  {o \in Chains(reads) : o.block.key = key => o.block.step < step}

\* The generator is at a step of the chain of its key, and the octets are from before it.
X917Sound(p, octets) ==
  /\ p = [octet_count |-> p.octet_count, source |-> p.source, status |-> p.status,
          state |-> p.state]
  /\ p.source \in Sources /\ p.state \in [key : Nat, step : Nat]
  /\ p.state.key <= p.source.reads
  /\ Distinct(octets, X917Used(p.source.reads, p.state.key, p.state.step))

\* A read of the source.
LEMMA SourceIsRead ==
  ASSUME NEW source \in Sources
  PROVE  LET drawn == rand_source_get_octet_string(source)
         IN  /\ drawn.source \in Sources /\ drawn.source.reads \in Nat
             /\ drawn.status = "ok" => drawn.source.reads = source.reads + 1
             /\ drawn.status # "ok" => drawn.source = source
  <1> DEFINE drawn == rand_source_get_octet_string(source)
  <1>1. CASE source.open /\ source.reads < source.good
    <2>1. drawn = [status |-> "ok", source |-> [source EXCEPT !.reads = @ + 1]]
      BY <1>1 DEF rand_source_get_octet_string
    <2> HIDE DEF drawn
    <2>2. QED
      BY <2>1 DEF Sources, drawn
  <1>2. CASE ~(source.open /\ source.reads < source.good)
    <2>1. drawn = [status |-> "fail", source |-> source]
      BY <1>2 DEF rand_source_get_octet_string
    <2> HIDE DEF drawn
    <2>2. QED
      BY <2>1 DEF Sources, drawn
  <1>3. QED
    BY <1>1, <1>2

\* What has been used stays used, with a new key too.
LEMMA X917UsedBefore ==
  ASSUME NEW r \in Nat, NEW s \in Nat, NEW k \in Nat, NEW t, NEW j, NEW u, r <= s, k <= r,
         (j = k /\ u = t) \/ (j \in Nat /\ r < j)
  PROVE  X917Used(r, k, t) \subseteq X917Used(s, j, u)
  <1> SUFFICES ASSUME NEW o \in X917Used(r, k, t) PROVE o \in X917Used(s, j, u)
    OBVIOUS
  <1>1. PICK l \in 0 .. r, v \in Nat, i \in Nat : o = ChainOctet(l, v, i)
    BY DEF X917Used, Chains
  <1>2. o.block.key = l /\ o.block.step = v
    BY <1>1 DEF ChainOctet
  <1>3. l \in 0 .. s
    OBVIOUS
  <1>4. o.block.key = j => o.block.step < u
    <2>1. CASE j = k /\ u = t
      BY <2>1 DEF X917Used
    <2>2. CASE j \in Nat /\ r < j
      BY <1>2, <2>2
    <2>3. QED
      BY <2>1, <2>2
  <1>5. QED
    <2>1. o \in Chains(s)
      BY <1>1, <1>3 DEF Chains
    <2>2. QED
      BY <1>4, <2>1 DEF X917Used

LEMMA X917Init ==
  ASSUME NEW p, NEW octets, X917Sound(p, octets)
  PROVE  X917Sound(x917_prng_init(p), octets)
  <1> DEFINE source == p.source
             key == rand_source_get_octet_string(source)
             drawn == rand_source_get_octet_string(key.source)
             place == IF key.status # "ok" THEN p.state
                      ELSE IF drawn.status # "ok" THEN [p.state EXCEPT !.key = key.source.reads]
                      ELSE [key |-> key.source.reads, step |-> 0]
             new == x917_prng_init(p)
             r == source.reads
             k == p.state.key
             t == p.state.step
  <1>1. /\ source \in Sources /\ p.state \in [key : Nat, step : Nat] /\ p.state.key <= source.reads
        /\ Distinct(octets, X917Used(source.reads, p.state.key, p.state.step))
    BY DEF X917Sound
  <1>2. new = [octet_count |-> 0, source |-> drawn.source, status |-> drawn.status, state |-> place]
    BY DEF x917_prng_init
  <1>3. /\ key.source \in Sources /\ key.source.reads \in Nat
        /\ key.status = "ok" => key.source.reads = r + 1
        /\ key.status # "ok" => key.source = source
    <2> HIDE DEF source
    <2>1. QED
      BY <1>1, SourceIsRead
  <1>4. /\ drawn.source \in Sources /\ drawn.source.reads \in Nat
        /\ drawn.status = "ok" => drawn.source.reads = key.source.reads + 1
        /\ drawn.status # "ok" => drawn.source = key.source
    <2> HIDE DEF key
    <2>1. QED
      BY <1>3, SourceIsRead
  <1>5. r \in Nat /\ k \in Nat /\ t \in Nat /\ k <= r
        /\ p.state = [key |-> k, step |-> t]
    BY <1>1 DEF Sources
  <1> HIDE DEF new, drawn, key, source
  <1> DEFINE s == drawn.source.reads
  <1>6. r <= key.source.reads /\ key.source.reads <= s /\ s \in Nat
    BY <1>3, <1>4, <1>5 DEF r
  <1>7. /\ place \in [key : Nat, step : Nat] /\ place.key <= s
        /\ \/ place.key = k /\ place.step = t
           \/ place.key \in Nat /\ r < place.key
    <2> HIDE DEF k, t, r, s
    <2>1. CASE key.status # "ok"
      <3>1. place = [key |-> k, step |-> t]
        BY <1>5, <2>1
      <3> HIDE DEF place
      <3>2. place.key = k /\ place.step = t /\ place \in [key : Nat, step : Nat]
        BY <1>5, <3>1
      <3> HIDE DEF drawn, key, source
      <3>3. QED
        BY <1>3, <1>5, <1>6, <3>2
    <2>2. CASE key.status = "ok" /\ drawn.status # "ok"
      <3>1. place = [key |-> key.source.reads, step |-> t]
        BY <1>5, <2>2
      <3>2. key.source.reads = r + 1
        BY <1>3, <2>2
      <3> HIDE DEF place
      <3>3. QED
        BY <1>3, <1>5, <1>6, <3>1, <3>2
    <2>3. CASE key.status = "ok" /\ drawn.status = "ok"
      <3>1. place = [key |-> key.source.reads, step |-> 0]
        BY <2>3
      <3>2. key.source.reads = r + 1
        BY <1>3, <2>3
      <3> HIDE DEF place
      <3>3. QED
        BY <1>3, <1>5, <1>6, <3>1, <3>2
    <2>4. QED
      BY <2>1, <2>2, <2>3
  <1> HIDE DEF place, s
  <1>8. Distinct(octets, X917Used(s, place.key, place.step))
    <2> DEFINE j == place.key
               u == place.step
    <2>1. (j = k /\ u = t) \/ (j \in Nat /\ r < j)
      BY <1>7
    <2>2. Distinct(octets, X917Used(r, k, t)) /\ r <= s
      BY <1>1, <1>3, <1>4, <1>5, <1>6
    <2> HIDE DEF j, u, k, t, r
    <2>3. X917Used(r, k, t) \subseteq X917Used(s, j, u)
      BY <1>5, <1>6, <2>1, <2>2, X917UsedBefore
    <2>4. QED
      BY <2>2, <2>3, DistinctWiden DEF j, u
  <1>9. new.source = drawn.source /\ new.state = place
        /\ new = [octet_count |-> new.octet_count, source |-> new.source,
                  status |-> new.status, state |-> new.state]
    BY <1>2
  <1>10. X917Sound(new, octets)
    BY <1>4, <1>7, <1>8, <1>9 DEF X917Sound, s
  <1>11. QED
    BY <1>10 DEF new

\* The octets of a call are different, and from the steps that it takes.
LEMMA ChainIsDistinct ==
  ASSUME NEW key \in Nat, NEW step \in Nat, NEW len \in Nat, NEW r \in Nat, key <= r, NEW piece,
         piece = [k \in 1 .. len |-> ChainOctet(key, step + ((k - 1) \div BlockOctets),
                                                (k - 1) % BlockOctets)]
  PROVE  /\ Ceil(len) \in Nat
         /\ Distinct(piece, {o \in X917Used(r, key, step + Ceil(len)) :
                               o.block.key = key /\ step <= o.block.step})
  <1> DEFINE B == BlockOctets
             n == Ceil(len)
             T == {o \in X917Used(r, key, step + n) : o.block.key = key /\ step <= o.block.step}
  <1>1. B \in Nat \ {0}
    BY IcmSizes
  <1>2. n \in Nat /\ len <= B * n
    <2> HIDE DEF B
    <2>1. (len + B - 1) \div B \in Nat /\ len <= B * ((len + B - 1) \div B)
      BY <1>1, Whole
    <2>2. QED
      BY <2>1 DEF Ceil, B
  <1> HIDE DEF n, B, T
  <1>3. \A k \in 1 .. len : /\ (k - 1) \div B \in Nat /\ (k - 1) % B \in Nat
                            /\ (k - 1) = (B * ((k - 1) \div B)) + ((k - 1) % B)
                            /\ (k - 1) \div B < n
    <2> TAKE k \in 1 .. len
    <2> DEFINE j == k - 1
               d == j \div B
    <2>1. j \in Nat /\ j < len
      OBVIOUS
    <2> HIDE DEF j
    <2>2. d \in Nat /\ B * d <= j /\ j = (B * d) + (j % B) /\ j % B \in 0 .. B - 1
      BY <1>1, <2>1, Division
    <2> HIDE DEF d
    <2>3. j % B \in Nat
      BY <1>1, <2>2
    <2>4. d < n
      <3>1. ~(d < n) => B * n <= B * d
        BY <1>1, <1>2, <2>2, Multiples
      <3>2. B * n \in Nat /\ B * d \in Nat
        BY <1>1, <1>2, <2>2, Multiples
      <3>3. QED
        BY <1>2, <2>1, <2>2, <3>1, <3>2
    <2>5. QED
      BY <2>2, <2>3, <2>4 DEF d, j
  <1> DEFINE place(k) == ChainOctet(key, step + ((k - 1) \div B), (k - 1) % B)
  <1>4. \A k \in 1 .. len : place(k) \in T
    <2> TAKE k \in 1 .. len
    <2> DEFINE d == (k - 1) \div B
               i == (k - 1) % B
    <2>1. d \in Nat /\ i \in Nat /\ d < n
      BY <1>3
    <2> HIDE DEF d, i
    <2>2. step + d \in Nat /\ step + d < step + n /\ step <= step + d /\ key \in 0 .. r
      BY <1>2, <2>1
    <2> DEFINE o == ChainOctet(key, step + d, i)
    <2>3. o.block.key = key /\ o.block.step = step + d
      BY DEF ChainOctet
    <2>4. o \in Chains(r)
      BY <2>1, <2>2 DEF Chains
    <2> HIDE DEF o
    <2>5. o \in X917Used(r, key, step + n)
      BY <2>2, <2>3, <2>4 DEF X917Used
    <2>6. o \in T
      BY <2>2, <2>3, <2>5 DEF T
    <2>7. QED
      BY <2>6 DEF o, d, i
  <1>5. piece = [k \in 1 .. len |-> place(k)]
    BY DEF B
  <1>6. piece \in [1 .. len -> T] /\ \A k \in 1 .. len : piece[k] = place(k)
    <2> HIDE DEF place
    <2>1. QED
      BY <1>4, <1>5
  <1>7. piece \in Seq(T) /\ Len(piece) = len
    <2>1. piece \in Seq(T)
      BY <1>6
    <2>2. DOMAIN piece = 1 .. len
      BY <1>6
    <2>3. QED
      BY <2>1, <2>2, LenProperties
  <1>8. ASSUME NEW i \in 1 .. len, NEW j \in 1 .. len, piece[i] = piece[j] PROVE i = j
    <2> DEFINE a == (i - 1) \div B
               b == (j - 1) \div B
               x == (i - 1) % B
               y == (j - 1) % B
    <2>1. ChainOctet(key, step + a, x) = ChainOctet(key, step + b, y)
      BY <1>6, <1>8
    <2>2. /\ a \in Nat /\ b \in Nat /\ x \in Nat /\ y \in Nat
          /\ i - 1 = (B * a) + x /\ j - 1 = (B * b) + y
      BY <1>3
    <2> HIDE DEF a, b, x, y
    <2>3. step + a = step + b /\ x = y
      BY <2>1 DEF ChainOctet
    <2>4. a = b
      BY <2>2, <2>3
    <2>5. i - 1 = j - 1
      BY <2>2, <2>3, <2>4
    <2>6. QED
      BY <2>5
  <1>9. Distinct(piece, T)
    BY <1>7, <1>8 DEF Distinct
  <1>10. QED
    BY <1>2, <1>9 DEF n, T

LEMMA X917Get ==
  ASSUME NEW p, NEW octets, X917Sound(p, octets), NEW len \in Nat
  PROVE  LET r == x917_prng_get_octet_string(p, len)
         IN  X917Sound(r.p, octets \o r.octets)
  <1> DEFINE begun == IF p.octet_count > MAX_PRNG_OUT_LEN - len THEN x917_prng_init(p)
                      ELSE [p EXCEPT !.status = "ok"]
             at(n) == [begun.state EXCEPT !.step = @ + n]
             piece == [k \in 1 .. len |-> [block |-> at((k - 1) \div BlockOctets),
                                           octet |-> (k - 1) % BlockOctets]]
             given == x917_prng_get_octet_string(p, len)
  <1>1. given = IF begun.status # "ok" THEN [p |-> begun, octets |-> <<>>]
                 ELSE [p |-> [begun EXCEPT !.octet_count = @ + len, !.state = at(Ceil(len))],
                       octets |-> piece]
    BY DEF x917_prng_get_octet_string
  <1>2. X917Sound(begun, octets)
    <2>1. CASE p.octet_count > MAX_PRNG_OUT_LEN - len
      <3>1. begun = x917_prng_init(p)
        BY <2>1
      <3> HIDE DEF begun
      <3>2. QED
        BY <3>1, X917Init
    <2>2. CASE ~(p.octet_count > MAX_PRNG_OUT_LEN - len)
      <3>1. begun = [p EXCEPT !.status = "ok"]
        BY <2>2
      <3> HIDE DEF begun
      <3>2. p = [octet_count |-> p.octet_count, source |-> p.source, status |-> p.status,
                 state |-> p.state]
        BY DEF X917Sound
      <3>3. begun = [octet_count |-> p.octet_count, source |-> p.source, status |-> "ok",
                     state |-> p.state]
        BY <3>1, <3>2
      <3>4. begun.source = p.source /\ begun.state = p.state
            /\ begun = [octet_count |-> begun.octet_count, source |-> begun.source,
                        status |-> begun.status, state |-> begun.state]
        BY <3>3
      <3>5. QED
        BY <3>4 DEF X917Sound
    <2>3. QED
      BY <2>1, <2>2
  <1> HIDE DEF begun
  <1> DEFINE key == begun.state.key
             step == begun.state.step
             r == begun.source.reads
             n == Ceil(len)
  <1>3. /\ begun = [octet_count |-> begun.octet_count, source |-> begun.source,
                    status |-> begun.status, state |-> begun.state]
        /\ begun.source \in Sources /\ r \in Nat
        /\ key \in Nat /\ step \in Nat /\ key <= r
        /\ begun.state = [key |-> key, step |-> step]
        /\ Distinct(octets, X917Used(r, key, step))
    BY <1>2 DEF X917Sound, Sources
  <1>4. \A m : at(m) = [key |-> key, step |-> step + m]
    <2> HIDE DEF key, step
    <2>1. QED
      BY <1>3
  <1> HIDE DEF at
  <1>5. piece = [k \in 1 .. len |-> ChainOctet(key, step + ((k - 1) \div BlockOctets),
                                               (k - 1) % BlockOctets)]
    <2> HIDE DEF key, step
    <2>1. QED
      BY <1>4, Zenon DEF ChainOctet
  <1> HIDE DEF piece, given
  <1>6. octets \o <<>> = octets
    BY <1>3, ConcatEmptySeq DEF Distinct
  <1>7. CASE begun.status # "ok"
    <2>1. given.p = begun /\ given.octets = <<>>
      BY <1>1, <1>7
    <2>2. QED
      BY <1>2, <1>6, <2>1 DEF given
  <1>8. CASE begun.status = "ok"
    <2>1. given.p = [begun EXCEPT !.octet_count = @ + len, !.state = at(n)]
          /\ given.octets = piece
      BY <1>1, <1>8
    <2>2. given.p = [octet_count |-> begun.octet_count + len, source |-> begun.source,
                      status |-> begun.status, state |-> at(n)]
      BY <1>3, <2>1
    <2>3. given.p.source = begun.source /\ given.p.state = [key |-> key, step |-> step + n]
          /\ given.p = [octet_count |-> given.p.octet_count, source |-> given.p.source,
                         status |-> given.p.status, state |-> given.p.state]
      BY <1>4, <2>2
    <2> DEFINE old == X917Used(r, key, step)
               all == X917Used(r, key, step + n)
               new == {o \in all : o.block.key = key /\ step <= o.block.step}
    <2> HIDE DEF key, step, r
    <2>4. n \in Nat /\ Distinct(piece, new)
      BY <1>3, <1>5, ChainIsDistinct
    <2> HIDE DEF n
    <2>5. old \cap new = {}
      <3> SUFFICES ASSUME NEW o \in old, o \in new PROVE FALSE
        OBVIOUS
      <3>1. o.block.key = key /\ step <= o.block.step /\ o.block.step < step
        BY DEF X917Used
      <3>2. o.block.step \in Nat
        BY DEF X917Used, Chains, ChainOctet
      <3> HIDE DEF old, new
      <3>3. QED
        BY <1>3, <3>1, <3>2
    <2>6. old \subseteq all
      <3> SUFFICES ASSUME NEW o \in old PROVE o \in all
        OBVIOUS
      <3>1. o.block.step \in Nat
        BY DEF X917Used, Chains, ChainOctet
      <3>2. o.block.key = key => o.block.step < step
        BY DEF X917Used
      <3>3. o.block.key = key => o.block.step < step + n
        BY <1>3, <2>4, <3>1, <3>2
      <3>4. QED
        BY <3>3 DEF X917Used
    <2>7. new \subseteq all
      OBVIOUS
    <2> HIDE DEF old, new, all
    <2>8. Distinct(octets \o piece, all)
      BY <1>3, <2>4, <2>5, <2>6, <2>7, DistinctJoin DEF old
    <2>9. given.p.state.key = key /\ given.p.state.step = step + n
          /\ given.p.state \in [key : Nat, step : Nat]
      BY <1>3, <2>3, <2>4
    <2>10. X917Sound(given.p, octets \o given.octets)
      BY <1>3, <2>1, <2>3, <2>8, <2>9 DEF X917Sound, r, all
    <2>11. QED
      BY <2>10 DEF given
  <1>9. QED
    BY <1>7, <1>8

\* What calls of the generator of X9.17 yield, one after the other.
X917Draws(f, n, generator, lens) ==
  f = [k \in 0 .. n |-> IF k = 0 THEN [p |-> generator, octets |-> <<>>]
                      ELSE Yielding(f[k - 1], x917_prng_get_octet_string(f[k - 1].p, lens[k]))]

LEMMA X917DrawsExist ==
  ASSUME NEW n \in Nat, NEW generator, NEW lens
  PROVE  \E f : X917Draws(f, n, generator, lens)
  <1> DEFINE S == {m \in 0 .. n : \E f : X917Draws(f, m, generator, lens)}
  <1>1. 0 \in S
    <2>1. X917Draws([k \in 0 .. 0 |-> [p |-> generator, octets |-> <<>>]], 0, generator, lens)
      BY DEF X917Draws
    <2>2. QED
      BY <2>1
  <1>2. ASSUME NEW m \in 0 .. n - 1, m \in S PROVE m + 1 \in S
    <2>1. PICK f : X917Draws(f, m, generator, lens)
      BY <1>2
    <2> DEFINE e == [k \in 0 .. m + 1 |->
                      IF k = m + 1 THEN Yielding(f[m], x917_prng_get_octet_string(f[m].p, lens[m + 1]))
                      ELSE f[k]]
    <2>2. ASSUME NEW k \in 0 .. m + 1
          PROVE  e[k] = IF k = 0 THEN [p |-> generator, octets |-> <<>>]
                         ELSE Yielding(e[k - 1], x917_prng_get_octet_string(e[k - 1].p, lens[k]))
      <3>1. CASE k = m + 1
        <4>1. k # 0 /\ k - 1 = m /\ m \in 0 .. m + 1 /\ m # m + 1
          BY <3>1
        <4>2. e[k] = Yielding(f[m], x917_prng_get_octet_string(f[m].p, lens[k])) /\ e[m] = f[m]
          BY <3>1, <4>1
        <4> HIDE DEF e
        <4>3. QED
          BY <4>1, <4>2
      <3>2. CASE k # m + 1
        <4>1. k \in 0 .. m /\ (k # 0 => k - 1 \in 0 .. m /\ k - 1 # m + 1)
          BY <3>2
        <4>2. f[k] = IF k = 0 THEN [p |-> generator, octets |-> <<>>]
                     ELSE Yielding(f[k - 1], x917_prng_get_octet_string(f[k - 1].p, lens[k]))
          BY <2>1, <4>1 DEF X917Draws
        <4>3. e[k] = f[k] /\ (k # 0 => e[k - 1] = f[k - 1])
          BY <3>2, <4>1
        <4> HIDE DEF e
        <4>4. QED
          BY <4>2, <4>3
      <3>3. QED
        BY <3>1, <3>2
    <2>3. e = [k \in 0 .. m + 1 |-> e[k]]
      OBVIOUS
    <2> HIDE DEF e
    <2>4. X917Draws(e, m + 1, generator, lens)
      BY <2>2, <2>3 DEF X917Draws
    <2>5. m + 1 \in 0 .. n
      OBVIOUS
    <2>6. QED
      BY <2>4, <2>5
  <1>3. n \in S
    <2>1. n \in 0 .. n
      OBVIOUS
    <2> HIDE DEF S
    <2>2. QED
      BY <1>1, <1>2, <2>1, Induction
  <1>4. QED
    BY <1>3

\* What the generator of X9.17 yields in the end, whatever it is asked for.
LEMMA X917Drawn ==
  ASSUME NEW p, NEW octets, octets = <<>>, X917Sound(p, octets),
         work.lens \in Seq(Nat)
  PROVE  Cardinality(Range(Drawn(p, x917_prng_get_octet_string)))
           = Len(Drawn(p, x917_prng_get_octet_string))
  <1> DEFINE lens == work.lens
             n == Len(lens)
             f == CHOOSE h : h = [i \in 0 .. n |->
                    IF i = 0 THEN [p |-> p, octets |-> <<>>]
                    ELSE Yielding(h[i - 1], x917_prng_get_octet_string(h[i - 1].p, lens[i]))]
             drawn == Drawn(p, x917_prng_get_octet_string)
  <1>1. drawn = f[n].octets
    BY DEF Drawn
  <1>2. n \in Nat /\ \A i \in 1 .. n : lens[i] \in Nat
    BY LenProperties, ElementOfSeq
  <1>3. X917Draws(f, n, p, lens)
    <2>1. \E h : X917Draws(h, n, p, lens)
      BY <1>2, X917DrawsExist
    <2>2. QED
      BY <2>1, Zenon DEF X917Draws
  <1> HIDE DEF f, n, lens, drawn
  <1> DEFINE S == {i \in 0 .. n : X917Sound(f[i].p, f[i].octets)}
  <1>4. 0 \in S
    <2>1. f[0] = [p |-> p, octets |-> <<>>] /\ 0 \in 0 .. n
      BY <1>2, <1>3 DEF X917Draws
    <2>2. X917Sound(f[0].p, f[0].octets)
      BY <2>1
    <2>3. QED
      BY <2>1, <2>2
  <1>5. ASSUME NEW i \in 0 .. n - 1, i \in S PROVE i + 1 \in S
    <2>1. i + 1 \in 0 .. n /\ i + 1 \in 1 .. n /\ i + 1 # 0 /\ (i + 1) - 1 = i
      BY <1>2
    <2> DEFINE r == x917_prng_get_octet_string(f[i].p, lens[i + 1])
    <2>2. f[i + 1] = [p |-> r.p, octets |-> f[i].octets \o r.octets]
      BY <1>3, <2>1 DEF X917Draws, Yielding
    <2>3. X917Sound(f[i].p, f[i].octets)
      BY <1>5
    <2>4. lens[i + 1] \in Nat
      BY <1>2, <2>1
    <2> DEFINE len == lens[i + 1]
               a == f[i].p
               b == f[i].octets
    <2> HIDE DEF len, a, b
    <2>5. X917Sound(r.p, b \o r.octets)
      BY <2>3, <2>4, X917Get DEF len, a, b
    <2> HIDE DEF r
    <2>6. X917Sound(f[i + 1].p, f[i + 1].octets)
      BY <2>2, <2>5 DEF b
    <2>7. QED
      BY <2>1, <2>6
  <1>6. n \in S
    <2>1. n \in 0 .. n
      BY <1>2
    <2> HIDE DEF S
    <2>2. QED
      BY <1>2, <1>4, <1>5, <2>1, Induction
  <1>7. X917Sound(f[n].p, f[n].octets)
    BY <1>6
  <1>8. QED
    BY <1>1, <1>7, DistinctCount DEF X917Sound, drawn

LEMMA PieceOfFirst ==
  ASSUME NEW S, NEW s \in Seq(S), NEW t \in Seq(S), NEW p \in 0 .. Len(s), NEW q \in p .. Len(s)
  PROVE  SubSeq(s \o t, p + 1, q) = SubSeq(s, p + 1, q)
  <1>1. Len(s) \in Nat
    BY LenProperties
  <1>2. CASE p = q
    <2>1. q < p + 1 /\ p + 1 \in Int /\ q \in Int
      BY <1>1, <1>2
    <2>2. QED
      BY <2>1, SubSeqEmpty
  <1>3. CASE p # q
    <2>1. p + 1 \in 1 .. Len(s) /\ q \in 1 .. Len(s)
      BY <1>1, <1>3
    <2>2. QED
      BY <2>1, SubSeqOfConcat1
  <1>4. QED
    BY <1>2, <1>3

LEMMA BlocksAdd ==
  ASSUME NEW m \in Nat, NEW k \in Nat
  PROVE  LET b == m \div 64
             c == ((m - (64 * b)) + k) \div 64
         IN  64 * b <= m /\ (m + k) \div 64 = b + c /\ 64 * (b + c) <= m + k
  <1> DEFINE b == m \div 64
             y == (m - (64 * b)) + k
             c == y \div 64
  <1>1. b \in Nat /\ 64 * b <= m /\ m < (64 * b) + 64
    OBVIOUS
  <1>2. y \in Nat
    BY <1>1
  <1>3. c \in Nat /\ 64 * c <= y /\ y < (64 * c) + 64
    <2> HIDE DEF y
    <2>1. QED
      BY <1>2
  <1> HIDE DEF c, b
  <1>4. 64 * (b + c) <= m + k /\ m + k < (64 * (b + c)) + 64
    BY <1>1, <1>3
  <1>5. (m + k) \div 64 = b + c
    BY <1>1, <1>3, <1>4
  <1>6. QED
    BY <1>1, <1>4, <1>5 DEF b, c

LEMMA PieceOfRest ==
  ASSUME NEW S, NEW w \in Seq(S), NEW p \in 0 .. Len(w),
         NEW k \in 0 .. Len(w) - p, NEW l \in k .. Len(w) - p
  PROVE  SubSeq(SubSeq(w, p + 1, Len(w)), k + 1, l) = SubSeq(w, p + k + 1, p + l)
  <1>1. Len(w) \in p .. Len(w)
    BY LenProperties
  <1>2. QED
    BY <1>1, PieceOfPiece

LEMMA BlockOfRest ==
  ASSUME NEW S, NEW w \in Seq(S), NEW b \in Nat, NEW c \in Nat, 64 * (b + c) <= Len(w),
         NEW i \in 1 .. c
  PROVE  SubSeq(SubSeq(w, (64 * b) + 1, Len(w)), (64 * i) - 63, 64 * i)
           = SubSeq(w, (64 * (b + i)) - 63, 64 * (b + i))
  <1> DEFINE p == 64 * b
             k == (64 * i) - 64
             l == 64 * i
  <1>1. Len(w) \in Nat
    BY LenProperties
  <1>2. p \in 0 .. Len(w) /\ k \in 0 .. Len(w) - p /\ l \in k .. Len(w) - p
    BY <1>1
  <1>3. /\ k + 1 = (64 * i) - 63 /\ p + k + 1 = (64 * (b + i)) - 63
        /\ p + l = 64 * (b + i)
    OBVIOUS
  <1> HIDE DEF p, k, l
  <1>4. SubSeq(SubSeq(w, p + 1, Len(w)), k + 1, l) = SubSeq(w, p + k + 1, p + l)
    BY <1>2, PieceOfRest
  <1>5. QED
    BY <1>3, <1>4 DEF p, l

-----------------------------------------------------------------------------
(* The hash in pieces.                                                      *)

\* The state vector after the blocks of ALL, one after the other, from H on.
BlockLoop(f, n, all, h) ==
  f = [k \in 0 .. n |-> IF k = 0 THEN h ELSE sha1_core(SubSeq(all, (64 * k) - 63, 64 * k), f[k - 1])]

LEMMA BlockLoopExists ==
  ASSUME NEW n \in Nat, NEW all, NEW h
  PROVE  \E f : BlockLoop(f, n, all, h)
  <1> DEFINE S == {m \in 0 .. n : \E f : BlockLoop(f, m, all, h)}
  <1>1. 0 \in S
    <2>1. BlockLoop([k \in 0 .. 0 |-> h], 0, all, h)
      BY DEF BlockLoop
    <2>2. QED
      BY <2>1
  <1>2. ASSUME NEW m \in 0 .. n - 1, m \in S PROVE m + 1 \in S
    <2>1. PICK f : BlockLoop(f, m, all, h)
      BY <1>2
    <2> DEFINE e == [k \in 0 .. m + 1 |-> IF k = m + 1 THEN sha1_core(SubSeq(all, (64 * (m + 1)) - 63, 64 * (m + 1)), f[m]) ELSE f[k]]
    <2>2. ASSUME NEW k \in 0 .. m + 1
          PROVE  e[k] = IF k = 0 THEN h ELSE sha1_core(SubSeq(all, (64 * k) - 63, 64 * k), e[k - 1])
      <3>1. CASE k = m + 1
        <4>1. k # 0 /\ k - 1 = m /\ m \in 0 .. m + 1 /\ m # m + 1
          BY <3>1
        <4>2. e[k] = sha1_core(SubSeq(all, (64 * k) - 63, 64 * k), f[m]) /\ e[m] = f[m]
          BY <3>1, <4>1
        <4> HIDE DEF e
        <4>3. QED
          BY <4>1, <4>2
      <3>2. CASE k # m + 1
        <4>1. k \in 0 .. m /\ (k # 0 => k - 1 \in 0 .. m /\ k - 1 # m + 1)
          BY <3>2
        <4>2. f[k] = IF k = 0 THEN h ELSE sha1_core(SubSeq(all, (64 * k) - 63, 64 * k), f[k - 1])
          BY <2>1, <4>1 DEF BlockLoop
        <4>3. e[k] = f[k] /\ (k # 0 => e[k - 1] = f[k - 1])
          BY <3>2, <4>1
        <4> HIDE DEF e
        <4>4. QED
          BY <4>2, <4>3
      <3>3. QED
        BY <3>1, <3>2
    <2>3. e = [k \in 0 .. m + 1 |-> e[k]]
      OBVIOUS
    <2> HIDE DEF e
    <2>4. BlockLoop(e, m + 1, all, h)
      BY <2>2, <2>3 DEF BlockLoop
    <2>5. m + 1 \in 0 .. n
      OBVIOUS
    <2>6. QED
      BY <2>4, <2>5
  <1>3. n \in S
    <2>1. n \in 0 .. n
      OBVIOUS
    <2> HIDE DEF S
    <2>2. QED
      BY <1>1, <1>2, <2>1, Induction
  <1>4. QED
    BY <1>3

\* A call of sha1_update runs the loop over all the full blocks and keeps the rest.
LEMMA UpdateLoops ==
  ASSUME NEW ctx, NEW msg, NEW n \in Nat, n = Len(ctx.buffer \o msg) \div 64
  PROVE  \E f : /\ BlockLoop(f, n, ctx.buffer \o msg, ctx.H)
                /\ sha1_update(ctx, msg)
                     = [H |-> f[n],
                        buffer |-> SubSeq(ctx.buffer \o msg, (64 * n) + 1,
                                          Len(ctx.buffer \o msg)),
                        num_bits_in_msg |-> ctx.num_bits_in_msg + (8 * Len(msg))]
  <1> DEFINE all == ctx.buffer \o msg
             f == CHOOSE f : f = [b \in 0 .. Len(all) \div 64 |->
                                    IF b = 0 THEN ctx.H
                                    ELSE LET before == f[b - 1]
                                         IN  sha1_core(SubSeq(all, (64 * b) - 63, 64 * b),
                                                       before)]
  <1>1. sha1_update(ctx, msg)
          = [H |-> f[Len(all) \div 64],
             buffer |-> SubSeq(all, (64 * (Len(all) \div 64)) + 1, Len(all)),
             num_bits_in_msg |-> ctx.num_bits_in_msg + (8 * Len(msg))]
    BY DEF sha1_update
  <1>2. BlockLoop(f, Len(all) \div 64, all, ctx.H)
    <2>1. \E g : BlockLoop(g, Len(all) \div 64, all, ctx.H)
      BY BlockLoopExists
    <2>2. QED
      BY <2>1, Zenon DEF BlockLoop
  <1> HIDE DEF f
  <1>3. QED
    BY <1>1, <1>2

\* Where the blocks of a sequence go on with those of what is put behind it.
Splits(S, w, z, r, rest, b, c) ==
  /\ w \in Seq(S) /\ z \in Seq(S) /\ r \in Seq(S) /\ rest \in Seq(S) /\ b \in Nat /\ c \in Nat
  /\ w = z \o r /\ rest = SubSeq(w, (64 * b) + 1, Len(w))
  /\ Len(w) \div 64 = b + c /\ 64 * b <= Len(z) /\ 64 * (b + c) <= Len(w)

LEMMA BlocksGoOn ==
  ASSUME NEW S, NEW z \in Seq(S), NEW r \in Seq(S)
  PROVE  LET b    == Len(z) \div 64
             rest == SubSeq(z, (64 * b) + 1, Len(z)) \o r
         IN  Splits(S, z \o r, z, r, rest, b, Len(rest) \div 64)
  <1> DEFINE b0 == Len(z) \div 64
             rest0 == SubSeq(z, (64 * b0) + 1, Len(z)) \o r
             c0 == Len(rest0) \div 64
  <1>1. b0 \in Nat
    BY LenProperties
  <1>2. c0 \in Nat
    <2>1. Len(z) \in Nat /\ 64 * b0 \in 0 .. Len(z) /\ Len(z) \in 64 * b0 .. Len(z)
      BY LenProperties
    <2> DEFINE p == 64 * b0
    <2>2. SubSeq(z, p + 1, Len(z)) \in Seq(S)
      <3>1. p \in 0 .. Len(z) /\ Len(z) \in p .. Len(z)
        BY <2>1
      <3> HIDE DEF p
      <3>2. QED
        BY <3>1, PieceOf
    <2>3. rest0 \in Seq(S)
      BY <2>2, ConcatProperties
    <2> HIDE DEF rest0
    <2>4. QED
      BY <2>3, LenProperties
  <1>3. b0 = Len(z) \div 64 /\ c0 = Len(SubSeq(z, (64 * b0) + 1, Len(z)) \o r) \div 64
    OBVIOUS
  <1> HIDE DEF b0, c0
  <1>4. /\ z \o r \in Seq(S) /\ 64 * b0 <= Len(z)
        /\ SubSeq(z, (64 * b0) + 1, Len(z)) \o r \in Seq(S)
        /\ SubSeq(z, (64 * b0) + 1, Len(z)) \o r
             = SubSeq(z \o r, (64 * b0) + 1, Len(z \o r))
        /\ Len(z \o r) \div 64 = b0 + c0 /\ 64 * (b0 + c0) <= Len(z \o r)
    <2>1. /\ Len(z) \in Nat /\ Len(r) \in Nat
          /\ z \o r \in Seq(S) /\ Len(z \o r) = Len(z) + Len(r)
      BY LenProperties, ConcatProperties
    <2>2. 64 * b0 \in 0 .. Len(z)
      BY <2>1, <1>1, <1>3
    <2> DEFINE p == 64 * b0
               w == z \o r
               later == SubSeq(z, p + 1, Len(z))
    <2>3. later \in Seq(S) /\ Len(later) = Len(z) - p
      <3>1. p \in 0 .. Len(z) /\ Len(z) \in p .. Len(z)
        BY <2>1, <2>2
      <3> HIDE DEF p
      <3>2. QED
        BY <3>1, PieceOf
    <2>4. later = SubSeq(w, p + 1, Len(z))
      <3>1. p \in 0 .. Len(z) /\ Len(z) \in p .. Len(z)
        BY <2>1, <2>2
      <3> HIDE DEF p
      <3>2. QED
        BY <3>1, PieceOfFirst
    <2>5. r = SubSeq(w, Len(z) + 1, Len(w))
      <3>1. Len(z) + 1 \in Len(z) + 1 .. Len(z) + Len(r) + 1
            /\ Len(w) \in (Len(z) + 1) - 1 .. Len(z) + Len(r)
        BY <2>1
      <3>2. SubSeq(z \o r, Len(z) + 1, Len(z \o r))
              = SubSeq(r, (Len(z) + 1) - Len(z), Len(z \o r) - Len(z))
        BY <3>1, SubSeqOfConcat2
      <3>3. (Len(z) + 1) - Len(z) = 1 /\ Len(z \o r) - Len(z) = Len(r)
        BY <2>1
      <3>4. QED
        BY <3>2, <3>3, SubSeqFull
    <2>6. later \o r = SubSeq(w, p + 1, Len(w))
      <3>1. /\ p \in 0 .. Len(w) /\ Len(z) \in p .. Len(w) /\ Len(w) \in Len(z) .. Len(w)
            /\ w \in Seq(S)
        BY <2>1, <2>2
      <3> HIDE DEF w, p, later
      <3>2. SubSeq(w, p + 1, Len(z)) \o SubSeq(w, Len(z) + 1, Len(w)) = SubSeq(w, p + 1, Len(w))
        BY <3>1, PiecesJoin
      <3>3. QED
        BY <2>4, <2>5, <3>2
    <2>7. Len(later \o r) = (Len(z) - p) + Len(r)
      <3> HIDE DEF later
      <3>1. Len(later \o r) = Len(later) + Len(r)
        BY <2>3, ConcatProperties
      <3>2. QED
        BY <2>3, <3>1
    <2>8. c0 = ((Len(z) - (64 * b0)) + Len(r)) \div 64
      BY <2>7, <1>3
    <2>9. 64 * b0 <= Len(z) /\ (Len(z) + Len(r)) \div 64 = b0 + c0 /\ 64 * (b0 + c0) <= Len(z) + Len(r)
      <3> DEFINE m == Len(z)
                 k == Len(r)
      <3>1. m \in Nat /\ k \in Nat /\ b0 = m \div 64 /\ c0 = ((m - (64 * b0)) + k) \div 64
        BY <2>1, <2>8, <1>1, <1>3
      <3> HIDE DEF m, k, p, w, later
      <3>2. 64 * b0 <= m /\ (m + k) \div 64 = b0 + c0 /\ 64 * (b0 + c0) <= m + k
        BY <3>1, BlocksAdd
      <3>3. QED
        BY <3>2 DEF m, k
    <2> HIDE DEF p, w, later
    <2>12. later \o r \in Seq(S)
      BY <2>3, ConcatProperties
    <2>10. /\ z \o r \in Seq(S) /\ Len(z \o r) = Len(z) + Len(r)
           /\ 64 * b0 <= Len(z) /\ Len(z \o r) \div 64 = b0 + c0 /\ 64 * (b0 + c0) <= Len(z \o r)
      BY <2>1, <2>9 DEF w
    <2>11. QED
      BY <2>12, <2>6, <2>10 DEF p, w, later
  <1> HIDE DEF rest0
  <1>5. Splits(S, z \o r, z, r, rest0, b0, c0)
    BY <1>1, <1>2, <1>4 DEF Splits, rest0
  <1>6. QED
    BY <1>5 DEF b0, rest0, c0

\* A loop over the whole passes where the loop over the first part ends, and ends where the
\* loop over the rest does.
LEMMA LoopGoesOn ==
  ASSUME NEW S, NEW w, NEW z, NEW r, NEW rest, NEW b, NEW c, Splits(S, w, z, r, rest, b, c),
         NEW h, NEW f, NEW g, NEW F,
         BlockLoop(f, b, z, h), BlockLoop(g, c, rest, f[b]), BlockLoop(F, b + c, w, h)
  PROVE  F[b + c] = g[c]
  <1> /\ w \in Seq(S) /\ z \in Seq(S) /\ r \in Seq(S) /\ rest \in Seq(S) /\ b \in Nat /\ c \in Nat
      /\ w = z \o r /\ rest = SubSeq(w, (64 * b) + 1, Len(w))
      /\ 64 * b <= Len(z) /\ 64 * (b + c) <= Len(w)
    BY DEF Splits
  <1>1. /\ Len(z) \in Nat /\ Len(w) \in Nat /\ Len(w) = Len(z) + Len(r) /\ Len(r) \in Nat
        /\ b + c \in Nat
    BY LenProperties, ConcatProperties
  <1>2. ASSUME NEW i \in 1 .. b
        PROVE  SubSeq(w, (64 * i) - 63, 64 * i) = SubSeq(z, (64 * i) - 63, 64 * i)
    <2>1. (64 * i) - 63 \in 1 .. Len(z) + 1 /\ 64 * i \in ((64 * i) - 63) - 1 .. Len(z)
      BY <1>1
    <2>2. QED
      BY <2>1, SubSeqOfConcat1
  <1>3. ASSUME NEW i \in 1 .. c
        PROVE  SubSeq(rest, (64 * i) - 63, 64 * i)
                 = SubSeq(w, (64 * (b + i)) - 63, 64 * (b + i))
    BY BlockOfRest, SMTT(30)
  <1>4. f[0] = h /\ g[0] = f[b] /\ F[0] = h
    <2>1. 0 \in 0 .. b /\ 0 \in 0 .. c /\ 0 \in 0 .. b + c
      BY <1>1
    <2>2. QED
      BY <2>1 DEF BlockLoop
  <1>5. ASSUME NEW i \in 1 .. b
        PROVE  f[i] = sha1_core(SubSeq(z, (64 * i) - 63, 64 * i), f[i - 1])
    <2>1. i \in 0 .. b /\ i # 0
      OBVIOUS
    <2>2. QED
      BY <2>1, SMTT(30) DEF BlockLoop
  <1>6. ASSUME NEW i \in 1 .. c
        PROVE  g[i] = sha1_core(SubSeq(rest, (64 * i) - 63, 64 * i), g[i - 1])
    <2>1. i \in 0 .. c /\ i # 0
      OBVIOUS
    <2>2. QED
      BY <2>1 DEF BlockLoop
  <1>7. ASSUME NEW i \in 1 .. b + c
        PROVE  F[i] = sha1_core(SubSeq(w, (64 * i) - 63, 64 * i), F[i - 1])
    <2>1. i \in 0 .. b + c /\ i # 0
      BY <1>1
    <2>2. QED
      BY <2>1 DEF BlockLoop
  <1>8. F[b] = f[b]
    <2> DEFINE T == {i \in 0 .. b : F[i] = f[i]}
    <2>1. 0 \in T
      BY <1>4
    <2>2. ASSUME NEW i \in 0 .. b - 1, i \in T PROVE i + 1 \in T
      <3>1. i + 1 \in 1 .. b /\ i + 1 \in 1 .. b + c /\ (i + 1) - 1 = i /\ i + 1 \in 0 .. b
        BY <1>1
      <3> DEFINE j == i + 1
      <3>2. /\ F[j] = sha1_core(SubSeq(w, (64 * j) - 63, 64 * j), F[i])
            /\ f[j] = sha1_core(SubSeq(z, (64 * j) - 63, 64 * j), f[i])
            /\ SubSeq(w, (64 * j) - 63, 64 * j) = SubSeq(z, (64 * j) - 63, 64 * j)
        <4>1. j \in 1 .. b /\ j \in 1 .. b + c /\ j - 1 = i
          BY <3>1
        <4> HIDE DEF j
        <4>2. QED
          BY <4>1, <1>2, <1>5, <1>7
      <3>3. F[i] = f[i]
        BY <2>2
      <3>4. F[j] = f[j]
        BY <3>2, <3>3
      <3>5. QED
        BY <3>1, <3>4
    <2>3. b \in 0 .. b
      OBVIOUS
    <2> HIDE DEF T
    <2>4. b \in T
      BY <2>1, <2>2, <2>3, Induction
    <2>5. QED
      BY <2>4 DEF T
  <1>9. F[b + c] = g[c]
    <2> DEFINE T == {i \in 0 .. c : F[b + i] = g[i]}
    <2>1. 0 \in T
      <3>1. b + 0 = b
        OBVIOUS
      <3>2. QED
        BY <1>4, <1>8, <3>1
    <2>2. ASSUME NEW i \in 0 .. c - 1, i \in T PROVE i + 1 \in T
      <3> DEFINE j == i + 1
                 k == b + j
      <3>1. /\ j \in 1 .. c /\ k \in 1 .. b + c /\ j - 1 = i /\ k - 1 = b + i
            /\ j \in 0 .. c
        BY <1>1
      <3>2. /\ F[k] = sha1_core(SubSeq(w, (64 * k) - 63, 64 * k), F[b + i])
            /\ g[j] = sha1_core(SubSeq(rest, (64 * j) - 63, 64 * j), g[i])
            /\ SubSeq(rest, (64 * j) - 63, 64 * j) = SubSeq(w, (64 * k) - 63, 64 * k)
        <4>1. SubSeq(rest, (64 * j) - 63, 64 * j) = SubSeq(w, (64 * k) - 63, 64 * k)
          <5> HIDE DEF j
          <5>1. QED
            BY <3>1, <1>3
        <4> HIDE DEF j, k
        <4>2. QED
          BY <3>1, <4>1, <1>6, <1>7
      <3>3. F[b + i] = g[i]
        BY <2>2
      <3>4. F[k] = g[j]
        BY <3>2, <3>3
      <3>5. QED
        BY <3>1, <3>4
    <2>3. c \in 0 .. c
      OBVIOUS
    <2> HIDE DEF T
    <2>4. c \in T
      BY <2>1, <2>2, <2>3, Induction
    <2>5. QED
      BY <2>4 DEF T
  <1>10. QED
    BY <1>9

\* A context whose buffer and count of bits are what they may be.
Context(c, S) == c.buffer \in Seq(S) /\ c.num_bits_in_msg \in Nat

LEMMA UpdateKeeps ==
  ASSUME NEW S, NEW c, Context(c, S), NEW x \in Seq(S)
  PROVE  Context(sha1_update(c, x), S)
  <1> DEFINE all == c.buffer \o x
             n == Len(all) \div 64
  <1>1. c.buffer \in Seq(S) /\ all \in Seq(S) /\ Len(all) \in Nat /\ Len(x) \in Nat
    BY ConcatProperties, LenProperties DEF Context
  <1>2. n \in Nat /\ 64 * n \in 0 .. Len(all) /\ Len(all) \in 64 * n .. Len(all)
    <2> HIDE DEF all
    <2>1. QED
      BY <1>1
  <1>3. SubSeq(all, (64 * n) + 1, Len(all)) \in Seq(S)
    <2> DEFINE p == 64 * n
    <2>1. p \in 0 .. Len(all) /\ Len(all) \in p .. Len(all)
      BY <1>2
    <2> HIDE DEF p, n, all
    <2>2. SubSeq(all, p + 1, Len(all)) \in Seq(S)
      BY <1>1, <2>1, PieceOf
    <2>3. QED
      BY <2>2 DEF p
  <1>4. c.num_bits_in_msg + (8 * Len(x)) \in Nat
    BY <1>1 DEF Context
  <1>5. PICK f : sha1_update(c, x)
                   = [H |-> f[n], buffer |-> SubSeq(all, (64 * n) + 1, Len(all)),
                      num_bits_in_msg |-> c.num_bits_in_msg + (8 * Len(x))]
    <2> HIDE DEF n
    <2>1. n = Len(all) \div 64 /\ n \in Nat
      BY <1>2 DEF n
    <2>2. QED
      BY <2>1, UpdateLoops, ZenonT(30)
  <1> HIDE DEF n, all
  <1>6. QED
    BY <1>3, <1>4, <1>5 DEF Context

\* Two calls of sha1_update come to one with both messages.
LEMMA UpdatesJoin ==
  ASSUME NEW S, NEW ctx, Context(ctx, S), NEW x \in Seq(S), NEW y \in Seq(S)
  PROVE  sha1_update(sha1_update(ctx, x), y) = sha1_update(ctx, x \o y)
  <1> DEFINE z == ctx.buffer \o x
             b == Len(z) \div 64
             rest == SubSeq(z, (64 * b) + 1, Len(z)) \o y
             c == Len(rest) \div 64
             w == z \o y
             mid == sha1_update(ctx, x)
  <1>1. /\ ctx.buffer \in Seq(S) /\ z \in Seq(S) /\ Len(z) \in Nat
        /\ Len(x) \in Nat /\ Len(y) \in Nat /\ Len(x \o y) = Len(x) + Len(y)
        /\ ctx.num_bits_in_msg \in Nat
    BY ConcatProperties, LenProperties DEF Context
  <1>2. w = ctx.buffer \o (x \o y)
    <2>1. \A s, t, u \in Seq(S) : (s \o t) \o u = s \o (t \o u)
      BY ConcatAssociative, SMTT(30)
    <2>2. (ctx.buffer \o x) \o y = ctx.buffer \o (x \o y)
      BY <1>1, <2>1
    <2>3. QED
      BY <2>2
  <1>3. b \in Nat
    <2> HIDE DEF z
    <2>1. QED
      BY <1>1
  <1>4. PICK f : /\ BlockLoop(f, b, z, ctx.H)
                 /\ mid = [H |-> f[b], buffer |-> SubSeq(z, (64 * b) + 1, Len(z)),
                           num_bits_in_msg |-> ctx.num_bits_in_msg + (8 * Len(x))]
    <2> HIDE DEF b
    <2>1. b = Len(z) \div 64
      BY DEF b
    <2>2. QED
      BY <1>3, <2>1, UpdateLoops
  <1>5. /\ mid.H = f[b] /\ mid.buffer \o y = rest
        /\ mid.num_bits_in_msg = ctx.num_bits_in_msg + (8 * Len(x))
    <2> HIDE DEF mid, z, b
    <2>1. QED
      BY <1>4
  <1>6. rest \in Seq(S) /\ Len(rest) \in Nat
    <2>1. Context(mid, S)
      BY UpdateKeeps
    <2>2. mid.buffer \in Seq(S)
      BY <2>1 DEF Context
    <2> HIDE DEF mid, rest
    <2>3. QED
      BY <1>5, <2>2, ConcatProperties, LenProperties
  <1>7. c \in Nat
    <2> HIDE DEF rest
    <2>1. QED
      BY <1>6
  <1>8. PICK g : /\ BlockLoop(g, c, rest, f[b])
                 /\ sha1_update(mid, y)
                      = [H |-> g[c], buffer |-> SubSeq(rest, (64 * c) + 1, Len(rest)),
                         num_bits_in_msg |-> mid.num_bits_in_msg + (8 * Len(y))]
    <2> HIDE DEF mid, rest, c
    <2>1. c = Len(mid.buffer \o y) \div 64
      BY <1>5 DEF c
    <2>2. PICK g : /\ BlockLoop(g, c, mid.buffer \o y, mid.H)
                   /\ sha1_update(mid, y)
                        = [H |-> g[c],
                           buffer |-> SubSeq(mid.buffer \o y, (64 * c) + 1, Len(mid.buffer \o y)),
                           num_bits_in_msg |-> mid.num_bits_in_msg + (8 * Len(y))]
      BY <1>7, <2>1, UpdateLoops
    <2>3. QED
      BY <1>5, <2>2
  <1>9. Splits(S, w, z, y, rest, b, c)
    <2> HIDE DEF z
    <2>1. z \in Seq(S)
      BY <1>1
    <2>2. QED
      BY <2>1, BlocksGoOn
  <1> HIDE DEF z, b, rest, c, w, mid
  <1>90. /\ w \in Seq(S) /\ 64 * b <= Len(z)
         /\ rest = SubSeq(w, (64 * b) + 1, Len(w))
         /\ Len(w) \div 64 = b + c /\ 64 * (b + c) <= Len(w)
    BY <1>9 DEF Splits
  <1> DEFINE n == b + c
  <1>10. n \in Nat
    BY <1>3, <1>7
  <1>11. PICK F : /\ BlockLoop(F, n, w, ctx.H)
                  /\ sha1_update(ctx, x \o y)
                       = [H |-> F[n], buffer |-> SubSeq(w, (64 * n) + 1, Len(w)),
                          num_bits_in_msg |-> ctx.num_bits_in_msg + (8 * Len(x \o y))]
    <2> HIDE DEF n, w
    <2>1. n = Len(ctx.buffer \o (x \o y)) \div 64
      BY <1>2, <1>90 DEF n, w
    <2>2. PICK F : /\ BlockLoop(F, n, ctx.buffer \o (x \o y), ctx.H)
                   /\ sha1_update(ctx, x \o y)
                        = [H |-> F[n],
                           buffer |-> SubSeq(ctx.buffer \o (x \o y), (64 * n) + 1,
                                             Len(ctx.buffer \o (x \o y))),
                           num_bits_in_msg |-> ctx.num_bits_in_msg + (8 * Len(x \o y))]
      BY <1>10, <2>1, UpdateLoops
    <2>3. QED
      BY <1>2, <2>2 DEF w
  <1>12. F[n] = g[c]
    <2>1. BlockLoop(F, b + c, w, ctx.H)
      BY <1>11
    <2> HIDE DEF n
    <2>2. F[b + c] = g[c]
      BY <1>4, <1>8, <1>9, <2>1, LoopGoesOn
    <2>3. QED
      BY <2>2 DEF n
  <1>13. SubSeq(rest, (64 * c) + 1, Len(rest)) = SubSeq(w, (64 * n) + 1, Len(w))
    <2> DEFINE p == 64 * b
               k == 64 * c
               l == Len(w) - p
    <2>1. Len(w) \in Nat
      BY <1>90, LenProperties
    <2>2. p \in 0 .. Len(w) /\ Len(w) \in p .. Len(w) /\ k \in 0 .. Len(w) - p /\ l \in k .. Len(w) - p
      BY <1>3, <1>7, <1>90, <2>1
    <2>3. p + l = Len(w) /\ p + k + 1 = (64 * n) + 1
      BY <1>3, <1>7, <2>1
    <2> HIDE DEF p, k
    <2>4. rest = SubSeq(w, p + 1, Len(w))
      BY <1>90 DEF p
    <2>5. Len(rest) = l
      BY <1>90, <2>2, <2>4, PieceOf, ZenonT(30)
    <2> HIDE DEF l, n
    <2>6. SubSeq(SubSeq(w, p + 1, Len(w)), k + 1, l) = SubSeq(w, p + k + 1, p + l)
      BY <1>90, <2>2, PieceOfRest
    <2>7. QED
      BY <2>3, <2>4, <2>5, <2>6 DEF k
  <1>14. mid.num_bits_in_msg + (8 * Len(y)) = ctx.num_bits_in_msg + (8 * Len(x \o y))
    BY <1>1, <1>5
  <1>15. sha1_update(mid, y) = sha1_update(ctx, x \o y)
    <2> HIDE DEF n
    <2>1. QED
      BY <1>8, <1>11, <1>12, <1>13, <1>14
  <1>16. QED
    BY <1>15 DEF mid

\* Three pieces of a message leave the context of the whole.
LEMMA ThreeUpdates ==
  ASSUME NEW S, NEW ctx, Context(ctx, S), NEW m \in Seq(S), NEW p \in 0 .. Len(m),
         NEW q \in p .. Len(m)
  PROVE  /\ sha1_update(sha1_update(ctx, SubSeq(m, 1, p)), SubSeq(m, p + 1, Len(m)))
              = sha1_update(ctx, m)
         /\ sha1_update(sha1_update(sha1_update(ctx, SubSeq(m, 1, p)), SubSeq(m, p + 1, q)),
                        SubSeq(m, q + 1, Len(m))) = sha1_update(ctx, m)
  <1>1. /\ Len(m) \in Nat /\ q \in 0 .. Len(m) /\ Len(m) \in q .. Len(m)
        /\ Len(m) \in p .. Len(m) /\ 0 + 1 = 1
    BY LenProperties
  <1> DEFINE z == 0
  <1>2. z \in 0 .. Len(m) /\ p \in z .. Len(m) /\ q \in z .. Len(m) /\ z + 1 = 1
    BY <1>1
  <1> HIDE DEF z
  <1>3. /\ SubSeq(m, 1, p) \in Seq(S) /\ SubSeq(m, p + 1, q) \in Seq(S)
        /\ SubSeq(m, 1, q) \in Seq(S) /\ SubSeq(m, q + 1, Len(m)) \in Seq(S)
        /\ SubSeq(m, p + 1, Len(m)) \in Seq(S)
    <2>1. SubSeq(m, z + 1, p) \in Seq(S) /\ SubSeq(m, z + 1, q) \in Seq(S)
      BY <1>2, PieceOf
    <2>2. /\ SubSeq(m, p + 1, q) \in Seq(S) /\ SubSeq(m, q + 1, Len(m)) \in Seq(S)
          /\ SubSeq(m, p + 1, Len(m)) \in Seq(S)
      BY <1>1, PieceOf
    <2>3. QED
      BY <1>2, <2>1, <2>2
  <1>4. /\ SubSeq(m, 1, p) \o SubSeq(m, p + 1, q) = SubSeq(m, 1, q)
        /\ SubSeq(m, 1, q) \o SubSeq(m, q + 1, Len(m)) = m
        /\ SubSeq(m, 1, p) \o SubSeq(m, p + 1, Len(m)) = m
    <2>1. /\ SubSeq(m, z + 1, p) \o SubSeq(m, p + 1, q) = SubSeq(m, z + 1, q)
          /\ SubSeq(m, z + 1, q) \o SubSeq(m, q + 1, Len(m)) = SubSeq(m, z + 1, Len(m))
          /\ SubSeq(m, z + 1, p) \o SubSeq(m, p + 1, Len(m)) = SubSeq(m, z + 1, Len(m))
      BY <1>1, <1>2, PiecesJoin
    <2>2. SubSeq(m, 1, Len(m)) = m
      BY SubSeqFull
    <2>3. QED
      BY <1>2, <2>1, <2>2
  <1> DEFINE Joins(x, y) ==
               sha1_update(sha1_update(ctx, x), y) = sha1_update(ctx, x \o y)
  <1>9. \A x, y \in Seq(S) : Joins(x, y)
    BY UpdatesJoin
  <1>10. /\ Joins(SubSeq(m, 1, p), SubSeq(m, p + 1, q))
         /\ Joins(SubSeq(m, 1, q), SubSeq(m, q + 1, Len(m)))
         /\ Joins(SubSeq(m, 1, p), SubSeq(m, p + 1, Len(m)))
    <2> HIDE DEF Joins
    <2>1. QED
      BY <1>3, <1>9
  <1>5. sha1_update(sha1_update(ctx, SubSeq(m, 1, p)), SubSeq(m, p + 1, q))
          = sha1_update(ctx, SubSeq(m, 1, q))
    BY <1>4, <1>10
  <1>6. sha1_update(sha1_update(ctx, SubSeq(m, 1, q)), SubSeq(m, q + 1, Len(m)))
          = sha1_update(ctx, m)
    BY <1>4, <1>10
  <1>7. sha1_update(sha1_update(ctx, SubSeq(m, 1, p)), SubSeq(m, p + 1, Len(m)))
          = sha1_update(ctx, m)
    BY <1>4, <1>10
  <1>8. QED
    BY <1>5, <1>6, <1>7

LEMMA TagIsCut ==
  ASSUME NEW outer
  PROVE  SubSeq(sha1_final(outer), 1, 12) = SubSeq(SubSeq(sha1_final(outer), 1, 20), 1, 12)
  <1>1. PICK H : sha1_final(outer) = octetsOf(H)
    BY DEF sha1_final
  <1> DEFINE s == octetsOf(H)
             S == {s[i] : i \in 1 .. 20}
  <1>2. s \in Seq(S) /\ Len(s) = 20
    <2>1. s = [i \in 1 .. 20 |-> s[i]]
      BY DEF octetsOf
    <2> HIDE DEF s
    <2>2. \A i \in 1 .. 20 : s[i] \in S
      OBVIOUS
    <2> HIDE DEF S
    <2>3. QED
      BY <2>1, <2>2
  <1> HIDE DEF s, S
  <1>3. SubSeq(s, 1, 20) = s
    BY <1>2, SubSeqFull
  <1>4. QED
    BY <1>1, <1>3 DEF s

\* The tag over a message does not depend on the message being cut in two, nor on the
\* context having been used.
LEMMA TagOfPieces ==
  ASSUME NEW S, NEW key, Context(hmac_init(key).init_ctx, S), NEW m \in Seq(S),
         NEW p \in 0 .. Len(m)
  PROVE  LET whole == hmac_compute(hmac_start(hmac_init(key)), m, 20)
             used == hmac_compute(hmac_update(hmac_start(hmac_init(key)), SubSeq(m, 1, p)),
                                  SubSeq(m, p + 1, Len(m)), 20)
         IN  /\ used.tag = whole.tag
             /\ hmac_compute(hmac_start(used.state), m, 12).tag = SubSeq(whole.tag, 1, 12)
  <1> DEFINE k == hmac_init(key)
             x == SubSeq(m, 1, p)
             y == SubSeq(m, p + 1, Len(m))
             whole == hmac_compute(hmac_start(k), m, 20)
             half_way == hmac_update(hmac_start(k), x)
             used == hmac_compute(half_way, y, 20)
             outer == sha1_update(sha1_update(sha1_init, k.opad),
                                  sha1_final(sha1_update(k.init_ctx, m)))
  <1>1. k = [opad |-> k.opad, init_ctx |-> k.init_ctx, ctx |-> k.init_ctx]
    BY DEF hmac_init, keyed
  <1>2. sha1_update(sha1_update(k.init_ctx, x), y) = sha1_update(k.init_ctx, m)
    <2>1. Len(m) \in p .. Len(m)
      BY LenProperties
    <2>2. QED
      BY <2>1, ThreeUpdates
  <1> HIDE DEF k, x, y
  <1>3. hmac_start(k) = k
    BY <1>1 DEF hmac_start
  <1>4. whole.tag = SubSeq(sha1_final(outer), 1, 20)
    BY <1>1, <1>3 DEF hmac_compute, hmac_update, tagged
  <1>5. half_way = [opad |-> k.opad, init_ctx |-> k.init_ctx, ctx |-> sha1_update(k.init_ctx, x)]
    BY <1>1, <1>3 DEF hmac_update
  <1> HIDE DEF half_way
  <1>6. hmac_update(half_way, y).ctx = sha1_update(k.init_ctx, m)
    BY <1>2, <1>5 DEF hmac_update
  <1>7. used.tag = SubSeq(sha1_final(outer), 1, 20)
    BY <1>5, <1>6 DEF hmac_compute, tagged
  <1>8. hmac_start(used.state) = k
    <2>1. PICK e : used.state = [half_way EXCEPT !.ctx = e]
      BY DEF hmac_compute, tagged
    <2>2. used.state = [opad |-> k.opad, init_ctx |-> k.init_ctx, ctx |-> e]
      BY <1>5, <2>1
    <2> HIDE DEF used
    <2>3. QED
      BY <1>1, <2>2 DEF hmac_start
  <1>9. hmac_compute(hmac_start(used.state), m, 12).tag = SubSeq(sha1_final(outer), 1, 12)
    <2> HIDE DEF used
    <2>1. hmac_compute(k, m, 12).tag = SubSeq(sha1_final(outer), 1, 12)
      BY <1>1 DEF hmac_compute, hmac_update, tagged
    <2>2. QED
      BY <1>8, <2>1
  <1> HIDE DEF whole, used, outer
  <1>10. used.tag = whole.tag
         /\ hmac_compute(hmac_start(used.state), m, 12).tag = SubSeq(whole.tag, 1, 12)
    BY <1>4, <1>7, <1>9, TagIsCut
  <1>11. QED
    BY <1>10 DEF whole, used, half_way, k, x, y

LEMMA MessageInPieces ==
  ASSUME NEW S0, NEW m \in Seq(S0), NEW cuts, cuts[1] \in Nat, cuts[2] \in Nat
  PROVE  HashInPieces(m, cuts)
  <1> DEFINE p == smaller(cuts[1], Len(m))
             q == smaller(p + cuts[2], Len(m))
             key == SubSeq(m, 1, smaller(20, Len(m)))
             block == padded(key, 54)
             S == S0 \cup {block[i] : i \in 1 .. 64}
  <1>1. Len(m) \in Nat
    BY LenProperties
  <1>2. p \in 0 .. Len(m) /\ q \in p .. Len(m)
    BY <1>1 DEF smaller
  <1>3. m \in Seq(S)
    BY SeqMonotonic
  <1>4. block \in Seq(S)
    <2>1. block = [i \in 1 .. 64 |-> block[i]]
      BY DEF padded
    <2> HIDE DEF block
    <2>2. \A i \in 1 .. 64 : block[i] \in S
      OBVIOUS
    <2> HIDE DEF S
    <2>3. QED
      BY <2>1, <2>2
  <1> HIDE DEF p, q, block, S
  <1>5. Context(sha1_init, S)
    BY EmptySeq DEF Context, sha1_init
  <1>6. Context(hmac_init(key).init_ctx, S)
    <2>1. hmac_init(key).init_ctx = sha1_update(sha1_init, block)
      BY DEF hmac_init, keyed, block
    <2>2. QED
      BY <1>4, <1>5, <2>1, UpdateKeeps
  <1> HIDE DEF key
  <1>7. sha1_update(sha1_update(sha1_update(sha1_init, SubSeq(m, 1, p)), SubSeq(m, p + 1, q)),
                    SubSeq(m, q + 1, Len(m))) = sha1_update(sha1_init, m)
    BY <1>2, <1>3, <1>5, ThreeUpdates
  <1>8. LET whole == hmac_compute(hmac_start(hmac_init(key)), m, 20)
            used == hmac_compute(hmac_update(hmac_start(hmac_init(key)), SubSeq(m, 1, p)),
                                 SubSeq(m, p + 1, Len(m)), 20)
        IN  /\ used.tag = whole.tag
            /\ hmac_compute(hmac_start(used.state), m, 12).tag = SubSeq(whole.tag, 1, 12)
    BY <1>2, <1>3, <1>6, TagOfPieces
  <1>9. QED
    BY <1>7, <1>8, Zenon DEF HashInPieces, p, q, key

-----------------------------------------------------------------------------
(* Octets as text.                                                          *)

LEMMA NibbleIsRead ==
  ASSUME NEW n \in 0 .. 15
  PROVE  hex_char_to_nibble(nibble_to_hex_char(n)) = n
  <1>1. \A i, j \in 1 .. 16 : Digits[i] = Digits[j] => i = j
    BY SMT DEF Digits
  <1>2. Len(Digits) = 16
    BY DEF Digits
  <1> DEFINE c == nibble_to_hex_char(n)
  <1>3. n + 1 \in 1 .. 16 /\ c = Digits[n + 1]
    BY DEF nibble_to_hex_char
  <1>4. Contains(Digits, c)
    BY <1>2, <1>3 DEF Contains
  <1>5. \A i \in 0 .. 15 : Digits[i + 1] = c => i = n
    <2> TAKE i \in 0 .. 15
    <2>1. i + 1 \in 1 .. 16
      OBVIOUS
    <2> HIDE DEF c
    <2>2. Digits[i + 1] = Digits[n + 1] => i + 1 = n + 1
      BY <1>1, <1>3, <2>1
    <2>3. QED
      BY <1>3, <2>2
  <1> HIDE DEF c
  <1>6. (CHOOSE i \in 0 .. 15 : Digits[i + 1] = c) = n
    BY <1>3, <1>5
  <1>7. QED
    BY <1>4, <1>6 DEF hex_char_to_nibble, c

LEMMA PieceElements ==
  ASSUME NEW S, NEW s \in Seq(S), NEW a \in Int, NEW b \in Int,
         a \in 1 .. Len(s) + 1, b \in a - 1 .. Len(s)
  PROVE  /\ SubSeq(s, a, b) \in Seq(S) /\ Len(SubSeq(s, a, b)) = (b - a) + 1
         /\ \A k \in 1 .. (b - a) + 1 : SubSeq(s, a, b)[k] = s[(a + k) - 1]
  <1> DEFINE n == Len(s)
  <1>1. n \in Nat /\ \A i \in 1 .. n : s[i] \in S
    BY LenProperties, ElementOfSeq
  <1>2. a \in 1 .. n + 1 /\ b \in a - 1 .. n
    OBVIOUS
  <1> HIDE DEF n
  <1>3. \A i \in a .. b : s[i] \in S
    BY <1>1, <1>2
  <1>4. (IF a <= b THEN (b - a) + 1 ELSE 0) = (b - a) + 1
    BY <1>1, <1>2
  <1>5. QED
    BY <1>3, <1>4, SubSeqProperties

\* The octets that the buffer has room for.
Shown(s) == smaller(Len(s), MAX_PRINT_STRING_LEN \div 2)

LEMMA ShownIs ==
  ASSUME NEW s \in Seq(Octet)
  PROVE  /\ Len(s) \in Nat /\ Shown(s) \in Nat /\ Shown(s) <= Len(s)
         /\ Len(s) <= 512 => Shown(s) = Len(s)
         /\ Len(s) > 512 => Shown(s) = 512
  <1>1. Len(s) \in Nat /\ MAX_PRINT_STRING_LEN \div 2 = 512
    BY LenProperties DEF MAX_PRINT_STRING_LEN
  <1>2. QED
    BY <1>1 DEF Shown, smaller

\* Octets in hexadecimal, as many as the buffer has room for.
LEMMA HexIsLaid ==
  ASSUME NEW s \in Seq(Octet)
  PROVE  LET hex == octet_string_hex_string(s)
         IN  /\ Len(hex) = 2 * Shown(s) /\ is_hex_string(hex)
             /\ \A i \in 1 .. 2 * Shown(s) :
                  hex_char_to_nibble(hex[i])
                    = IF i % 2 = 1 THEN s[(i + 1) \div 2] \div 16 ELSE s[(i + 1) \div 2] % 16
  <1> DEFINE hex == octet_string_hex_string(s)
             n == Shown(s)
             digit(i) == LET octet == s[(i + 1) \div 2]
                         IN  nibble_to_hex_char(IF i % 2 = 1 THEN octet \div 16 ELSE octet % 16)
             nibble(i) == IF i % 2 = 1 THEN s[(i + 1) \div 2] \div 16 ELSE s[(i + 1) \div 2] % 16
  <1>1. n \in Nat /\ Len(s) \in Nat /\ n <= Len(s)
    BY ShownIs
  <1>2. hex = [i \in 1 .. 2 * n |-> digit(i)]
    <2> DEFINE limit == IF 2 * Len(s) > MAX_PRINT_STRING_LEN THEN MAX_PRINT_STRING_LEN - 1
                        ELSE 2 * Len(s)
    <2>1. hex = [i \in 1 .. 2 * ((limit + 1) \div 2) |-> digit(i)]
      BY DEF octet_string_hex_string
    <2>2. (limit + 1) \div 2 = n
      <3>1. CASE Len(s) > 512
        <4>1. limit = 1023 /\ n = 512
          BY <1>1, <3>1, ShownIs DEF MAX_PRINT_STRING_LEN
        <4> HIDE DEF limit, n
        <4>2. QED
          BY <4>1
      <3>2. CASE Len(s) <= 512
        <4>1. limit = 2 * n /\ n \in Nat
          BY <1>1, <3>2, ShownIs DEF MAX_PRINT_STRING_LEN
        <4> HIDE DEF limit, n
        <4>2. QED
          BY <4>1
      <3>3. QED
        BY <1>1, <3>1, <3>2
    <2> HIDE DEF limit, digit, hex, n
    <2>3. QED
      BY <2>1, <2>2
  <1>3. ASSUME NEW i \in 1 .. 2 * n
        PROVE  nibble(i) \in 0 .. 15 /\ digit(i) = nibble_to_hex_char(nibble(i))
    <2> DEFINE p == (i + 1) \div 2
    <2> HIDE DEF n
    <2>1. p \in 1 .. Len(s)
      <3>1. p \in 1 .. n
        BY <1>1
      <3>2. QED
        BY <1>1, <3>1
    <2> DEFINE o == s[p]
    <2>2. o \in 0 .. 255
      BY <2>1, ElementOfSeq DEF Octet
    <2>3. o \div 16 \in 0 .. 15 /\ o % 16 \in 0 .. 15
      <3> HIDE DEF o
      <3>1. QED
        BY <2>2
    <2> HIDE DEF o
    <2>4. (IF i % 2 = 1 THEN o \div 16 ELSE o % 16) \in 0 .. 15
      BY <2>3
    <2>5. QED
      BY <2>4 DEF o
  <1> HIDE DEF hex, digit, nibble, n
  <1>4. Len(hex) = 2 * n /\ DOMAIN hex = 1 .. 2 * n
    BY <1>1, <1>2
  <1>5. \A i \in 1 .. 2 * n : hex_char_to_nibble(hex[i]) = nibble(i)
    <2> TAKE i \in 1 .. 2 * n
    <2>1. hex[i] = nibble_to_hex_char(nibble(i)) /\ nibble(i) \in 0 .. 15
      BY <1>2, <1>3
    <2>2. QED
      BY <2>1, NibbleIsRead
  <1>6. is_hex_string(hex)
    BY <1>3, <1>4, <1>5, SMTT(30) DEF is_hex_string
  <1>7. QED
    BY <1>4, <1>5, <1>6, Zenon DEF nibble, n, hex

\* Half as many octets are read of it as the decoder is told to read characters.
LEMMA HexIsRead ==
  ASSUME NEW s \in Seq(Octet), NEW len \in 0 .. 2 * Shown(s)
  PROVE  LET read == hex_string_to_octet_string(octet_string_hex_string(s), len)
             m == (len + 1) \div 2
         IN  read.hex_len = 2 * m /\ read.raw = SubSeq(s, 1, m) /\ m \in 0 .. Shown(s)
  <1> DEFINE hex == octet_string_hex_string(s)
             n == Shown(s)
             m == (len + 1) \div 2
             nibble(i) == IF i % 2 = 1 THEN s[(i + 1) \div 2] \div 16 ELSE s[(i + 1) \div 2] % 16
             nibbles == [i \in 1 .. 2 * m |-> hex_char_to_nibble(hex[i])]
             raw == [i \in 1 .. m |-> (16 * nibbles[2 * i - 1]) + nibbles[2 * i]]
  <1>1. n \in Nat /\ Len(s) \in Nat /\ n <= Len(s)
    BY ShownIs
  <1>2. m \in Nat /\ m <= n /\ (2 * m) \div 2 = m
    <2>1. len \in 0 .. 2 * n
      OBVIOUS
    <2> HIDE DEF n, m
    <2>2. m \in Nat /\ m <= n
      BY <1>1, <2>1 DEF m
    <2>3. QED
      BY <2>2
  <1>3. \A i \in 1 .. 2 * n : hex_char_to_nibble(hex[i]) = nibble(i)
    BY HexIsLaid
  <1> HIDE DEF hex, n, m, nibble
  <1>4. ASSUME NEW i \in 1 .. m
        PROVE  LET o == s[i]
               IN  /\ nibbles[2 * i - 1] = o \div 16 /\ nibbles[2 * i] = o % 16
                   /\ o \in 0 .. 255
    <2>1. 2 * i - 1 \in 1 .. 2 * m /\ 2 * i \in 1 .. 2 * m /\ i \in 1 .. Len(s)
          /\ 2 * i - 1 \in 1 .. 2 * n /\ 2 * i \in 1 .. 2 * n
      BY <1>1, <1>2
    <2>2. /\ (2 * i - 1) % 2 = 1 /\ ((2 * i - 1) + 1) \div 2 = i
          /\ (2 * i) % 2 = 0 /\ ((2 * i) + 1) \div 2 = i
      BY <1>2
    <2>3. nibble(2 * i - 1) = s[i] \div 16 /\ nibble(2 * i) = s[i] % 16
      BY <2>2 DEF nibble
    <2>4. nibbles[2 * i - 1] = nibble(2 * i - 1) /\ nibbles[2 * i] = nibble(2 * i)
      BY <1>3, <2>1
    <2>5. s[i] \in 0 .. 255
      BY <2>1, ElementOfSeq DEF Octet
    <2> HIDE DEF nibbles
    <2>6. QED
      BY <2>3, <2>4, <2>5
  <1>5. understood(nibbles) = 2 * m
    <2>1. Len(nibbles) = 2 * m /\ DOMAIN nibbles = 1 .. 2 * m
      BY <1>2
    <2>2. \A i \in 1 .. 2 * m : nibbles[i] # -1
      <3> SUFFICES ASSUME NEW i \in 1 .. 2 * m PROVE nibbles[i] # -1
        OBVIOUS
      <3> DEFINE p == (i + 1) \div 2
      <3>1. p \in 1 .. m /\ (i = 2 * p - 1 \/ i = 2 * p)
        BY <1>2
      <3> HIDE DEF p, nibbles
      <3> DEFINE o == s[p]
      <3>2. /\ nibbles[2 * p - 1] = o \div 16 /\ nibbles[2 * p] = o % 16
            /\ o \in 0 .. 255
        BY <1>4, <3>1
      <3> HIDE DEF o
      <3>3. o \div 16 # -1 /\ o % 16 # -1
        BY <3>2
      <3>4. QED
        BY <3>1, <3>2, <3>3
    <2> HIDE DEF nibbles
    <2>3. {i \in DOMAIN nibbles : nibbles[i] = -1} = {}
      BY <2>1, <2>2
    <2>4. QED
      BY <2>1, <2>3 DEF understood
  <1>6. hex_string_to_octet_string(hex, len) = [hex_len |-> 2 * m, raw |-> raw]
    <2> DEFINE all == [i \in 1 .. 2 * ((len + 1) \div 2) |-> hex_char_to_nibble(hex[i])]
    <2>1. hex_string_to_octet_string(hex, len)
            = [hex_len |-> understood(all),
               raw |-> [i \in 1 .. understood(all) \div 2 |->
                          (16 * all[2 * i - 1]) + all[2 * i]]]
      BY DEF hex_string_to_octet_string
    <2>2. all = nibbles
      BY DEF m
    <2> HIDE DEF all, nibbles
    <2>3. QED
      BY <1>2, <1>5, <2>1, <2>2
  <1>7. raw = SubSeq(s, 1, m)
    <2>1. ASSUME NEW i \in 1 .. m PROVE (16 * nibbles[2 * i - 1]) + nibbles[2 * i] = s[i]
      <3> DEFINE o == s[i]
      <3>1. /\ nibbles[2 * i - 1] = o \div 16 /\ nibbles[2 * i] = o % 16
            /\ o \in 0 .. 255
        BY <1>4
      <3> HIDE DEF o, nibbles
      <3>2. (16 * (o \div 16)) + (o % 16) = o
        BY <3>1
      <3>3. QED
        BY <3>1, <3>2 DEF o
    <2> HIDE DEF nibbles
    <2>2. raw = [i \in 1 .. m |-> s[i]]
      BY <2>1
    <2>3. SubSeq(s, 1, m) = [i \in 1 .. m |-> s[i]]
      <3>1. /\ SubSeq(s, 1, m) \in Seq(Octet) /\ Len(SubSeq(s, 1, m)) = m
            /\ \A k \in 1 .. m : SubSeq(s, 1, m)[k] = s[k]
        <4>1. 1 \in 1 .. Len(s) + 1 /\ m \in 1 - 1 .. Len(s)
          BY <1>1, <1>2
        <4>2. /\ SubSeq(s, 1, m) \in Seq(Octet) /\ Len(SubSeq(s, 1, m)) = (m - 1) + 1
              /\ \A k \in 1 .. (m - 1) + 1 : SubSeq(s, 1, m)[k] = s[(1 + k) - 1]
          BY <1>2, <4>1, PieceElements
        <4>3. (m - 1) + 1 = m /\ \A k \in 1 .. m : (1 + k) - 1 = k
          BY <1>2
        <4>4. QED
          BY <4>2, <4>3
      <3>2. SubSeq(s, 1, m) = [k \in 1 .. m |-> SubSeq(s, 1, m)[k]]
        BY <3>1, LenProperties
      <3>3. QED
        BY <3>1, <3>2
    <2>4. QED
      BY <2>2, <2>3
  <1> HIDE DEF raw
  <1>8. QED
    BY <1>1, <1>2, <1>6, <1>7 DEF hex, m, n

\* The characters of base 64, and the one that stands for a missing octet.
Symbols == {base64_chars[i] : i \in 1 .. 64} \cup {"="}

LEMMA SextetIsRead ==
  ASSUME NEW n \in 0 .. 63
  PROVE  LET c == base64_chars[n + 1]
         IN  c \in Symbols /\ is_base64(c) /\ sextet(c) = n
  <1>1. \A i, j \in 1 .. 64 : base64_chars[i] = base64_chars[j] => i = j
    BY SMTT(60) DEF base64_chars
  <1>2. Len(base64_chars) = 64
    BY DEF base64_chars
  <1> DEFINE c == base64_chars[n + 1]
  <1>3. n + 1 \in 1 .. 64
    OBVIOUS
  <1>4. c \in Symbols /\ is_base64(c)
    BY <1>2, <1>3 DEF is_base64, Contains, Symbols
  <1>5. \A i \in 1 .. 64 : base64_chars[i] = c => i = n + 1
    BY <1>1, <1>3
  <1> HIDE DEF c
  <1>6. (CHOOSE i \in 1 .. 64 : base64_chars[i] = c) = n + 1
    BY <1>3, <1>5 DEF c
  <1>7. sextet(c) = n
    <2>1. sextet(c) = (n + 1) - 1
      BY <1>6, Zenon DEF sextet
    <2>2. QED
      BY <2>1
  <1>8. QED
    BY <1>4, <1>7 DEF c

LEMMA SignIsNoSymbol == ~is_base64("=")
  <1>1. \A i \in 1 .. 64 : base64_chars[i] # "="
    BY SMTT(60) DEF base64_chars
  <1>2. Len(base64_chars) = 64
    BY DEF base64_chars
  <1>3. QED
    BY <1>1, <1>2 DEF is_base64, Contains

\* The six bits that go to each of four characters, and the octets that they come from.
LEMMA SextetsOf ==
  ASSUME NEW a \in Octet, NEW b \in Octet, NEW c \in Octet
  PROVE  LET s1 == a \div 4
             s2 == (16 * (a % 4)) + (b \div 16)
             s3 == (4 * (b % 16)) + (c \div 64)
             s4 == c % 64
         IN  /\ s1 \in 0 .. 63 /\ s2 \in 0 .. 63 /\ s3 \in 0 .. 63 /\ s4 \in 0 .. 63
             /\ (4 * s1) + (s2 \div 16) = a
             /\ (16 * (s2 % 16)) + (s3 \div 4) = b
             /\ (64 * (s3 % 4)) + s4 = c
  BY SMTT(60) DEF Octet

\* What a group of one, two or three octets becomes, and what it is read as.
LEMMA QuantumIsRead ==
  ASSUME NEW o \in Seq(Octet), Len(o) \in 1 .. 3
  PROVE  LET q == quantum(o)
         IN  /\ q \in Seq(Symbols) /\ Len(q) = 4
             /\ \A j \in 1 .. 4 : IF j <= Len(o) + 1 THEN is_base64(q[j]) ELSE q[j] = "="
             /\ (4 * sextet(q[1])) + (sextet(q[2]) \div 16) = o[1]
             /\ Len(o) >= 2 => (16 * (sextet(q[2]) % 16)) + (sextet(q[3]) \div 4) = o[2]
             /\ Len(o) >= 3 => (64 * (sextet(q[3]) % 4)) + sextet(q[4]) = o[3]
  <1> DEFINE n == Len(o)
             a == o[1]
             b == IF 2 <= n THEN o[2] ELSE 0
             c == IF 3 <= n THEN o[3] ELSE 0
             s1 == a \div 4
             s2 == (16 * (a % 4)) + (b \div 16)
             s3 == (4 * (b % 16)) + (c \div 64)
             s4 == c % 64
             s == <<s1, s2, s3, s4>>
             q == [i \in 1 .. 4 |-> IF i <= n + 1 THEN base64_chars[s[i] + 1] ELSE "="]
  <1>1. n \in 1 .. 3 /\ a \in Octet /\ b \in Octet /\ c \in Octet
    <2> HIDE DEF n
    <2>1. n \in 1 .. 3 /\ 0 \in Octet
      BY DEF n, Octet
    <2>2. \A i \in 1 .. n : o[i] \in Octet
      BY ElementOfSeq DEF n
    <2>3. 1 \in 1 .. n /\ (2 <= n => 2 \in 1 .. n) /\ (3 <= n => 3 \in 1 .. n)
      BY <2>1
    <2> HIDE DEF Octet
    <2>4. a \in Octet /\ b \in Octet /\ c \in Octet
      BY <2>1, <2>2, <2>3
    <2>5. QED
      BY <2>1, <2>4
  <1>2. quantum(o) = q
    <2>1. 1 <= n
      BY <1>1
    <2>2. QED
      BY <2>1, Zenon DEF quantum
  <1>3. /\ s1 \in 0 .. 63 /\ s2 \in 0 .. 63 /\ s3 \in 0 .. 63 /\ s4 \in 0 .. 63
        /\ (4 * s1) + (s2 \div 16) = a
        /\ (16 * (s2 % 16)) + (s3 \div 4) = b
        /\ (64 * (s3 % 4)) + s4 = c
    <2> HIDE DEF a, b, c
    <2>1. QED
      BY <1>1, SextetsOf
  <1> HIDE DEF s1, s2, s3, s4
  <1>4. s[1] = s1 /\ s[2] = s2 /\ s[3] = s3 /\ s[4] = s4
    BY SMT
  <1>5. \A j \in 1 .. 4 : s[j] \in 0 .. 63
    <2> HIDE DEF s, n, a, b, c
    <2> TAKE j \in 1 .. 4
    <2>1. j = 1 \/ j = 2 \/ j = 3 \/ j = 4
      OBVIOUS
    <2>2. QED
      BY <1>3, <1>4, <2>1, Zenon
  <1> HIDE DEF s
  <1>6. \A j \in 1 .. 4 :
          /\ q[j] \in Symbols
          /\ IF j <= n + 1 THEN is_base64(q[j]) /\ sextet(q[j]) = s[j] ELSE q[j] = "="
    <2> TAKE j \in 1 .. 4
    <2>1. CASE j <= n + 1
      <3>1. q[j] = base64_chars[s[j] + 1] /\ s[j] \in 0 .. 63
        BY <1>5, <2>1
      <3> HIDE DEF q
      <3>2. QED
        BY <2>1, <3>1, SextetIsRead
    <2>2. CASE ~(j <= n + 1)
      <3>1. q[j] = "=" /\ "=" \in Symbols
        BY <2>2 DEF Symbols
      <3> HIDE DEF q
      <3>2. QED
        BY <2>2, <3>1
    <2>3. QED
      BY <2>1, <2>2
  <1>7. q \in Seq(Symbols) /\ Len(q) = 4
    <2>1. q = [j \in 1 .. 4 |-> q[j]]
      OBVIOUS
    <2> HIDE DEF q, n, Symbols
    <2>2. q \in [1 .. 4 -> Symbols]
      <3>1. \A j \in 1 .. 4 : q[j] \in Symbols
        BY <1>6
      <3>2. QED
        BY <2>1, <3>1
    <2>3. 4 \in Nat
      OBVIOUS
    <2>4. q \in Seq(Symbols)
      BY <2>2, <2>3, SeqDef, Zenon
    <2>5. DOMAIN q = 1 .. 4
      BY <2>2
    <2>6. QED
      BY <2>3, <2>4, <2>5, LenProperties
  <1> HIDE DEF q
  <1>8. (4 * sextet(q[1])) + (sextet(q[2]) \div 16) = o[1]
    <2>1. 1 \in 1 .. 4 /\ 2 \in 1 .. 4 /\ 1 <= n + 1 /\ 2 <= n + 1
      BY <1>1
    <2>2. sextet(q[1]) = s1 /\ sextet(q[2]) = s2
      BY <1>4, <1>6, <2>1
    <2>3. QED
      BY <1>3, <2>2 DEF a
  <1>9. n >= 2 => (16 * (sextet(q[2]) % 16)) + (sextet(q[3]) \div 4) = o[2]
    <2> SUFFICES ASSUME n >= 2 PROVE (16 * (sextet(q[2]) % 16)) + (sextet(q[3]) \div 4) = o[2]
      OBVIOUS
    <2>1. 2 \in 1 .. 4 /\ 3 \in 1 .. 4 /\ 2 <= n + 1 /\ 3 <= n + 1
      BY <1>1
    <2>2. sextet(q[2]) = s2 /\ sextet(q[3]) = s3
      BY <1>4, <1>6, <2>1
    <2>3. b = o[2]
      BY <1>1
    <2> HIDE DEF b
    <2>4. QED
      BY <1>3, <2>2, <2>3
  <1>10. n >= 3 => (64 * (sextet(q[3]) % 4)) + sextet(q[4]) = o[3]
    <2> SUFFICES ASSUME n >= 3 PROVE (64 * (sextet(q[3]) % 4)) + sextet(q[4]) = o[3]
      OBVIOUS
    <2>1. 3 \in 1 .. 4 /\ 4 \in 1 .. 4 /\ 3 <= n + 1 /\ 4 <= n + 1
      BY <1>1
    <2>2. sextet(q[3]) = s3 /\ sextet(q[4]) = s4
      BY <1>4, <1>6, <2>1
    <2>3. c = o[3]
      BY <1>1
    <2> HIDE DEF c
    <2>4. QED
      BY <1>3, <2>2, <2>3
  <1>11. QED
    BY <1>2, <1>6, <1>7, <1>8, <1>9, <1>10

\* The octets that the character group G stands for.
Group(o, g) == SubSeq(o, (3 * g) - 2, IF 3 * g < Len(o) THEN 3 * g ELSE Len(o))
Groups(o) == (Len(o) + 2) \div 3

\* The lengths fit: with n octets in k groups, all groups but the last are full, and
\* n + k characters are not signs.
LEMMA GroupsFit ==
  ASSUME NEW n \in Nat
  PROVE  LET k == (n + 2) \div 3
         IN  /\ k \in Nat /\ (k = 0 => n = 0)
             /\ k > 0 => 3 * (k - 1) < n /\ n <= 3 * k
             /\ (3 * ((n + k) \div 4))
                  + (IF (n + k) % 4 > 1 THEN ((n + k) % 4) - 1 ELSE 0) = n
  <1>1. PICK m \in Nat : n = 3 * m \/ n = (3 * m) + 1 \/ n = (3 * m) + 2
    <2>1. n \div 3 \in Nat /\ (n = 3 * (n \div 3) \/ n = (3 * (n \div 3)) + 1
                                \/ n = (3 * (n \div 3)) + 2)
      OBVIOUS
    <2>2. QED
      BY <2>1
  <1>2. CASE n = 3 * m
    BY <1>2
  <1>3. CASE n = (3 * m) + 1
    BY <1>3
  <1>4. CASE n = (3 * m) + 2
    BY <1>4
  <1>5. QED
    BY <1>1, <1>2, <1>3, <1>4

LEMMA GroupIs ==
  ASSUME NEW o \in Seq(Octet), NEW g \in 1 .. Groups(o)
  PROVE  /\ Group(o, g) \in Seq(Octet) /\ Len(Group(o, g)) \in 1 .. 3
         /\ Len(Group(o, g)) = IF g < Groups(o) THEN 3 ELSE Len(o) - (3 * (g - 1))
         /\ \A k \in 1 .. Len(Group(o, g)) : /\ (3 * (g - 1)) + k \in 1 .. Len(o)
                                             /\ Group(o, g)[k] = o[(3 * (g - 1)) + k]
  <1> DEFINE n == Len(o)
             e == IF 3 * g < n THEN 3 * g ELSE n
             G == Groups(o)
  <1>1. n \in Nat
    BY LenProperties
  <1>2. G \in Nat /\ (G > 0 => 3 * (G - 1) < n /\ n <= 3 * G)
    <2> HIDE DEF n
    <2>1. (n + 2) \div 3 = G
      BY DEF Groups, n
    <2> HIDE DEF G
    <2>2. QED
      BY <1>1, <2>1, GroupsFit
  <1>3. Group(o, g) = SubSeq(o, (3 * g) - 2, e)
    BY DEF Group
  <1> HIDE DEF n, G
  <1>4. g \in 1 .. G
    BY DEF G
  <1>5. (3 * g) - 2 \in 1 .. n + 1 /\ e \in ((3 * g) - 2) - 1 .. n
    BY <1>1, <1>2, <1>4
  <1>6. (e - ((3 * g) - 2)) + 1 = IF g < G THEN 3 ELSE n - (3 * (g - 1))
    BY <1>1, <1>2, <1>4
  <1>7. (IF g < G THEN 3 ELSE n - (3 * (g - 1))) \in 1 .. 3
    BY <1>1, <1>2, <1>4
  <1> HIDE DEF e
  <1>8. \A a, b \in Int : a \in 1 .. Len(o) + 1 /\ b \in a - 1 .. Len(o) =>
          /\ SubSeq(o, a, b) \in Seq(Octet) /\ Len(SubSeq(o, a, b)) = (b - a) + 1
          /\ \A k \in 1 .. (b - a) + 1 : SubSeq(o, a, b)[k] = o[(a + k) - 1]
    BY PieceElements
  <1>9. /\ Group(o, g) \in Seq(Octet) /\ Len(Group(o, g)) = (e - ((3 * g) - 2)) + 1
        /\ \A k \in 1 .. (e - ((3 * g) - 2)) + 1 : Group(o, g)[k] = o[(((3 * g) - 2) + k) - 1]
    <2>1. (3 * g) - 2 \in Int /\ e \in Int
      BY <1>1, <1>5
    <2>2. QED
      BY <1>3, <1>5, <1>8, <2>1 DEF n
  <1>10. \A k \in 1 .. Len(Group(o, g)) :
            /\ (3 * (g - 1)) + k \in 1 .. n
            /\ (((3 * g) - 2) + k) - 1 = (3 * (g - 1)) + k
    <2> DEFINE m == Len(Group(o, g))
    <2>1. m = IF g < G THEN 3 ELSE n - (3 * (g - 1))
      BY <1>6, <1>9
    <2> HIDE DEF m
    <2>2. \A k \in 1 .. m : /\ (3 * (g - 1)) + k \in 1 .. n
                            /\ (((3 * g) - 2) + k) - 1 = (3 * (g - 1)) + k
      BY <1>1, <1>2, <1>4, <1>7, <2>1
    <2>3. QED
      BY <2>2 DEF m
  <1>11. QED
    BY <1>6, <1>7, <1>9, <1>10 DEF n, G

\* Four characters of the text to every group.
LEMMA Base64Laid ==
  ASSUME NEW o \in Seq(Octet)
  PROVE  /\ base64_encode(o) \in Seq(Symbols) /\ Len(base64_encode(o)) = 4 * Groups(o)
         /\ \A g \in 1 .. Groups(o), j \in 1 .. 4 :
              base64_encode(o)[(4 * (g - 1)) + j] = quantum(Group(o, g))[j]
  <1> DEFINE G == Groups(o)
             q == [g \in 1 .. G |-> quantum(Group(o, g))]
  <1>1. G \in Nat
    <2>1. Len(o) \in Nat
      BY LenProperties
    <2>2. QED
      BY <2>1, GroupsFit DEF Groups
  <1>2. base64_encode(o) = FlattenSeq(q)
    BY Zenon DEF base64_encode, Groups, Group
  <1>3. \A g \in 1 .. G : q[g] \in Seq(Symbols) /\ Len(q[g]) = 4
    <2> TAKE g \in 1 .. G
    <2>1. Group(o, g) \in Seq(Octet) /\ Len(Group(o, g)) \in 1 .. 3
      BY GroupIs
    <2>2. q[g] = quantum(Group(o, g))
      OBVIOUS
    <2> HIDE DEF q
    <2>3. QED
      BY <2>1, <2>2, QuantumIsRead
  <1>4. \A g \in 1 .. G : q[g] = quantum(Group(o, g))
    OBVIOUS
  <1>5. q \in Seq(Seq(Symbols)) /\ Len(q) = G
    <2>1. q = [g \in 1 .. G |-> q[g]] /\ DOMAIN q = 1 .. G
      OBVIOUS
    <2> HIDE DEF q, G
    <2>2. q \in [1 .. G -> Seq(Symbols)]
      BY <1>3, <2>1
    <2>3. q \in Seq(Seq(Symbols))
      <3>1. \A X : Seq(X) = UNION {[1 .. m -> X] : m \in Nat}
        BY SeqDef
      <3>2. Seq(Seq(Symbols)) = UNION {[1 .. m -> Seq(Symbols)] : m \in Nat}
        BY <3>1, Zenon
      <3>3. QED
        BY <1>1, <2>2, <3>2, Zenon
    <2>4. QED
      BY <1>1, <2>1, <2>3, LenProperties
  <1> HIDE DEF q, G
  <1>6. PICK F : Joined(F, q, Symbols) /\ FlattenSeq(q) = F[Len(q)]
    BY <1>5, FlattenJoins
  <1>7. \A g \in 1 .. G :
          /\ Len(F[g]) = Len(F[g - 1]) + 4 /\ Len(F[g]) <= Len(F[G])
          /\ SubSeq(F[G], Len(F[g - 1]) + 1, Len(F[g])) = q[g]
    <2> TAKE g \in 1 .. G
    <2> HIDE DEF Symbols
    <2>1. q[g] # <<>>
      <3>1. Len(q[g]) = 4 /\ Len(<<>>) = 0
        BY <1>3
      <3>2. q[g] = <<>> => Len(q[g]) = Len(<<>>)
        BY Zenon
      <3> HIDE DEF G
      <3>3. ~(Len(q[g]) = Len(<<>>))
        <4>1. \A x, y : x = 4 /\ y = 0 => x # y
          OBVIOUS
        <4>2. QED
          BY <3>1, <4>1, Zenon
      <3>4. QED
        BY <3>2, <3>3, Zenon
    <2>2. g \in 1 .. Len(q) /\ Joined(F, q, Symbols)
      BY <1>5, <1>6
    <2>3. /\ Len(F[g]) = Len(F[g - 1]) + Len(q[g]) /\ Len(F[g]) <= Len(F[Len(q)])
          /\ SubSeq(F[Len(q)], Len(F[g - 1]) + 1, Len(F[g])) = q[g]
      BY <1>5, <2>1, <2>2, JoinedPiece
    <2>4. QED
      BY <1>3, <1>5, <2>3
  <1>8. \A g \in 0 .. G : Len(F[g]) = 4 * g
    <2> DEFINE S == {g \in 0 .. G : Len(F[g]) = 4 * g}
    <2>1. 0 \in S
      <3>1. F[0] = <<>> /\ 0 \in 0 .. G
        BY <1>1, <1>6 DEF Joined
      <3>2. QED
        BY <3>1
    <2>2. \A g \in 0 .. G - 1 : g \in S => g + 1 \in S
      <3> SUFFICES ASSUME NEW g \in 0 .. G - 1, g \in S PROVE g + 1 \in S
        OBVIOUS
      <3>1. g + 1 \in 1 .. G /\ g + 1 \in 0 .. G /\ (g + 1) - 1 = g
        BY <1>1
      <3>2. Len(F[g + 1]) = Len(F[g]) + 4
        BY <1>7, <3>1
      <3>3. QED
        BY <3>1, <3>2
    <2> HIDE DEF S
    <2>3. 0 .. G \subseteq S
      BY <1>1, <2>1, <2>2, Induction
    <2>4. QED
      BY <2>3 DEF S
  <1>9. F[G] \in Seq(Symbols) /\ Len(F[G]) = 4 * G /\ base64_encode(o) = F[G]
    <2>1. G \in 0 .. G
      BY <1>1
    <2>2. QED
      BY <1>2, <1>5, <1>6, <1>8, <2>1 DEF Joined
  <1>10. ASSUME NEW g \in 1 .. G, NEW j \in 1 .. 4
         PROVE  F[G][(4 * (g - 1)) + j] = q[g][j]
    <2>1. Len(F[g - 1]) = 4 * (g - 1) /\ Len(F[g]) = 4 * g
      <3>1. g - 1 \in 0 .. G /\ g \in 0 .. G
        BY <1>1
      <3>2. QED
        BY <1>8, <3>1
    <2>2. SubSeq(F[G], (4 * (g - 1)) + 1, 4 * g) = q[g]
      BY <1>7, <2>1
    <2>3. /\ (4 * (g - 1)) + 1 \in 1 .. (4 * G) + 1
          /\ 4 * g \in ((4 * (g - 1)) + 1) - 1 .. 4 * G
          /\ j \in 1 .. ((4 * g) - ((4 * (g - 1)) + 1)) + 1
          /\ (((4 * (g - 1)) + 1) + j) - 1 = (4 * (g - 1)) + j
      BY <1>1
    <2>4. \A a, b \in Int : a \in 1 .. Len(F[G]) + 1 /\ b \in a - 1 .. Len(F[G]) =>
            \A k \in 1 .. (b - a) + 1 : SubSeq(F[G], a, b)[k] = F[G][(a + k) - 1]
      BY <1>9, PieceElements
    <2>5. (4 * (g - 1)) + 1 \in Int /\ 4 * g \in Int
      BY <1>1
    <2>6. SubSeq(F[G], (4 * (g - 1)) + 1, 4 * g)[j] = F[G][(((4 * (g - 1)) + 1) + j) - 1]
      BY <1>9, <2>3, <2>4, <2>5
    <2>7. QED
      BY <2>2, <2>3, <2>6
  <1>11. QED
    BY <1>4, <1>9, <1>10 DEF G

\* The signs come last, and there are as many as make the last group whole.
LEMMA SignsAreLast ==
  ASSUME NEW o \in Seq(Octet), NEW i \in 1 .. Len(base64_encode(o))
  PROVE  is_base64(base64_encode(o)[i]) <=> i <= Len(o) + Groups(o)
  <1> DEFINE n == Len(o)
             G == Groups(o)
             t == base64_encode(o)
             g == ((i - 1) \div 4) + 1
             j == ((i - 1) % 4) + 1
             m == Len(Group(o, g))
  <1>1. n \in Nat /\ G \in Nat /\ (G > 0 => 3 * (G - 1) < n /\ n <= 3 * G)
    <2>1. n \in Nat
      BY LenProperties
    <2> HIDE DEF n
    <2>2. (n + 2) \div 3 = G
      BY DEF Groups, n
    <2> HIDE DEF G
    <2>3. QED
      BY <2>1, <2>2, GroupsFit
  <1>2. Len(t) = 4 * G
    BY Base64Laid
  <1>3. i \in 1 .. 4 * G
    BY <1>2
  <1>4. g \in 1 .. G /\ j \in 1 .. 4 /\ (4 * (g - 1)) + j = i
    <2> HIDE DEF G
    <2>1. QED
      BY <1>1, <1>3
  <1> HIDE DEF g, j
  <1>5. t[i] = quantum(Group(o, g))[j]
    <2>1. t[(4 * (g - 1)) + j] = quantum(Group(o, g))[j]
      BY <1>4, Base64Laid
    <2> HIDE DEF t
    <2>2. QED
      BY <1>4, <2>1
  <1>6. /\ Group(o, g) \in Seq(Octet) /\ m \in 1 .. 3
        /\ m = IF g < G THEN 3 ELSE n - (3 * (g - 1))
    BY <1>4, GroupIs
  <1>7. IF j <= m + 1 THEN is_base64(t[i]) ELSE t[i] = "="
    BY <1>4, <1>5, <1>6, QuantumIsRead
  <1>8. is_base64(t[i]) <=> j <= m + 1
    <2> HIDE DEF t
    <2>1. QED
      BY <1>7, SignIsNoSymbol
  <1> HIDE DEF n, G, m
  <1>9. j <= m + 1 <=> i <= n + G
    BY <1>1, <1>4, <1>6
  <1>10. QED
    BY <1>8, <1>9 DEF n, G, t

\* The octets of a group come from its characters.
LEMMA OctetIsRead ==
  ASSUME NEW o \in Seq(Octet), NEW i \in 1 .. Len(o)
  PROVE  LET s(k) == sextet(base64_encode(o)[k])
             p == i + ((i - 1) \div 3)
         IN  /\ i % 3 = 1 => (4 * s(p)) + (s(p + 1) \div 16) = o[i]
             /\ i % 3 = 2 => (16 * (s(p) % 16)) + (s(p + 1) \div 4) = o[i]
             /\ i % 3 = 0 => (64 * (s(p) % 4)) + s(p + 1) = o[i]
  <1> DEFINE n == Len(o)
             G == Groups(o)
             t == base64_encode(o)
             p == i + ((i - 1) \div 3)
             g == ((i - 1) \div 3) + 1
             k == ((i - 1) % 3) + 1
             q == quantum(Group(o, g))
             m == Len(Group(o, g))
  <1>1. n \in Nat /\ G \in Nat /\ (G > 0 => 3 * (G - 1) < n /\ n <= 3 * G) /\ (G = 0 => n = 0)
    <2>1. n \in Nat
      BY LenProperties
    <2> HIDE DEF n
    <2>2. (n + 2) \div 3 = G
      BY DEF Groups, n
    <2> HIDE DEF G
    <2>3. QED
      BY <2>1, <2>2, GroupsFit
  <1>2. i \in 1 .. n
    OBVIOUS
  <1>3. /\ g \in 1 .. G /\ k \in 1 .. 3 /\ (3 * (g - 1)) + k = i
        /\ p = (4 * (g - 1)) + k /\ p + 1 = (4 * (g - 1)) + (k + 1)
        /\ k \in 1 .. 4 /\ k + 1 \in 1 .. 4
        /\ (i % 3 = 1 <=> k = 1) /\ (i % 3 = 2 <=> k = 2) /\ (i % 3 = 0 <=> k = 3)
    <2> HIDE DEF G, n
    <2>1. QED
      BY <1>1, <1>2
  <1> HIDE DEF p, g, k
  <1>4. t[p] = q[k] /\ t[p + 1] = q[k + 1]
    <2>1. /\ t[(4 * (g - 1)) + k] = quantum(Group(o, g))[k]
          /\ t[(4 * (g - 1)) + (k + 1)] = quantum(Group(o, g))[k + 1]
      BY <1>3, Base64Laid
    <2> HIDE DEF t
    <2>2. QED
      BY <1>3, <2>1
  <1>5. /\ Group(o, g) \in Seq(Octet) /\ m \in 1 .. 3
        /\ m = IF g < G THEN 3 ELSE n - (3 * (g - 1))
        /\ \A j \in 1 .. m : Group(o, g)[j] = o[(3 * (g - 1)) + j]
    BY <1>3, GroupIs
  <1>6. k <= m
    <2> HIDE DEF n, G, m
    <2>1. QED
      BY <1>1, <1>2, <1>3, <1>5
  <1>7. Group(o, g)[k] = o[i]
    <2> HIDE DEF m
    <2>1. k \in 1 .. m
      BY <1>3, <1>5, <1>6
    <2>2. QED
      BY <1>3, <1>5, <2>1
  <1>8. /\ (4 * sextet(q[1])) + (sextet(q[2]) \div 16) = Group(o, g)[1]
        /\ m >= 2 => (16 * (sextet(q[2]) % 16)) + (sextet(q[3]) \div 4) = Group(o, g)[2]
        /\ m >= 3 => (64 * (sextet(q[3]) % 4)) + sextet(q[4]) = Group(o, g)[3]
    BY <1>5, QuantumIsRead
  <1>9. /\ i % 3 = 1 => k = 1 /\ k + 1 = 2
        /\ i % 3 = 2 => k = 2 /\ k + 1 = 3 /\ m >= 2
        /\ i % 3 = 0 => k = 3 /\ k + 1 = 4 /\ m >= 3
    <2> HIDE DEF m
    <2>1. QED
      BY <1>3, <1>5, <1>6
  <1> HIDE DEF q, t, m
  <1>10. /\ i % 3 = 1 => (4 * sextet(t[p])) + (sextet(t[p + 1]) \div 16) = o[i]
         /\ i % 3 = 2 => (16 * (sextet(t[p]) % 16)) + (sextet(t[p + 1]) \div 4) = o[i]
         /\ i % 3 = 0 => (64 * (sextet(t[p]) % 4)) + sextet(t[p + 1]) = o[i]
    <2>1. ASSUME i % 3 = 1 PROVE (4 * sextet(t[p])) + (sextet(t[p + 1]) \div 16) = o[i]
      <3>1. t[p] = q[1] /\ t[p + 1] = q[2] /\ Group(o, g)[1] = o[i]
        BY <1>4, <1>7, <1>9, <2>1
      <3>2. QED
        BY <1>8, <3>1
    <2>2. ASSUME i % 3 = 2 PROVE (16 * (sextet(t[p]) % 16)) + (sextet(t[p + 1]) \div 4) = o[i]
      <3>1. t[p] = q[2] /\ t[p + 1] = q[3] /\ Group(o, g)[2] = o[i] /\ m >= 2
        BY <1>4, <1>7, <1>9, <2>2
      <3>2. QED
        BY <1>8, <3>1
    <2>3. ASSUME i % 3 = 0 PROVE (64 * (sextet(t[p]) % 4)) + sextet(t[p + 1]) = o[i]
      <3>1. t[p] = q[3] /\ t[p + 1] = q[4] /\ Group(o, g)[3] = o[i] /\ m >= 3
        BY <1>4, <1>7, <1>9, <2>3
      <3>2. QED
        BY <1>8, <3>1
    <2>4. QED
      BY <2>1, <2>2, <2>3
  <1>11. QED
    BY <1>10, Zenon DEF t, p

\* Octets of any number in base 64 are read back.
LEMMA Base64IsRead ==
  ASSUME NEW o \in Seq(Octet)
  PROVE  base64_decode(base64_encode(o)) = o
  <1> DEFINE n == Len(o)
             G == Groups(o)
             t == base64_encode(o)
             bad == {i \in 1 .. Len(t) : ~is_base64(t[i])}
             size == IF bad = {} THEN Len(t) ELSE Min(bad) - 1
             s(i) == sextet(t[i])
             octet(i) == LET p == i + ((i - 1) \div 3) IN
                         CASE i % 3 = 1 -> (4 * s(p)) + (s(p + 1) \div 16)
                           [] i % 3 = 2 -> (16 * (s(p) % 16)) + (s(p + 1) \div 4)
                           [] i % 3 = 0 -> (64 * (s(p) % 4)) + s(p + 1)
             end == (3 * (size \div 4)) + (IF size % 4 > 1 THEN (size % 4) - 1 ELSE 0)
  <1>1. base64_decode(t) = [i \in 1 .. end |-> octet(i)]
    BY Zenon DEF base64_decode
  <1>2. /\ n \in Nat /\ G \in Nat /\ (G > 0 => 3 * (G - 1) < n /\ n <= 3 * G) /\ (G = 0 => n = 0)
        /\ (3 * ((n + G) \div 4)) + (IF (n + G) % 4 > 1 THEN ((n + G) % 4) - 1 ELSE 0) = n
    <2>1. n \in Nat
      BY LenProperties
    <2> HIDE DEF n
    <2>2. (n + 2) \div 3 = G
      BY DEF Groups, n
    <2> HIDE DEF G
    <2>3. QED
      BY <2>1, <2>2, GroupsFit
  <1>3. Len(t) = 4 * G
    BY Base64Laid
  <1>4. bad = {i \in 1 .. 4 * G : i > n + G}
    <2>1. \A i \in 1 .. Len(t) : is_base64(t[i]) <=> i <= n + G
      BY SignsAreLast
    <2> HIDE DEF t, n, G
    <2>2. \A i \in 1 .. 4 * G : i <= n + G <=> ~(i > n + G)
      BY <1>2
    <2>3. QED
      BY <1>3, <2>1, <2>2
  <1>5. size = n + G
    <2> HIDE DEF t, n, G
    <2>1. CASE 4 * G = n + G
      <3>1. bad = {}
        BY <1>2, <1>4, <2>1
      <3> HIDE DEF bad
      <3>2. QED
        BY <1>3, <2>1, <3>1
    <2>2. CASE 4 * G # n + G
      <3>1. (n + G) + 1 \in bad /\ \A y \in bad : (n + G) + 1 <= y
        BY <1>2, <1>4, <2>2
      <3>2. bad # {}
        BY <3>1, Zenon
      <3>3. bad \subseteq Int
        BY <1>4
      <3> HIDE DEF bad
      <3>4. \A x, y \in Int : x <= y /\ y <= x => x = y
        OBVIOUS
      <3>5. Min(bad) = (n + G) + 1
        <4> DEFINE v == (n + G) + 1
        <4>1. v \in bad /\ \A y \in bad : v <= y
          BY <3>1
        <4> HIDE DEF v
        <4>2. \A x : (x \in bad /\ \A y \in bad : x <= y) => x = v
          BY <3>3, <3>4, <4>1
        <4>3. Min(bad) = v
          BY <4>1, <4>2 DEF Min
        <4>4. QED
          BY <4>3 DEF v
      <3>6. QED
        BY <1>2, <3>2, <3>5
    <2>3. QED
      BY <2>1, <2>2
  <1> HIDE DEF size
  <1>6. end = n
    <2> HIDE DEF n, G
    <2>1. QED
      BY <1>2, <1>5
  <1>7. \A i \in 1 .. n : octet(i) = o[i]
    <2> TAKE i \in 1 .. n
    <2> DEFINE p == i + ((i - 1) \div 3)
    <2>1. /\ i % 3 = 1 => (4 * s(p)) + (s(p + 1) \div 16) = o[i]
          /\ i % 3 = 2 => (16 * (s(p) % 16)) + (s(p + 1) \div 4) = o[i]
          /\ i % 3 = 0 => (64 * (s(p) % 4)) + s(p + 1) = o[i]
      BY OctetIsRead
    <2> HIDE DEF s, n
    <2>2. i % 3 = 1 \/ i % 3 = 2 \/ i % 3 = 0
      BY <1>2
    <2>3. i % 3 = 1 => ~(i % 3 = 2) /\ ~(i % 3 = 0)
      OBVIOUS
    <2>4. i % 3 = 2 => ~(i % 3 = 0)
      OBVIOUS
    <2> HIDE DEF p
    <2>5. octet(i) = CASE i % 3 = 1 -> (4 * s(p)) + (s(p + 1) \div 16)
                       [] i % 3 = 2 -> (16 * (s(p) % 16)) + (s(p + 1) \div 4)
                       [] i % 3 = 0 -> (64 * (s(p) % 4)) + s(p + 1)
      BY Zenon DEF p
    <2> HIDE DEF octet
    <2>6. QED
      BY <2>1, <2>2, <2>3, <2>4, <2>5, Zenon
  <1> HIDE DEF octet, end
  <1>8. base64_decode(t) = [i \in 1 .. n |-> o[i]]
    <2> HIDE DEF n, t
    <2>1. QED
      BY <1>1, <1>6, <1>7
  <1>9. o = [i \in 1 .. n |-> o[i]]
    BY LenProperties
  <1>10. QED
    BY <1>8, <1>9

\* The other decoder of base 64 understands all the characters of a text.
LEMMA TextIsUnderstood ==
  ASSUME NEW o \in Seq(Octet)
  PROVE  LET t == base64_encode(o)
         IN  base64_string_to_octet_string(t, Len(t)).base64_len = Len(t)
  <1> DEFINE t == base64_encode(o)
             G == Groups(o)
             end == 2 * ((Len(t) + 1) \div 2)
             codes == [i \in 1 .. end |-> base64_char_to_sextet(t[i])]
  <1>1. G \in Nat
    <2>1. Len(o) \in Nat
      BY LenProperties
    <2>2. QED
      BY <2>1, GroupsFit DEF Groups
  <1>2. t \in Seq(Symbols) /\ Len(t) = 4 * G
    BY Base64Laid
  <1>3. end = Len(t) /\ Len(t) \in Nat
    <2> HIDE DEF t, G
    <2>1. QED
      BY <1>1, <1>2
  <1>4. \A c : c \in Symbols => base64_char_to_sextet(c) # -1
    <2> SUFFICES ASSUME NEW c \in Symbols PROVE base64_char_to_sextet(c) # -1
      OBVIOUS
    <2>1. CASE c = "="
      BY <2>1 DEF base64_char_to_sextet
    <2>2. CASE c # "="
      <3>1. PICK k \in 1 .. 64 : c = base64_chars[k]
        BY <2>2 DEF Symbols
      <3> DEFINE n == k - 1
      <3>2. n \in 0 .. 63 /\ n + 1 = k
        OBVIOUS
      <3> HIDE DEF n
      <3>3. is_base64(c) /\ sextet(c) = n
        BY <3>1, <3>2, SextetIsRead
      <3>4. QED
        BY <2>2, <3>2, <3>3 DEF base64_char_to_sextet
    <2>3. QED
      BY <2>1, <2>2
  <1> HIDE DEF t, end, G
  <1>5. understood(codes) = Len(t)
    <2>1. \A i \in 1 .. end : t[i] \in Symbols
      BY <1>2, <1>3, ElementOfSeq
    <2>2. \A i \in 1 .. end : codes[i] # -1
      BY <1>4, <2>1
    <2>3. DOMAIN codes = 1 .. end /\ Len(codes) = end
      BY <1>3
    <2> HIDE DEF codes
    <2>4. {i \in DOMAIN codes : codes[i] = -1} = {}
      BY <2>2, <2>3
    <2>5. QED
      BY <1>3, <2>3, <2>4 DEF understood
  <1>6. base64_string_to_octet_string(t, Len(t)).base64_len = understood(codes)
    BY DEF base64_string_to_octet_string, end
  <1>7. QED
    BY <1>5, <1>6 DEF t

\* A message, with whatever in its members: a number that has not been set is -1.
IsMessage(m) ==
  /\ m = [type |-> m.type, from |-> m.from, to |-> m.to, roap |-> m.roap]
  /\ m.roap = [type |-> m.roap.type, seq |-> m.roap.seq, label |-> m.roap.label,
               error |-> m.roap.error, msgSize |-> m.roap.msgSize,
               moreComingFlag |-> m.roap.moreComingFlag,
               offerSessionID |-> m.roap.offerSessionID,
               answerSessionID |-> m.roap.answerSessionID, sdp |-> m.roap.sdp,
               tiebreaker |-> m.roap.tiebreaker, msgContent |-> m.roap.msgContent]

\* A message that is read back, member by member.
LEMMA ReadBackIs ==
  ASSUME NEW m, IsMessage(m)
  PROVE  ReadBack(m)
           = [type |-> m.type, from |-> m.from, to |-> m.to,
              roap |-> [type |-> m.roap.type, seq |-> m.roap.seq,
                        label |-> SetOrZero(m.roap.label), error |-> SetOrZero(m.roap.error),
                        msgSize |-> SetOrZero(m.roap.msgSize),
                        moreComingFlag |-> m.roap.moreComingFlag,
                        offerSessionID |-> m.roap.offerSessionID,
                        answerSessionID |-> m.roap.answerSessionID, sdp |-> m.roap.sdp,
                        tiebreaker |-> m.roap.tiebreaker, msgContent |-> m.roap.msgContent]]
  <1> DEFINE r == m.roap
             back == [name \in DOMAIN r |-> IF name \in {"label", "error", "msgSize"}
                                            THEN SetOrZero(r[name]) ELSE r[name]]
  <1>1. \A a, b, c, d, e, f, g, h, i, j, k :
          r = [type |-> a, seq |-> b, label |-> c, error |-> d, msgSize |-> e,
               moreComingFlag |-> f, offerSessionID |-> g, answerSessionID |-> h, sdp |-> i,
               tiebreaker |-> j, msgContent |-> k]
            => back = [type |-> a, seq |-> b, label |-> SetOrZero(c), error |-> SetOrZero(d),
                       msgSize |-> SetOrZero(e), moreComingFlag |-> f, offerSessionID |-> g,
                       answerSessionID |-> h, sdp |-> i, tiebreaker |-> j, msgContent |-> k]
    <2> HIDE DEF r
    <2>1. QED
      BY SMTT(60)
  <1>2. back = [type |-> r.type, seq |-> r.seq, label |-> SetOrZero(r.label),
                error |-> SetOrZero(r.error), msgSize |-> SetOrZero(r.msgSize),
                moreComingFlag |-> r.moreComingFlag, offerSessionID |-> r.offerSessionID,
                answerSessionID |-> r.answerSessionID, sdp |-> r.sdp,
                tiebreaker |-> r.tiebreaker, msgContent |-> r.msgContent]
    <2>1. r = [type |-> r.type, seq |-> r.seq, label |-> r.label, error |-> r.error,
               msgSize |-> r.msgSize, moreComingFlag |-> r.moreComingFlag,
               offerSessionID |-> r.offerSessionID, answerSessionID |-> r.answerSessionID,
               sdp |-> r.sdp, tiebreaker |-> r.tiebreaker, msgContent |-> r.msgContent]
      BY Zenon DEF IsMessage
    <2> HIDE DEF back, r
    <2>2. QED
      BY <1>1, <2>1, Zenon
  <1>3. ReadBack(m) = [m EXCEPT !.roap = back]
    BY Zenon DEF ReadBack
  <1> HIDE DEF back
  <1>4. [m EXCEPT !.roap = back] = [type |-> m.type, from |-> m.from, to |-> m.to, roap |-> back]
    <2>1. \A a, b, c, d, e :
            m = [type |-> a, from |-> b, to |-> c, roap |-> d]
              => [m EXCEPT !.roap = e] = [type |-> a, from |-> b, to |-> c, roap |-> e]
      BY SMTT(30)
    <2>2. QED
      BY <2>1, Zenon DEF IsMessage
  <1>5. QED
    BY <1>2, <1>3, <1>4, Zenon

LEMMA SignallingIsRead ==
  ASSUME NEW m, IsMessage(m)
  PROVE  parserSessionMessage(packageSessionMessage(m)) = ReadBack(m)
  <1> DEFINE roap == m.roap
             P == packageSessionMessage(m)
             R == P.roap
             label == SetOrZero(roap.label)
             error == SetOrZero(roap.error)
             msgSize == SetOrZero(roap.msgSize)
  <1>1. /\ P = [type |-> m.type, from |-> m.from, to |-> m.to, roap |-> R]
        /\ R = [type |-> roap.type, seq |-> roap.seq, sdp |-> wrapped(roap),
                offerSessionId |-> roap.offerSessionID,
                answerSessionId |-> roap.answerSessionID,
                label |-> label, error |-> error, msgSize |-> msgSize,
                moreComingFlag |-> roap.moreComingFlag,
                tiebreaker |-> roap.tiebreaker, msgContent |-> roap.msgContent]
    <2>1. orNull(roap.label) = label /\ orNull(roap.error) = error
          /\ orNull(roap.msgSize) = msgSize
      BY DEF SetOrZero, orNull
    <2> HIDE DEF label, error, msgSize
    <2>2. QED
      BY <2>1 DEF packageSessionMessage
  <1> HIDE DEF P, R, label, error, msgSize
  <1>2. \A x : /\ member(P, "type", x) = m.type /\ member(P, "from", x) = m.from
               /\ member(P, "to", x) = m.to
    BY <1>1 DEF member, isMember
  <1>3. isMember(P, "roap") /\ P.roap = R
    BY <1>1 DEF isMember
  <1>4. \A x : /\ member(R, "type", x) = roap.type /\ member(R, "seq", x) = roap.seq
               /\ member(R, "label", x) = label /\ member(R, "error", x) = error
               /\ member(R, "msgSize", x) = msgSize
               /\ member(R, "moreComingFlag", x) = roap.moreComingFlag
               /\ member(R, "offerSessionId", x) = roap.offerSessionID
               /\ member(R, "answerSessionId", x) = roap.answerSessionID
               /\ member(R, "tiebreaker", x) = roap.tiebreaker
               /\ member(R, "msgContent", x) = roap.msgContent
    BY <1>1 DEF member, isMember
  <1>5. isMember(R, "sdp") /\ R.sdp = wrapped(roap)
    BY <1>1 DEF isMember
  <1>6. sdpOf(R, roap.type) = roap.sdp
    <2>1. CASE roap.type \in {offer, answer}
      <3>1. wrapped(roap).sdp = roap.sdp /\ isMember(wrapped(roap), "sdp")
        BY <2>1 DEF wrapped, isMember
      <3>2. QED
        BY <1>5, <2>1, <3>1 DEF sdpOf
    <2>2. CASE roap.type \notin {offer, answer}
      <3>1. wrapped(roap) = [text |-> roap.sdp]
        BY <2>2 DEF wrapped, text
      <3>2. member(wrapped(roap), "text", "") = roap.sdp
        BY <3>1 DEF member, isMember
      <3>3. QED
        BY <1>5, <2>2, <3>2, Zenon DEF sdpOf
    <2>3. QED
      BY <2>1, <2>2
  <1> DEFINE T == member(R, "type", NoRoap.type)
             get(name, field) == member(R, name, NoRoap[field])
             read == [type |-> T, sdp |-> sdpOf(R, T), seq |-> get("seq", "seq"),
                      offerSessionID |-> get("offerSessionId", "offerSessionID"),
                      answerSessionID |-> get("answerSessionId", "answerSessionID"),
                      label |-> get("label", "label"), error |-> get("error", "error"),
                      moreComingFlag |-> get("moreComingFlag", "moreComingFlag"),
                      tiebreaker |-> get("tiebreaker", "tiebreaker"),
                      msgSize |-> get("msgSize", "msgSize"),
                      msgContent |-> get("msgContent", "msgContent")]
  <1>7. read = [type |-> roap.type, sdp |-> roap.sdp, seq |-> roap.seq,
                offerSessionID |-> roap.offerSessionID,
                answerSessionID |-> roap.answerSessionID,
                label |-> label, error |-> error,
                moreComingFlag |-> roap.moreComingFlag, tiebreaker |-> roap.tiebreaker,
                msgSize |-> msgSize, msgContent |-> roap.msgContent]
    BY <1>4, <1>6, Zenon
  <1> DEFINE back == [type |-> roap.type, seq |-> roap.seq, label |-> label,
                      error |-> error, msgSize |-> msgSize,
                      moreComingFlag |-> roap.moreComingFlag,
                      offerSessionID |-> roap.offerSessionID,
                      answerSessionID |-> roap.answerSessionID, sdp |-> roap.sdp,
                      tiebreaker |-> roap.tiebreaker, msgContent |-> roap.msgContent]
  <1>8. read = back
    <2> HIDE DEF read
    <2>1. QED
      BY <1>7
  <1>9. ReadBack(m) = [type |-> m.type, from |-> m.from, to |-> m.to, roap |-> back]
    BY ReadBackIs, Zenon DEF label, error, msgSize
  <1> HIDE DEF read, back
  <1>10. parserSessionMessage(P)
           = [type |-> member(P, "type", NoMessage.type),
              from |-> member(P, "from", NoMessage.from),
              to |-> member(P, "to", NoMessage.to), roap |-> read]
    BY <1>3, Zenon DEF parserSessionMessage, read
  <1>11. parserSessionMessage(P) = [type |-> m.type, from |-> m.from, to |-> m.to, roap |-> back]
    BY <1>2, <1>8, <1>10, Zenon
  <1>12. QED
    BY <1>9, <1>11, Zenon DEF P

\* The types of a candidate.
CandidateTypes == {"HOST", "SERVER_REFLEXIVE", "PEER_REFLEXIVE", "RELAYED"}

LEMMA CandidateIsRead ==
  ASSUME NEW c, c.type \in CandidateTypes,
         c = [type |-> c.type, transport |-> "UDP", foundation |-> c.foundation,
              component_id |-> c.component_id, priority |-> c.priority, ip |-> c.ip,
              port |-> c.port]
  PROVE  Candidate(candidateLine(c)) = c
  <1> DEFINE type == c.type
             w == CASE type = "HOST" -> "host"
                    [] type = "SERVER_REFLEXIVE" -> "srflx"
                    [] type = "PEER_REFLEXIVE" -> "prflx"
                    [] OTHER -> "relayed"
             words == {"udp", "typ", w}
  <1>1. typeOf(words) = type
    <2>1. CASE type = "HOST"
      <3>1. words = {"udp", "typ", "host"}
        BY <2>1
      <3> HIDE DEF words
      <3>2. QED
        BY <2>1, <3>1 DEF typeOf
    <2>2. CASE type = "SERVER_REFLEXIVE"
      <3>1. words = {"udp", "typ", "srflx"}
        BY <2>2
      <3> HIDE DEF words
      <3>2. QED
        BY <2>2, <3>1 DEF typeOf
    <2>3. CASE type = "PEER_REFLEXIVE"
      <3>1. words = {"udp", "typ", "prflx"}
        BY <2>3
      <3> HIDE DEF words
      <3>2. QED
        BY <2>3, <3>1 DEF typeOf
    <2>4. CASE type = "RELAYED"
      <3>1. words = {"udp", "typ", "relayed"}
        BY <2>4
      <3> HIDE DEF words
      <3>2. QED
        BY <2>4, <3>1 DEF typeOf
    <2>5. QED
      BY <2>1, <2>2, <2>3, <2>4 DEF CandidateTypes
  <1>2. candidateLine(c) = [foundation |-> c.foundation, component |-> c.component_id,
                            priority |-> c.priority, ip |-> c.ip, port |-> c.port,
                            words |-> words]
    BY DEF candidateLine
  <1> HIDE DEF words
  <1> DEFINE l == candidateLine(c)
  <1>3. /\ l.words = words /\ l.foundation = c.foundation /\ l.component = c.component_id
        /\ l.priority = c.priority /\ l.ip = c.ip /\ l.port = c.port
    BY <1>2
  <1> HIDE DEF l
  <1>4. Candidate(l) = [type |-> c.type, transport |-> "UDP", foundation |-> c.foundation,
                        component_id |-> c.component_id, priority |-> c.priority, ip |-> c.ip,
                        port |-> c.port]
    BY <1>1, <1>3, Zenon DEF Candidate
  <1>5. QED
    BY <1>4 DEF l

-----------------------------------------------------------------------------
(* Bit vectors.                                                             *)

\* What is written to word K when bits move to lower places by D words and R bits, in a
\* vector of M words, and when they move to higher places.
Lower(w, k, m, d, r) ==
  down(w[k + d], r) \cup IF k + d + 1 < m THEN up(w[k + d + 1], bits_per_word - r) ELSE {}
Higher(w, k, d, r) ==
  up(w[k - d], r) \cup IF k > d THEN down(w[k - d - 1], bits_per_word - r) ELSE {}

\* The memory after each of the assignments of a shift, in the order O.
LowerWrites(f, n, o, x, l, d, r) ==
  f = [k \in 0 .. n |-> IF k = 0 THEN x ELSE [f[k - 1] EXCEPT ![o[k]] = Lower(f[k - 1], o[k], l, d, r)]]

LEMMA LowerWritesExist ==
  ASSUME NEW n \in Nat, NEW o, NEW x, NEW l, NEW d, NEW r
  PROVE  \E f : LowerWrites(f, n, o, x, l, d, r)
  <1> DEFINE S == {m \in 0 .. n : \E f : LowerWrites(f, m, o, x, l, d, r)}
  <1>1. 0 \in S
    <2>1. LowerWrites([k \in 0 .. 0 |-> x], 0, o, x, l, d, r)
      BY DEF LowerWrites
    <2>2. QED
      BY <2>1
  <1>2. ASSUME NEW m \in 0 .. n - 1, m \in S PROVE m + 1 \in S
    <2>1. PICK f : LowerWrites(f, m, o, x, l, d, r)
      BY <1>2
    <2> DEFINE e == [k \in 0 .. m + 1 |-> IF k = m + 1 THEN [f[m] EXCEPT ![o[(m + 1)]] = Lower(f[m], o[(m + 1)], l, d, r)] ELSE f[k]]
    <2>2. ASSUME NEW k \in 0 .. m + 1
          PROVE  e[k] = IF k = 0 THEN x ELSE [e[k - 1] EXCEPT ![o[k]] = Lower(e[k - 1], o[k], l, d, r)]
      <3>1. CASE k = m + 1
        <4>1. k # 0 /\ k - 1 = m /\ m \in 0 .. m + 1 /\ m # m + 1
          BY <3>1
        <4>2. e[k] = [f[m] EXCEPT ![o[k]] = Lower(f[m], o[k], l, d, r)] /\ e[m] = f[m]
          BY <3>1, <4>1
        <4> HIDE DEF e
        <4>3. QED
          BY <4>1, <4>2
      <3>2. CASE k # m + 1
        <4>1. k \in 0 .. m /\ (k # 0 => k - 1 \in 0 .. m /\ k - 1 # m + 1)
          BY <3>2
        <4>2. f[k] = IF k = 0 THEN x ELSE [f[k - 1] EXCEPT ![o[k]] = Lower(f[k - 1], o[k], l, d, r)]
          BY <2>1, <4>1 DEF LowerWrites
        <4>3. e[k] = f[k] /\ (k # 0 => e[k - 1] = f[k - 1])
          BY <3>2, <4>1
        <4> HIDE DEF e
        <4>4. QED
          BY <4>2, <4>3
      <3>3. QED
        BY <3>1, <3>2
    <2>3. e = [k \in 0 .. m + 1 |-> e[k]]
      OBVIOUS
    <2> HIDE DEF e
    <2>4. LowerWrites(e, m + 1, o, x, l, d, r)
      BY <2>2, <2>3 DEF LowerWrites
    <2>5. m + 1 \in 0 .. n
      OBVIOUS
    <2>6. QED
      BY <2>4, <2>5
  <1>3. n \in S
    <2>1. n \in 0 .. n
      OBVIOUS
    <2> HIDE DEF S
    <2>2. QED
      BY <1>1, <1>2, <2>1, Induction
  <1>4. QED
    BY <1>3

HigherWrites(f, n, o, x, d, r) ==
  f = [k \in 0 .. n |-> IF k = 0 THEN x ELSE [f[k - 1] EXCEPT ![o[k]] = Higher(f[k - 1], o[k], d, r)]]

LEMMA HigherWritesExist ==
  ASSUME NEW n \in Nat, NEW o, NEW x, NEW d, NEW r
  PROVE  \E f : HigherWrites(f, n, o, x, d, r)
  <1> DEFINE S == {m \in 0 .. n : \E f : HigherWrites(f, m, o, x, d, r)}
  <1>1. 0 \in S
    <2>1. HigherWrites([k \in 0 .. 0 |-> x], 0, o, x, d, r)
      BY DEF HigherWrites
    <2>2. QED
      BY <2>1
  <1>2. ASSUME NEW m \in 0 .. n - 1, m \in S PROVE m + 1 \in S
    <2>1. PICK f : HigherWrites(f, m, o, x, d, r)
      BY <1>2
    <2> DEFINE e == [k \in 0 .. m + 1 |-> IF k = m + 1 THEN [f[m] EXCEPT ![o[(m + 1)]] = Higher(f[m], o[(m + 1)], d, r)] ELSE f[k]]
    <2>2. ASSUME NEW k \in 0 .. m + 1
          PROVE  e[k] = IF k = 0 THEN x ELSE [e[k - 1] EXCEPT ![o[k]] = Higher(e[k - 1], o[k], d, r)]
      <3>1. CASE k = m + 1
        <4>1. k # 0 /\ k - 1 = m /\ m \in 0 .. m + 1 /\ m # m + 1
          BY <3>1
        <4>2. e[k] = [f[m] EXCEPT ![o[k]] = Higher(f[m], o[k], d, r)] /\ e[m] = f[m]
          BY <3>1, <4>1
        <4> HIDE DEF e
        <4>3. QED
          BY <4>1, <4>2
      <3>2. CASE k # m + 1
        <4>1. k \in 0 .. m /\ (k # 0 => k - 1 \in 0 .. m /\ k - 1 # m + 1)
          BY <3>2
        <4>2. f[k] = IF k = 0 THEN x ELSE [f[k - 1] EXCEPT ![o[k]] = Higher(f[k - 1], o[k], d, r)]
          BY <2>1, <4>1 DEF HigherWrites
        <4>3. e[k] = f[k] /\ (k # 0 => e[k - 1] = f[k - 1])
          BY <3>2, <4>1
        <4> HIDE DEF e
        <4>4. QED
          BY <4>2, <4>3
      <3>3. QED
        BY <3>1, <3>2
    <2>3. e = [k \in 0 .. m + 1 |-> e[k]]
      OBVIOUS
    <2> HIDE DEF e
    <2>4. HigherWrites(e, m + 1, o, x, d, r)
      BY <2>2, <2>3 DEF HigherWrites
    <2>5. m + 1 \in 0 .. n
      OBVIOUS
    <2>6. QED
      BY <2>4, <2>5
  <1>3. n \in S
    <2>1. n \in 0 .. n
      OBVIOUS
    <2> HIDE DEF S
    <2>2. QED
      BY <1>1, <1>2, <2>1, Induction
  <1>4. QED
    BY <1>3

\* A vector of M words, and the orders in which its words are written.
Words(x, m) == x = [k \in 0 .. m - 1 |-> x[k]]
FirstToLast(o, n) == \A j \in 1 .. n : o[j] = j - 1
LastToFirst(o, n) == \A j \in 1 .. n : o[j] = 4 - j

\* Words are written before they are read again: each assignment finds those it reads as
\* they were.
LEMMA LowerWritesInPlace ==
  ASSUME NEW m \in Nat, NEW d \in 0 .. m - 1, NEW r, NEW x,
         Words(x, m), NEW o, FirstToLast(o, m - d),
         NEW f, LowerWrites(f, m - d, o, x, m, d, r)
  PROVE  \A k \in 0 .. m - 1 : k < m - d => f[m - d][k] = Lower(x, k, m, d, r)
  <1> DEFINE n == m - d
             done(j) == [k \in 0 .. m - 1 |-> IF k < j THEN Lower(x, k, m, d, r) ELSE x[k]]
             S == {j \in 0 .. n : f[j] = done(j)}
  <1>1. n \in Nat /\ n + d = m /\ d \in Nat
    OBVIOUS
  <1>11. DOMAIN x = 0 .. m - 1 /\ x = [k \in 0 .. m - 1 |-> x[k]]
    BY DEF Words
  <1>12. \A j \in 1 .. n : o[j] = j - 1
    BY DEF FirstToLast
  <1>2. f = [j \in 0 .. n |-> IF j = 0 THEN x
                              ELSE [f[j - 1] EXCEPT ![o[j]] = Lower(f[j - 1], o[j], m, d, r)]]
    BY DEF LowerWrites
  <1> HIDE DEF n
  <1>3. 0 \in S
    <2>1. f[0] = x
      BY <1>1, <1>2
    <2>2. done(0) = x
      BY <1>11
    <2> HIDE DEF done
    <2>3. QED
      BY <1>1, <2>1, <2>2
  <1>4. \A j \in 0 .. n - 1 : j \in S => j + 1 \in S
    <2> SUFFICES ASSUME NEW j \in 0 .. n - 1, j \in S PROVE j + 1 \in S
      OBVIOUS
    <2>1. j + 1 \in 0 .. n /\ j + 1 \in 1 .. n /\ j + 1 # 0 /\ (j + 1) - 1 = j
          /\ j \in 0 .. m - 1 /\ j + d \in 0 .. m - 1 /\ ~(j + d < j) /\ ~(j + d + 1 < j)
          /\ (j + d + 1 < m => j + d + 1 \in 0 .. m - 1)
      BY <1>1
    <2>2. o[j + 1] = j
      BY <1>12, <2>1
    <2>3. f[j + 1] = [f[j] EXCEPT ![j] = Lower(f[j], j, m, d, r)]
      BY <1>2, <2>1, <2>2
    <2>4. f[j] = done(j)
      OBVIOUS
    <2>5. f[j][j + d] = x[j + d] /\ (j + d + 1 < m => f[j][j + d + 1] = x[j + d + 1])
      BY <1>11, <2>1, <2>4
    <2>6. Lower(f[j], j, m, d, r) = Lower(x, j, m, d, r)
      <3> DEFINE a == f[j]
      <3>1. a[j + d] = x[j + d] /\ (j + d + 1 < m => a[j + d + 1] = x[j + d + 1])
        BY <2>5
      <3> HIDE DEF a
      <3>2. Lower(a, j, m, d, r) = Lower(x, j, m, d, r)
        BY <3>1, Zenon DEF Lower
      <3>3. QED
        BY <3>2 DEF a
    <2>7. f[j + 1] = [done(j) EXCEPT ![j] = Lower(x, j, m, d, r)]
      BY <2>3, <2>4, <2>6
    <2>8. [done(j) EXCEPT ![j] = Lower(x, j, m, d, r)] = done(j + 1)
      <3> DEFINE e == [done(j) EXCEPT ![j] = Lower(x, j, m, d, r)]
      <3>1. e = [k \in 0 .. m - 1 |-> IF k = j THEN Lower(x, j, m, d, r) ELSE done(j)[k]]
        OBVIOUS
      <3>2. \A k \in 0 .. m - 1 :
              (IF k = j THEN Lower(x, j, m, d, r) ELSE done(j)[k])
                = IF k < j + 1 THEN Lower(x, k, m, d, r) ELSE x[k]
        BY <2>1
      <3> HIDE DEF e, S
      <3>3. QED
        BY <3>1, <3>2 DEF e
    <2> HIDE DEF done
    <2>9. QED
      BY <2>1, <2>7, <2>8
  <1>5. n \in S
    <2>1. n \in 0 .. n
      BY <1>1
    <2> HIDE DEF S
    <2>2. QED
      BY <1>1, <1>3, <1>4, <2>1, Induction
  <1>6. f[n] = done(n)
    BY <1>5
  <1> HIDE DEF S
  <1>7. \A k \in 0 .. m - 1 : k < n => done(n)[k] = Lower(x, k, m, d, r)
    OBVIOUS
  <1> HIDE DEF done
  <1>8. QED
    BY <1>6, <1>7 DEF n

LEMMA HigherPlaces ==
  ASSUME NEW d \in 0 .. 3, NEW j \in 0 .. (4 - d) - 1
  PROVE  LET p == 4 - (j + 1)
         IN  /\ j + 1 \in 0 .. 4 - d /\ j + 1 \in 1 .. 4 - d /\ j + 1 # 0 /\ (j + 1) - 1 = j
             /\ p \in 0 .. 3 /\ p - d \in 0 .. 3 /\ ~(p - d >= 4 - j)
             /\ ~(p - d - 1 >= 4 - j) /\ (p > d => p - d - 1 \in 0 .. 3)
  OBVIOUS

LEMMA HigherWritesInPlace ==
  ASSUME NEW d \in 0 .. 3, NEW r, NEW x, Words(x, 4), NEW o, LastToFirst(o, 4 - d),
         NEW f, HigherWrites(f, 4 - d, o, x, d, r)
  PROVE  \A k \in 0 .. 3 : k >= d => f[4 - d][k] = Higher(x, k, d, r)
  <1> DEFINE n == 4 - d
             done(j) == [k \in 0 .. 3 |-> IF k >= 4 - j THEN Higher(x, k, d, r) ELSE x[k]]
             S == {j \in 0 .. n : f[j] = done(j)}
  <1>1. n \in Nat /\ n + d = 4 /\ d \in Nat
    OBVIOUS
  <1>11. DOMAIN x = 0 .. 3 /\ x = [k \in 0 .. 3 |-> x[k]]
    BY DEF Words
  <1>12. \A j \in 1 .. n : o[j] = 4 - j
    BY DEF LastToFirst
  <1>2. f = [j \in 0 .. n |-> IF j = 0 THEN x
                              ELSE [f[j - 1] EXCEPT ![o[j]] = Higher(f[j - 1], o[j], d, r)]]
    BY DEF HigherWrites
  <1> HIDE DEF n
  <1>3. 0 \in S
    <2>1. f[0] = x
      BY <1>1, <1>2
    <2>2. done(0) = x
      BY <1>11
    <2> HIDE DEF done
    <2>3. QED
      BY <1>1, <2>1, <2>2
  <1>4. \A j \in 0 .. n - 1 : j \in S => j + 1 \in S
    <2> SUFFICES ASSUME NEW j \in 0 .. n - 1, j \in S PROVE j + 1 \in S
      OBVIOUS
    <2> DEFINE p == 4 - (j + 1)
    <2>1. j + 1 \in 0 .. n /\ j + 1 \in 1 .. n /\ j + 1 # 0 /\ (j + 1) - 1 = j
          /\ p \in 0 .. 3 /\ p - d \in 0 .. 3 /\ ~(p - d >= 4 - j) /\ ~(p - d - 1 >= 4 - j)
          /\ (p > d => p - d - 1 \in 0 .. 3)
      BY <1>1, HigherPlaces DEF n
    <2>10. \A k \in 0 .. 3 : k >= p <=> k = p \/ k >= 4 - j
      BY <1>1
    <2>2. o[j + 1] = p
      BY <1>12, <2>1
    <2> HIDE DEF p
    <2>3. f[j + 1] = [f[j] EXCEPT ![p] = Higher(f[j], p, d, r)]
      <3>1. \A i \in 0 .. n : f[i] = IF i = 0 THEN x
                              ELSE [f[i - 1] EXCEPT ![o[i]] = Higher(f[i - 1], o[i], d, r)]
        BY <1>2
      <3>2. f[j + 1] = [f[(j + 1) - 1] EXCEPT
                          ![o[j + 1]] = Higher(f[(j + 1) - 1], o[j + 1], d, r)]
        BY <2>1, <3>1, Zenon
      <3>3. QED
        BY <2>1, <2>2, <3>2, Zenon
    <2>4. f[j] = done(j)
      OBVIOUS
    <2>5. f[j][p - d] = x[p - d] /\ (p > d => f[j][p - d - 1] = x[p - d - 1])
      BY <1>11, <2>1, <2>4
    <2>6. Higher(f[j], p, d, r) = Higher(x, p, d, r)
      <3> DEFINE a == f[j]
      <3>1. a[p - d] = x[p - d] /\ (p > d => a[p - d - 1] = x[p - d - 1])
        BY <2>5
      <3> HIDE DEF a
      <3>2. Higher(a, p, d, r) = Higher(x, p, d, r)
        BY <3>1, Zenon DEF Higher
      <3>3. QED
        BY <3>2 DEF a
    <2>7. f[j + 1] = [done(j) EXCEPT ![p] = Higher(x, p, d, r)]
      BY <2>3, <2>4, <2>6
    <2>8. [done(j) EXCEPT ![p] = Higher(x, p, d, r)] = done(j + 1)
      <3> DEFINE e == [done(j) EXCEPT ![p] = Higher(x, p, d, r)]
      <3>1. e = [k \in 0 .. 3 |-> IF k = p THEN Higher(x, p, d, r) ELSE done(j)[k]]
        OBVIOUS
      <3>2. \A k \in 0 .. 3 :
              (IF k = p THEN Higher(x, p, d, r) ELSE done(j)[k])
                = IF k >= p THEN Higher(x, k, d, r) ELSE x[k]
        BY <2>10
      <3> HIDE DEF e, S
      <3>3. e = [k \in 0 .. 3 |-> IF k >= p THEN Higher(x, k, d, r) ELSE x[k]]
        BY <3>1, <3>2
      <3>4. QED
        BY <3>3 DEF e, p
    <2> HIDE DEF done
    <2>9. QED
      BY <2>1, <2>7, <2>8
  <1>5. n \in S
    <2>1. n \in 0 .. n
      BY <1>1
    <2> HIDE DEF S
    <2>2. QED
      BY <1>1, <1>3, <1>4, <2>1, Induction
  <1>6. f[n] = done(n)
    BY <1>5
  <1> HIDE DEF S
  <1>8. \A k \in 0 .. 3 : k >= d => done(n)[k] = Higher(x, k, d, r)
    <2>1. \A k \in 0 .. 3 : k >= d => done(4 - d)[k] = Higher(x, k, d, r)
      OBVIOUS
    <2> HIDE DEF done
    <2>2. QED
      BY <2>1 DEF n
  <1> HIDE DEF done
  <1>9. QED
    BY <1>6, <1>8 DEF n

LEMMA UpMoves ==
  ASSUME NEW w, w \subseteq Int, NEW n \in Int, NEW i \in Positions
  PROVE  i \in up(w, n) <=> i - n \in w
  BY DEF up, Positions, bits_per_word

LEMMA DownMoves ==
  ASSUME NEW w, w \subseteq Int, NEW n \in Int, NEW i \in Positions
  PROVE  i \in down(w, n) <=> i + n \in w
  BY DEF down, Positions, bits_per_word

\* The vector of M words in which the bits in B are set.
Vector(B, m) == [k \in 0 .. m - 1 |-> {i \in Positions : (32 * k) + i \in B}]

\* Word K of what a shift by D words and R bits makes of such a vector.
LowerWord(B, k, m, d, r) ==
  {i \in Positions : /\ (32 * k) + i + ((32 * d) + r) \in B
                     /\ (32 * k) + i + ((32 * d) + r) < 32 * m}
HigherWord(B, k, d, r) ==
  {i \in Positions : /\ (32 * k) + i - ((32 * d) + r) \in B
                     /\ (32 * k) + i - ((32 * d) + r) >= 0}

LEMMA LowerIs ==
  ASSUME NEW m \in Nat, NEW d \in Nat, NEW r \in 0 .. 31, NEW B,
         NEW k \in Nat, k + d < m
  PROVE  Lower(Vector(B, m), k, m, d, r) = LowerWord(B, k, m, d, r)
  <1> DEFINE x == Vector(B, m)
             a == x[k + d]
             b == IF k + d + 1 < m THEN up(x[k + d + 1], 32 - r) ELSE {}
  <1>1. Lower(x, k, m, d, r) = down(a, r) \cup b
    BY DEF Lower, bits_per_word
  <1>2. \A i \in Positions : i \in 0 .. 31
    BY DEF Positions, bits_per_word
  <1>3. a = {i \in Positions : (32 * (k + d)) + i \in B}
    BY DEF Vector
  <1>4. k + d + 1 < m => x[k + d + 1] = {i \in Positions : (32 * (k + d + 1)) + i \in B}
    BY DEF Vector
  <1>5. \A i \in Positions : i \in down(a, r) <=> i + r \in Positions /\ (32 * (k + d)) + (i + r) \in B
    <2>1. a \subseteq Int
      BY <1>2, <1>3
    <2>2. \A i \in Positions : i \in down(a, r) <=> i + r \in a
      BY <2>1, DownMoves
    <2> HIDE DEF a
    <2>3. QED
      BY <1>3, <2>2
  <1>6. \A i \in Positions : i \in b <=> /\ k + d + 1 < m /\ i - (32 - r) \in Positions
                                         /\ (32 * (k + d + 1)) + (i - (32 - r)) \in B
    <2> DEFINE c == x[k + d + 1]
    <2>1. CASE k + d + 1 < m
      <3>1. c = {i \in Positions : (32 * (k + d + 1)) + i \in B}
        BY <1>4, <2>1
      <3> HIDE DEF c
      <3>2. c \subseteq Int
        BY <1>2, <3>1
      <3>3. \A i \in Positions : i \in up(c, 32 - r) <=> i - (32 - r) \in c
        <4> DEFINE e == 32 - r
        <4>1. e \in Int
          OBVIOUS
        <4> HIDE DEF e
        <4>2. \A i \in Positions : i \in up(c, e) <=> i - e \in c
          BY <3>2, <4>1, UpMoves
        <4>3. QED
          BY <4>2 DEF e
      <3>4. b = up(c, 32 - r)
        BY <2>1 DEF c
      <3> HIDE DEF b
      <3>5. QED
        BY <2>1, <3>1, <3>3, <3>4
    <2>2. CASE ~(k + d + 1 < m)
      <3>1. b = {}
        BY <2>2
      <3> HIDE DEF b
      <3>2. QED
        BY <2>2, <3>1
    <2>3. QED
      BY <2>1, <2>2
  <1>7. down(a, r) \subseteq Positions /\ b \subseteq Positions
    BY DEF down, up
  <1> HIDE DEF a, b
  <1>8. \A i \in Positions :
          i \in down(a, r) \/ i \in b
            <=> /\ (32 * k) + i + ((32 * d) + r) \in B
                /\ (32 * k) + i + ((32 * d) + r) < 32 * m
    <2> TAKE i \in Positions
    <2> DEFINE t == (32 * k) + i + ((32 * d) + r)
    <2>1. /\ (32 * (k + d)) + (i + r) = t /\ (32 * (k + d + 1)) + (i - (32 - r)) = t
      BY <1>2
    <2>5. /\ i \in down(a, r) <=> i + r \in Positions /\ t \in B
          /\ i \in b <=> k + d + 1 < m /\ i - (32 - r) \in Positions /\ t \in B
      <3> HIDE DEF t
      <3>1. /\ i \in down(a, r) <=> i + r \in Positions /\ (32 * (k + d)) + (i + r) \in B
            /\ i \in b <=> k + d + 1 < m /\ i - (32 - r) \in Positions /\ (32 * (k + d + 1)) + (i - (32 - r)) \in B
        BY <1>5, <1>6, Zenon
      <3>2. QED
        BY <2>1, <3>1, Zenon
    <2>2. CASE i + r < 32
      <3>1. i + r \in Positions /\ ~(i - (32 - r) \in Positions) /\ t < 32 * m
        BY <1>2, <2>2 DEF Positions, bits_per_word
      <3> HIDE DEF t
      <3>2. QED
        BY <2>5, <3>1, Zenon DEF t
    <2>3. CASE ~(i + r < 32)
      <3>1. ~(i + r \in Positions) /\ i - (32 - r) \in Positions
            /\ (t < 32 * m <=> k + d + 1 < m)
        BY <1>2, <2>3 DEF Positions, bits_per_word
      <3> HIDE DEF t
      <3>2. QED
        BY <2>5, <3>1, Zenon DEF t
    <2>4. QED
      BY <2>2, <2>3
  <1>9. Lower(x, k, m, d, r) = {i \in Positions : /\ (32 * k) + i + ((32 * d) + r) \in B
                                                /\ (32 * k) + i + ((32 * d) + r) < 32 * m}
    BY <1>1, <1>7, <1>8
  <1>10. QED
    BY <1>9, Zenon DEF LowerWord

LEMMA HigherIs ==
  ASSUME NEW d \in Nat, NEW r \in 0 .. 31, NEW B, NEW k \in 0 .. 3, k >= d
  PROVE  Higher(Vector(B, 4), k, d, r) = HigherWord(B, k, d, r)
  <1> DEFINE x == Vector(B, 4)
             a == x[k - d]
             b == IF k > d THEN down(x[k - d - 1], 32 - r) ELSE {}
  <1>1. Higher(x, k, d, r) = up(a, r) \cup b
    BY DEF Higher, bits_per_word
  <1>2. \A i \in Positions : i \in 0 .. 31
    BY DEF Positions, bits_per_word
  <1>3. a = {i \in Positions : (32 * (k - d)) + i \in B}
    BY DEF Vector
  <1>4. k > d => x[k - d - 1] = {i \in Positions : (32 * (k - d - 1)) + i \in B}
    BY DEF Vector
  <1>5. \A i \in Positions : i \in up(a, r) <=> i - r \in Positions /\ (32 * (k - d)) + (i - r) \in B
    <2>1. a \subseteq Int
      BY <1>2, <1>3
    <2>2. \A i \in Positions : i \in up(a, r) <=> i - r \in a
      BY <2>1, UpMoves
    <2> HIDE DEF a
    <2>3. QED
      BY <1>3, <2>2
  <1>6. \A i \in Positions : i \in b <=> /\ k > d /\ i + (32 - r) \in Positions
                                         /\ (32 * (k - d - 1)) + (i + (32 - r)) \in B
    <2> DEFINE c == x[k - d - 1]
    <2>1. CASE k > d
      <3>1. c = {i \in Positions : (32 * (k - d - 1)) + i \in B}
        BY <1>4, <2>1
      <3> HIDE DEF c
      <3>2. c \subseteq Int
        BY <1>2, <3>1
      <3>3. \A i \in Positions : i \in down(c, 32 - r) <=> i + (32 - r) \in c
        <4> DEFINE e == 32 - r
        <4>1. e \in Int
          OBVIOUS
        <4> HIDE DEF e
        <4>2. \A i \in Positions : i \in down(c, e) <=> i + e \in c
          BY <3>2, <4>1, DownMoves
        <4>3. QED
          BY <4>2 DEF e
      <3>4. b = down(c, 32 - r)
        BY <2>1 DEF c
      <3> HIDE DEF b
      <3>5. QED
        BY <2>1, <3>1, <3>3, <3>4
    <2>2. CASE ~(k > d)
      <3>1. b = {}
        BY <2>2
      <3> HIDE DEF b
      <3>2. QED
        BY <2>2, <3>1
    <2>3. QED
      BY <2>1, <2>2
  <1>7. up(a, r) \subseteq Positions /\ b \subseteq Positions
    BY DEF down, up
  <1> HIDE DEF a, b
  <1>8. \A i \in Positions :
          i \in up(a, r) \/ i \in b
            <=> /\ (32 * k) + i - ((32 * d) + r) \in B
                /\ (32 * k) + i - ((32 * d) + r) >= 0
    <2> TAKE i \in Positions
    <2> DEFINE t == (32 * k) + i - ((32 * d) + r)
    <2>1. /\ (32 * (k - d)) + (i - r) = t /\ (32 * (k - d - 1)) + (i + (32 - r)) = t
      BY <1>2
    <2>5. /\ i \in up(a, r) <=> i - r \in Positions /\ t \in B
          /\ i \in b <=> k > d /\ i + (32 - r) \in Positions /\ t \in B
      <3> HIDE DEF t
      <3>1. /\ i \in up(a, r) <=> i - r \in Positions /\ (32 * (k - d)) + (i - r) \in B
            /\ i \in b <=> k > d /\ i + (32 - r) \in Positions /\ (32 * (k - d - 1)) + (i + (32 - r)) \in B
        BY <1>5, <1>6, Zenon
      <3>2. QED
        BY <2>1, <3>1, Zenon
    <2>2. CASE i >= r
      <3>1. i - r \in Positions /\ ~(i + (32 - r) \in Positions) /\ t >= 0
        BY <1>2, <2>2 DEF Positions, bits_per_word
      <3> HIDE DEF t
      <3>2. QED
        BY <2>5, <3>1, Zenon DEF t
    <2>3. CASE ~(i >= r)
      <3>1. ~(i - r \in Positions) /\ i + (32 - r) \in Positions
            /\ (t >= 0 <=> k > d)
        BY <1>2, <2>3 DEF Positions, bits_per_word
      <3> HIDE DEF t
      <3>2. QED
        BY <2>5, <3>1, Zenon DEF t
    <2>4. QED
      BY <2>2, <2>3
  <1>9. Higher(x, k, d, r) = {i \in Positions : /\ (32 * k) + i - ((32 * d) + r) \in B
                                              /\ (32 * k) + i - ((32 * d) + r) >= 0}
    BY <1>1, <1>7, <1>8
  <1>10. QED
    BY <1>9, Zenon DEF HigherWord

LEMMA VectorSize ==
  ASSUME NEW m \in Nat, NEW B
  PROVE  DOMAIN Vector(B, m) = 0 .. m - 1 /\ Cardinality(DOMAIN Vector(B, m)) = m
  <1>1. DOMAIN Vector(B, m) = 0 .. m - 1
    BY DEF Vector
  <1>2. Cardinality(0 .. m - 1) = m
    <2>1. 0 \in Int /\ m - 1 \in Int
      OBVIOUS
    <2>2. Cardinality(0 .. m - 1) = IF 0 > m - 1 THEN 0 ELSE (m - 1) - 0 + 1
      BY <2>1, FS_Interval
    <2>3. QED
      BY <2>2
  <1>3. QED
    BY <1>1, <1>2

LEMMA VectorWords ==
  ASSUME NEW m, NEW B
  PROVE  Words(Vector(B, m), m)
  BY DEF Words, Vector

\* The words that are written hold the bits from D words and R places higher, or lower.
LEMMA LowerWords ==
  ASSUME NEW m \in Nat, NEW d \in 0 .. m - 1, NEW r \in 0 .. 31, NEW B,
         NEW o, FirstToLast(o, m - d),
         NEW f, LowerWrites(f, m - d, o, Vector(B, m), m, d, r)
  PROVE  \A k \in 0 .. m - 1 : k < m - d => f[m - d][k] = LowerWord(B, k, m, d, r)
  <1>1. \A k \in 0 .. m - 1 : k < m - d => f[m - d][k] = Lower(Vector(B, m), k, m, d, r)
    BY LowerWritesInPlace, VectorWords
  <1>2. \A k \in 0 .. m - 1 :
          k < m - d => Lower(Vector(B, m), k, m, d, r) = LowerWord(B, k, m, d, r)
    <2> TAKE k \in 0 .. m - 1
    <2> HAVE k < m - d
    <2>1. k \in Nat /\ d \in Nat /\ k + d < m
      OBVIOUS
    <2>2. QED
      BY <2>1, LowerIs
  <1>3. QED
    BY <1>1, <1>2

LEMMA HigherWords ==
  ASSUME NEW d \in 0 .. 3, NEW r \in 0 .. 31, NEW B,
         NEW o, LastToFirst(o, 4 - d),
         NEW f, HigherWrites(f, 4 - d, o, Vector(B, 4), d, r)
  PROVE  \A k \in 0 .. 3 : k >= d => f[4 - d][k] = HigherWord(B, k, d, r)
  <1>1. \A k \in 0 .. 3 : k >= d => f[4 - d][k] = Higher(Vector(B, 4), k, d, r)
    BY HigherWritesInPlace, VectorWords
  <1>2. \A k \in 0 .. 3 : k >= d => Higher(Vector(B, 4), k, d, r) = HigherWord(B, k, d, r)
    BY HigherIs
  <1>3. QED
    BY <1>1, <1>2

\* The bits a shift by N places leaves: those that move to lower places and do not leave a
\* vector of M words, and those that move to higher places.
Lowered(B, n, m) == {b \in Nat : b + n \in B /\ b + n < 32 * m}
Raised(B, n) == {b \in Nat : b - n \in B /\ b - n >= 0}

LEMMA LowerPlace ==
  ASSUME NEW m \in Nat, NEW d \in Nat, NEW r \in 0 .. 31, NEW k \in 0 .. m - 1, NEW i \in 0 .. 31
  PROVE  LET b == (32 * k) + i
             n == (32 * d) + r
         IN  b \in Nat /\ (b + n < 32 * m => k < m - d) /\ b + n = (32 * k) + i + ((32 * d) + r)
  OBVIOUS

LEMMA LowerVector ==
  ASSUME NEW m \in Nat, NEW d \in Nat, NEW r \in 0 .. 31, NEW B,
         NEW y, y = [k \in 0 .. m - 1 |-> IF k < m - d THEN LowerWord(B, k, m, d, r) ELSE {}]
  PROVE  y = Vector(Lowered(B, (32 * d) + r, m), m)
  <1> DEFINE n == (32 * d) + r
             C == Lowered(B, n, m)
  <1>1. \A i \in Positions : i \in 0 .. 31
    BY DEF Positions, bits_per_word
  <1>2. \A k \in 0 .. m - 1, i \in Positions :
          /\ (32 * k) + i \in C
               <=> (32 * k) + i + ((32 * d) + r) \in B /\ (32 * k) + i + ((32 * d) + r) < 32 * m
          /\ (32 * k) + i + ((32 * d) + r) < 32 * m => k < m - d
    <2> TAKE k \in 0 .. m - 1, i \in Positions
    <2> DEFINE b == (32 * k) + i
    <2>1. b \in Nat /\ (b + n < 32 * m => k < m - d) /\ b + n = (32 * k) + i + ((32 * d) + r)
      BY <1>1, LowerPlace
    <2> HIDE DEF b, n
    <2>2. b \in C <=> b + n \in B /\ b + n < 32 * m
      BY <2>1 DEF Lowered
    <2> HIDE DEF C
    <2>3. /\ b \in C <=> (32 * k) + i + ((32 * d) + r) \in B /\ (32 * k) + i + ((32 * d) + r) < 32 * m
          /\ (32 * k) + i + ((32 * d) + r) < 32 * m => k < m - d
      BY <2>1, <2>2
    <2>4. QED
      BY <2>3 DEF b
  <1> HIDE DEF n, C
  <1>3. \A k \in 0 .. m - 1 :
          (IF k < m - d THEN LowerWord(B, k, m, d, r) ELSE {}) = {i \in Positions : (32 * k) + i \in C}
    <2> TAKE k \in 0 .. m - 1
    <2>1. CASE k < m - d
      <3>1. LowerWord(B, k, m, d, r) = {i \in Positions : (32 * k) + i \in C}
        BY <1>2, Zenon DEF LowerWord
      <3>2. QED
        BY <2>1, <3>1, Zenon
    <2>2. CASE ~(k < m - d)
      <3>1. {i \in Positions : (32 * k) + i \in C} = {}
        BY <1>2, <2>2, Zenon
      <3>2. QED
        BY <2>2, <3>1, Zenon
    <2>3. QED
      BY <2>1, <2>2
  <1>4. y = [k \in 0 .. m - 1 |-> {i \in Positions : (32 * k) + i \in C}]
    BY <1>3, Zenon
  <1>5. QED
    BY <1>4 DEF Vector, C, n

LEMMA HigherVector ==
  ASSUME NEW d \in Nat, NEW r \in 0 .. 31, NEW B,
         NEW y, y = [k \in 0 .. 3 |-> IF k >= d THEN HigherWord(B, k, d, r) ELSE {}]
  PROVE  y = Vector(Raised(B, (32 * d) + r), 4)
  <1> DEFINE n == (32 * d) + r
             C == Raised(B, n)
  <1>1. \A i \in Positions : i \in 0 .. 31
    BY DEF Positions, bits_per_word
  <1>2. \A k \in 0 .. 3, i \in Positions :
          /\ (32 * k) + i \in C
               <=> (32 * k) + i - ((32 * d) + r) \in B /\ (32 * k) + i - ((32 * d) + r) >= 0
          /\ (32 * k) + i - ((32 * d) + r) >= 0 => k >= d
    <2> TAKE k \in 0 .. 3, i \in Positions
    <2> DEFINE b == (32 * k) + i
    <2>1. b \in Nat /\ (b - n >= 0 => k >= d) /\ b - n = (32 * k) + i - ((32 * d) + r)
      BY <1>1
    <2> HIDE DEF b, n
    <2>2. b \in C <=> b - n \in B /\ b - n >= 0
      BY <2>1 DEF Raised
    <2> HIDE DEF C
    <2>3. /\ b \in C <=> (32 * k) + i - ((32 * d) + r) \in B /\ (32 * k) + i - ((32 * d) + r) >= 0
          /\ (32 * k) + i - ((32 * d) + r) >= 0 => k >= d
      BY <2>1, <2>2
    <2>4. QED
      BY <2>3 DEF b
  <1> HIDE DEF n, C
  <1>3. \A k \in 0 .. 3 :
          (IF k >= d THEN HigherWord(B, k, d, r) ELSE {}) = {i \in Positions : (32 * k) + i \in C}
    <2> TAKE k \in 0 .. 3
    <2>1. CASE k >= d
      <3>1. HigherWord(B, k, d, r) = {i \in Positions : (32 * k) + i \in C}
        BY <1>2, Zenon DEF HigherWord
      <3>2. QED
        BY <2>1, <3>1, Zenon
    <2>2. CASE ~(k >= d)
      <3>1. {i \in Positions : (32 * k) + i \in C} = {}
        BY <1>2, <2>2, Zenon
      <3>2. QED
        BY <2>2, <3>1, Zenon
    <2>3. QED
      BY <2>1, <2>2
  <1>4. y = [k \in 0 .. 3 |-> {i \in Positions : (32 * k) + i \in C}]
    BY <1>3, Zenon
  <1>5. QED
    BY <1>4 DEF Vector, C, n

\* A shift to lower places moves every bit of a vector by as many places, and loses those
\* that leave it.
LEMMA LeftShiftMoves ==
  ASSUME NEW m \in Nat \ {0}, NEW n \in Nat, NEW B
  PROVE  bitvector_left_shift(Vector(B, m), n) = Vector(Lowered(B, n, m), m)
  <1> DEFINE x == Vector(B, m)
             l == Cardinality(DOMAIN x)
             d == n \div bits_per_word
             r == n % bits_per_word
             o == [j \in 1 .. l - d |-> j - 1]
             f == CHOOSE w : w = [j \in 0 .. Len(o) |->
                                    IF j = 0 THEN x
                                    ELSE [w[j - 1] EXCEPT ![o[j]] = Lower(w[j - 1], o[j], l, d, r)]]
             res == bitvector_left_shift(x, n)
  <1>1. res = IF n >= bits_per_word * l THEN [k \in DOMAIN x |-> {}]
              ELSE [k \in DOMAIN x |-> IF k < l - d THEN f[Len(o)][k] ELSE {}]
    BY Zenon DEF bitvector_left_shift, bitvector_set_to_zero, inPlace, Lower
  <1>2. l = m /\ DOMAIN x = 0 .. m - 1
    BY VectorSize
  <1>3. x = Vector(B, m)
    OBVIOUS
  <1> HIDE DEF l, x, res
  <1>4. d \in Nat /\ r \in 0 .. 31 /\ n = (32 * d) + r /\ bits_per_word = 32
    BY DEF bits_per_word
  <1> HIDE DEF d, r
  <1>5. CASE n >= 32 * m
    <2>1. res = [k \in 0 .. m - 1 |-> {}]
      BY <1>1, <1>2, <1>4, <1>5
    <2>2. Lowered(B, n, m) = {}
      BY <1>5 DEF Lowered
    <2>3. Vector({}, m) = [k \in 0 .. m - 1 |-> {}]
      BY DEF Vector
    <2>4. QED
      BY <2>1, <2>2, <2>3 DEF res, x
  <1>6. CASE ~(n >= 32 * m)
    <2>1. d \in 0 .. m - 1 /\ m - d \in Nat
      BY <1>4, <1>6
    <2>2. Len(o) = m - d /\ FirstToLast(o, m - d)
      BY <1>2, <2>1 DEF FirstToLast
    <2> HIDE DEF o
    <2>3. LowerWrites(f, m - d, o, x, m, d, r)
      <3>1. \E g : LowerWrites(g, m - d, o, x, m, d, r)
        BY <2>1, LowerWritesExist
      <3>2. \E g : LowerWrites(g, Len(o), o, x, l, d, r)
        BY <1>2, <2>2, <3>1
      <3>3. LowerWrites(f, Len(o), o, x, l, d, r)
        BY <3>2, Zenon DEF LowerWrites
      <3> HIDE DEF f
      <3>4. QED
        BY <1>2, <2>2, <3>3
    <2> HIDE DEF f
    <2>4. \A k \in 0 .. m - 1 : k < m - d => f[m - d][k] = LowerWord(B, k, m, d, r)
      <3>1. LowerWrites(f, m - d, o, Vector(B, m), m, d, r)
        BY <1>3, <2>3
      <3>2. r \in 0 .. 31
        BY <1>4
      <3>3. m \in Nat /\ d \in 0 .. m - 1 /\ FirstToLast(o, m - d)
        BY <2>1, <2>2
      <3> DEFINE meets(p, g) == LowerWrites(g, m - d, p, Vector(B, m), m, d, r)
                 right(g) == \A k \in 0 .. m - 1 : k < m - d => g[m - d][k] = LowerWord(B, k, m, d, r)
      <3>4. \A p, g : FirstToLast(p, m - d) /\ meets(p, g) => right(g)
        BY <3>2, <3>3, LowerWords
      <3>5. meets(o, f)
        BY <3>1
      <3> HIDE DEF meets, right
      <3>6. right(f)
        BY <3>3, <3>4, <3>5
      <3>7. QED
        BY <3>6 DEF right
    <2>5. res = [k \in 0 .. m - 1 |-> IF k < m - d THEN f[m - d][k] ELSE {}]
      BY <1>1, <1>2, <1>4, <1>6, <2>2
    <2>6. res = [k \in 0 .. m - 1 |-> IF k < m - d THEN LowerWord(B, k, m, d, r) ELSE {}]
      BY <2>4, <2>5
    <2>7. res = Vector(Lowered(B, (32 * d) + r, m), m)
      BY <1>4, <2>6, LowerVector
    <2>8. QED
      BY <1>4, <2>7 DEF res, x
  <1>7. QED
    BY <1>5, <1>6

\* A shift of a value to higher places as well.
LEMMA RightShiftMoves ==
  ASSUME NEW n \in Nat, NEW B
  PROVE  v128_right_shift(Vector(B, 4), n) = Vector(Raised(B, n), 4)
  <1> DEFINE x == Vector(B, 4)
             d == n \div bits_per_word
             r == n % bits_per_word
             o == [j \in 1 .. 4 - d |-> 4 - j]
             f == CHOOSE w : w = [j \in 0 .. Len(o) |->
                                    IF j = 0 THEN x
                                    ELSE [w[j - 1] EXCEPT ![o[j]] = Higher(w[j - 1], o[j], d, r)]]
             res == v128_right_shift(x, n)
  <1>1. res = IF n > 127 THEN [k \in DOMAIN x |-> {}]
              ELSE [k \in 0 .. 3 |-> IF k >= d THEN f[Len(o)][k] ELSE {}]
    BY Zenon DEF v128_right_shift, bitvector_set_to_zero, inPlace, Higher
  <1>2. DOMAIN x = 0 .. 3
    BY DEF Vector
  <1>3. x = Vector(B, 4)
    OBVIOUS
  <1> HIDE DEF x, res
  <1>4. d \in Nat /\ r \in 0 .. 31 /\ n = (32 * d) + r
    BY DEF bits_per_word
  <1> HIDE DEF d, r
  <1>5. CASE n > 127
    <2>1. res = [k \in 0 .. 3 |-> {}]
      BY <1>1, <1>2, <1>5
    <2>2. \A k \in 0 .. 3 : \A i \in Positions : (32 * k) + i \notin Raised(B, n)
      BY <1>5 DEF Raised, Positions, bits_per_word
    <2>3. Vector(Raised(B, n), 4) = [k \in 0 .. 3 |-> {}]
      <3>1. \A k \in 0 .. 3 : {i \in Positions : (32 * k) + i \in Raised(B, n)} = {}
        BY <2>2, Zenon
      <3>2. 4 - 1 = 3
        OBVIOUS
      <3>3. QED
        BY <3>1, <3>2 DEF Vector
    <2>4. QED
      BY <2>1, <2>3 DEF res, x
  <1>6. CASE ~(n > 127)
    <2>1. d \in 0 .. 3 /\ 4 - d \in Nat
      BY <1>4, <1>6
    <2>2. Len(o) = 4 - d /\ LastToFirst(o, 4 - d)
      BY <2>1 DEF LastToFirst
    <2> HIDE DEF o
    <2>3. HigherWrites(f, 4 - d, o, x, d, r)
      <3>1. \E g : HigherWrites(g, 4 - d, o, x, d, r)
        BY <2>1, HigherWritesExist
      <3>2. \E g : HigherWrites(g, Len(o), o, x, d, r)
        BY <2>2, <3>1
      <3>3. HigherWrites(f, Len(o), o, x, d, r)
        BY <3>2, Zenon DEF HigherWrites
      <3> HIDE DEF f
      <3>4. QED
        BY <2>2, <3>3
    <2> HIDE DEF f
    <2>4. \A k \in 0 .. 3 : k >= d => f[4 - d][k] = HigherWord(B, k, d, r)
      <3>1. HigherWrites(f, 4 - d, o, Vector(B, 4), d, r)
        BY <1>3, <2>3
      <3>2. r \in 0 .. 31
        BY <1>4
      <3> DEFINE meets(p, g) == HigherWrites(g, 4 - d, p, Vector(B, 4), d, r)
                 right(g) == \A k \in 0 .. 3 : k >= d => g[4 - d][k] = HigherWord(B, k, d, r)
      <3>4. \A p, g : LastToFirst(p, 4 - d) /\ meets(p, g) => right(g)
        BY <2>1, <3>2, HigherWords
      <3>5. meets(o, f)
        BY <3>1
      <3> HIDE DEF meets, right
      <3>6. right(f)
        BY <2>2, <3>4, <3>5
      <3>7. QED
        BY <3>6 DEF right
    <2>5. res = [k \in 0 .. 3 |-> IF k >= d THEN f[4 - d][k] ELSE {}]
      BY <1>1, <1>6, <2>2
    <2>6. res = [k \in 0 .. 3 |-> IF k >= d THEN HigherWord(B, k, d, r) ELSE {}]
      BY <2>4, <2>5
    <2>7. res = Vector(Raised(B, (32 * d) + r), 4)
      BY <1>4, <2>6, HigherVector
    <2>8. QED
      BY <1>4, <2>7 DEF res, x
  <1>7. QED
    BY <1>5, <1>6

\* A bit of a vector is read where it is.
LEMMA BitIsRead ==
  ASSUME NEW m \in Nat \ {0}, NEW C, NEW b \in 0 .. (32 * m) - 1
  PROVE  bitvector_get_bit(Vector(C, m), b) <=> b \in C
  <1> DEFINE q == b \div 32
             t == b % 32
  <1>1. q \in 0 .. m - 1 /\ t \in 0 .. 31 /\ (32 * q) + t = b
    OBVIOUS
  <1>2. bitvector_get_bit(Vector(C, m), b) <=> t \in Vector(C, m)[q]
    BY DEF bitvector_get_bit, bits_per_word
  <1> HIDE DEF q, t
  <1>3. Vector(C, m)[q] = {i \in 0 .. 31 : (32 * q) + i \in C}
    BY <1>1 DEF Vector, Positions, bits_per_word
  <1>4. QED
    BY <1>1, <1>2, <1>3

LEMMA BitIsHere ==
  ASSUME NEW b \in Nat, NEW k \in Nat, NEW i \in 0 .. 31
  PROVE  (32 * k) + i = b <=> k = b \div 32 /\ i = b % 32
  OBVIOUS

\* A bit that is cleared and set again leaves the vector as it was with it.
LEMMA BitIsCleared ==
  ASSUME NEW m \in Nat, NEW C, NEW b \in 0 .. (32 * m) - 1
  PROVE  bitvector_clear_bit(Vector(C, m), b) = Vector(C \ {b}, m)
  <1> DEFINE x == Vector(C, m)
             y == bitvector_clear_bit(x, b)
             made(k) == {i \in Positions : (32 * k) + i \in C \ {b}}
  <1>1. x = [k \in 0 .. m - 1 |-> {i \in Positions : (32 * k) + i \in C}]
    BY DEF Vector
  <1>2. y = [k \in 0 .. m - 1 |-> IF k = b \div 32 THEN x[k] \ {b % 32} ELSE x[k]]
    BY <1>1 DEF bitvector_clear_bit, bits_per_word
  <1>3. \A k \in 0 .. m - 1 : (IF k = b \div 32 THEN x[k] \ {b % 32} ELSE x[k]) = made(k)
    <2> TAKE k \in 0 .. m - 1
    <2> DEFINE w == x[k]
    <2>1. w = {i \in Positions : (32 * k) + i \in C}
      BY <1>1
    <2> HIDE DEF x, y, w
    <2>2. \A i \in Positions : (32 * k) + i = b <=> k = b \div 32 /\ i = b % 32
      BY BitIsHere DEF Positions, bits_per_word
    <2>3. CASE k = b \div 32
      <3>1. \A i \in Positions : (32 * k) + i = b <=> i = b % 32
        BY <2>2, <2>3, Zenon
      <3>2. \A i : i \in w \ {b % 32} <=> i \in made(k)
        BY <2>1, <3>1, Zenon
      <3>3. w \ {b % 32} = made(k)
        BY ONLY <3>2
      <3>4. QED
        BY <2>3, <3>3 DEF w
    <2>4. CASE k # b \div 32
      <3>1. \A i \in Positions : (32 * k) + i # b
        BY <2>2, <2>4, Zenon
      <3>2. \A i : i \in w <=> i \in made(k)
        BY <2>1, <3>1, Zenon
      <3>3. w = made(k)
        BY ONLY <3>2
      <3>4. QED
        BY <2>4, <3>3 DEF w
    <2>5. QED
      BY <2>3, <2>4
  <1> HIDE DEF x
  <1>4. y = [k \in 0 .. m - 1 |-> made(k)]
    BY <1>2, <1>3, Zenon
  <1>5. QED
    BY <1>4 DEF Vector, x

LEMMA BitIsSet ==
  ASSUME NEW m \in Nat, NEW C, NEW b \in 0 .. (32 * m) - 1
  PROVE  bitvector_set_bit(Vector(C, m), b) = Vector(C \cup {b}, m)
  <1> DEFINE x == Vector(C, m)
             y == bitvector_set_bit(x, b)
             made(k) == {i \in Positions : (32 * k) + i \in C \cup {b}}
  <1>1. x = [k \in 0 .. m - 1 |-> {i \in Positions : (32 * k) + i \in C}]
    BY DEF Vector
  <1>2. y = [k \in 0 .. m - 1 |-> IF k = b \div 32 THEN x[k] \cup {b % 32} ELSE x[k]]
    BY <1>1 DEF bitvector_set_bit, bits_per_word
  <1>3. \A k \in 0 .. m - 1 : (IF k = b \div 32 THEN x[k] \cup {b % 32} ELSE x[k]) = made(k)
    <2> TAKE k \in 0 .. m - 1
    <2> DEFINE w == x[k]
    <2>1. w = {i \in Positions : (32 * k) + i \in C}
      BY <1>1
    <2> HIDE DEF x, y, w
    <2>2. \A i \in Positions : (32 * k) + i = b <=> k = b \div 32 /\ i = b % 32
      BY BitIsHere DEF Positions, bits_per_word
    <2>3. CASE k = b \div 32
      <3>1. \A i \in Positions : (32 * k) + i = b <=> i = b % 32
        BY <2>2, <2>3, Zenon
      <3>2. b % 32 \in Positions
        BY DEF Positions, bits_per_word
      <3>3. \A i : i \in w \cup {b % 32} <=> i \in made(k)
        BY <2>1, <3>1, <3>2, Zenon
      <3>4. w \cup {b % 32} = made(k)
        BY ONLY <3>3
      <3>5. QED
        BY <2>3, <3>4 DEF w
    <2>4. CASE k # b \div 32
      <3>1. \A i \in Positions : (32 * k) + i # b
        BY <2>2, <2>4, Zenon
      <3>2. \A i : i \in w <=> i \in made(k)
        BY <2>1, <3>1, Zenon
      <3>3. w = made(k)
        BY ONLY <3>2
      <3>4. QED
        BY <2>4, <3>3 DEF w
    <2>5. QED
      BY <2>3, <2>4
  <1> HIDE DEF x
  <1>4. y = [k \in 0 .. m - 1 |-> made(k)]
    BY <1>2, <1>3, Zenon
  <1>5. QED
    BY <1>4 DEF Vector, x

\* The place of a bit in a bit string: every word from its highest bit on.
LEMMA BitIsShown ==
  ASSUME NEW i \in 1 .. 128
  PROVE  LET q == (i - 1) \div 32
             t == 31 - ((i - 1) % 32)
             b == (32 * q) + t
         IN  /\ q \in 0 .. 3 /\ t \in 0 .. 31 /\ b \in 0 .. 127
             /\ i = (32 * (b \div 32)) + 32 - (b % 32)
  OBVIOUS

LEMMA PlaceIsShown ==
  ASSUME NEW b \in 0 .. 127
  PROVE  LET i == (32 * (b \div 32)) + 32 - (b % 32)
         IN  i \in 1 .. 128 /\ (32 * ((i - 1) \div 32)) + (31 - ((i - 1) % 32)) = b
  OBVIOUS

LEMMA BitsAreShown ==
  ASSUME NEW C
  PROVE  LET s == v128_bit_string(Vector(C, 4))
         IN  {i \in DOMAIN s : s[i] = "1"}
               = {(32 * (b \div 32)) + 32 - (b % 32) : b \in C \cap 0 .. 127}
  <1> DEFINE x == Vector(C, 4)
             s == v128_bit_string(x)
             which(i) == (32 * ((i - 1) \div 32)) + (31 - ((i - 1) % 32))
             shown(i) == 31 - ((i - 1) % 32) \in x[(i - 1) \div 32]
             place(b) == (32 * (b \div 32)) + 32 - (b % 32)
  <1>1. s = [i \in 1 .. 128 |-> IF shown(i) THEN "1" ELSE "0"]
    <2>1. Cardinality(DOMAIN x) = 4
      BY VectorSize
    <2>2. s = LET digit(i) == IF 31 - (i % 32) \in x[i \div 32] THEN "1" ELSE "0"
              IN  [i \in 1 .. (IF 32 * Cardinality(DOMAIN x) < 129 - 1
                               THEN 32 * Cardinality(DOMAIN x) ELSE 129 - 1) |-> digit(i - 1)]
      BY Zenon DEF v128_bit_string, bitvector_bit_string, bits_per_word
    <2>3. (IF 32 * Cardinality(DOMAIN x) < 129 - 1 THEN 32 * Cardinality(DOMAIN x) ELSE 129 - 1) = 128
      BY <2>1
    <2>4. QED
      BY <2>2, <2>3, Zenon
  <1>2. \A i \in 1 .. 128 : shown(i) <=> which(i) \in C
    <2> TAKE i \in 1 .. 128
    <2> DEFINE q == (i - 1) \div 32
               t == 31 - ((i - 1) % 32)
    <2>1. q \in 0 .. 3 /\ t \in 0 .. 31
      BY BitIsShown
    <2> HIDE DEF q, t
    <2>2. x[q] = {j \in 0 .. 31 : (32 * q) + j \in C}
      BY <2>1 DEF Vector, Positions, bits_per_word
    <2>3. t \in x[q] <=> (32 * q) + t \in C
      BY <2>1, <2>2
    <2>4. QED
      BY <2>3 DEF q, t
  <1>3. DOMAIN s = 1 .. 128 /\ \A i \in 1 .. 128 : s[i] = "1" <=> shown(i)
    <2> HIDE DEF shown
    <2>1. "1" # "0"
      OBVIOUS
    <2>2. QED
      BY <1>1, <2>1
  <1>4. \A i \in 1 .. 128 : which(i) \in 0 .. 127 /\ i = place(which(i))
    BY BitIsShown
  <1>5. \A b \in 0 .. 127 : place(b) \in 1 .. 128 /\ which(place(b)) = b
    BY PlaceIsShown
  <1> HIDE DEF x, s, which, shown, place
  <1>6. \A i : (i \in DOMAIN s /\ s[i] = "1") <=> \E b \in C \cap 0 .. 127 : i = place(b)
    <2> TAKE i
    <2>1. ASSUME i \in DOMAIN s, s[i] = "1" PROVE \E b \in C \cap 0 .. 127 : i = place(b)
      <3>1. i \in 1 .. 128 /\ which(i) \in C
        BY <1>2, <1>3, <2>1, Zenon
      <3>2. QED
        BY <1>4, <3>1, Zenon
    <2>2. ASSUME NEW b \in C \cap 0 .. 127, i = place(b) PROVE i \in DOMAIN s /\ s[i] = "1"
      <3>1. i \in 1 .. 128 /\ which(i) \in C
        BY <1>5, <2>2, Zenon
      <3>2. QED
        BY <1>2, <1>3, <3>1, Zenon
    <2>3. QED
      BY <2>1, <2>2, Zenon
  <1>7. {i \in DOMAIN s : s[i] = "1"} = {place(b) : b \in C \cap 0 .. 127}
    BY <1>6, Zenon
  <1>8. QED
    BY <1>7, Zenon DEF s, x, place

\* What is left of bits below 128.
LEMMA RaisedBits ==
  ASSUME NEW B \in SUBSET (0 .. 127), NEW n \in Nat
  PROVE  Raised(B, n) = {b + n : b \in B}
  <1>1. \A c : c \in Raised(B, n) <=> \E b \in B : c = b + n
    <2> TAKE c
    <2>1. ASSUME c \in Raised(B, n) PROVE \E b \in B : c = b + n
      <3>1. c \in Nat /\ c - n \in B /\ c = (c - n) + n
        BY <2>1 DEF Raised
      <3>2. QED
        BY <3>1, Zenon
    <2>2. ASSUME NEW b \in B, c = b + n PROVE c \in Raised(B, n)
      <3>1. b \in Nat
        OBVIOUS
      <3>2. c \in Nat /\ c - n = b /\ c - n >= 0
        BY <2>2, <3>1
      <3>3. QED
        BY <3>2 DEF Raised
    <2>3. QED
      BY <2>1, <2>2, Zenon
  <1>2. QED
    BY <1>1, Zenon

LEMMA LoweredBits ==
  ASSUME NEW B \in SUBSET (0 .. 127), NEW n \in Nat, NEW m \in Nat, m >= 4
  PROVE  Lowered(B, n, m) = {b - n : b \in B} \cap 0 .. 127
  <1>1. \A c : c \in Lowered(B, n, m) <=> (\E b \in B : c = b - n) /\ c \in 0 .. 127
    <2> TAKE c
    <2>1. ASSUME c \in Lowered(B, n, m) PROVE (\E b \in B : c = b - n) /\ c \in 0 .. 127
      <3>1. c \in Nat /\ c + n \in B
        BY <2>1 DEF Lowered
      <3>2. c = (c + n) - n /\ c + n \in 0 .. 127
        BY <3>1
      <3>3. c \in 0 .. 127
        BY <3>1, <3>2
      <3>4. QED
        BY <3>1, <3>2, <3>3, Zenon
    <2>2. ASSUME NEW b \in B, c = b - n, c \in 0 .. 127 PROVE c \in Lowered(B, n, m)
      <3>1. b \in 0 .. 127
        OBVIOUS
      <3>2. c \in Nat /\ c + n = b /\ c + n < 32 * m
        BY <2>2, <3>1
      <3>3. QED
        BY <3>2 DEF Lowered
    <2>3. QED
      BY <2>1, <2>2, Zenon
  <1>2. QED
    BY <1>1, Zenon

\* The bits of a vector that has some below 128.
LEMMA BitsAreOf ==
  ASSUME NEW m \in Nat, m >= 4, NEW C \in SUBSET (0 .. 127)
  PROVE  BitsOf(Vector(C, m)) = C
  <1> DEFINE x == Vector(C, m)
  <1>1. DOMAIN x = 0 .. m - 1 /\ \A i \in Positions : i \in 0 .. 31
    BY VectorSize DEF Positions, bits_per_word
  <1>2. \A b \in Nat : b \div 32 \in 0 .. m - 1 => (bitvector_get_bit(x, b) <=> b \in C)
    <2> TAKE b \in Nat
    <2> HAVE b \div 32 \in 0 .. m - 1
    <2>1. b \in 0 .. (32 * m) - 1 /\ m \in Nat \ {0}
      OBVIOUS
    <2>2. QED
      BY <2>1, BitIsRead
  <1> HIDE DEF x
  <1>3. ASSUME NEW c \in C PROVE c \in BitsOf(x)
    <2>1. c \in Nat /\ c \in 0 .. 1023 /\ c \div 32 \in 0 .. m - 1 /\ c % 32 \in 0 .. 31
          /\ (32 * (c \div 32)) + (c % 32) = c
      <3>1. c \in 0 .. 127
        OBVIOUS
      <3>2. QED
        BY <3>1
    <2>2. bitvector_get_bit(x, c)
      BY <1>2, <2>1, Zenon
    <2>3. c % 32 \in Positions
      BY <2>1 DEF Positions, bits_per_word
    <2> DEFINE q == c \div 32
               t == c % 32
    <2>4. q \in DOMAIN x /\ t \in Positions /\ c = (32 * q) + t
      BY <1>1, <2>1, <2>3
    <2> HIDE DEF q, t
    <2>5. c \in {(32 * k) + i : k \in DOMAIN x, i \in Positions}
      BY <2>4
    <2> DEFINE S == {(32 * k) + i : k \in DOMAIN x, i \in Positions}
               T == {b \in 0 .. 1023 : b \div 32 \in DOMAIN x /\ bitvector_get_bit(x, b)}
    <2>6. c \in T
      BY <1>1, <2>1, <2>2
    <2>7. BitsOf(x) = S \cap T
      BY DEF BitsOf
    <2> HIDE DEF S, T
    <2>8. QED
      BY <2>5, <2>6, <2>7 DEF S
  <1>4. ASSUME NEW c \in BitsOf(x) PROVE c \in C
    <2>1. c \in 0 .. 1023 /\ c \div 32 \in DOMAIN x /\ bitvector_get_bit(x, c)
      BY DEF BitsOf
    <2>2. c \in Nat
      BY <2>1
    <2>3. QED
      BY <1>1, <1>2, <2>1, <2>2, Zenon
  <1>5. BitsOf(x) = C
    BY <1>3, <1>4, Zenon
  <1>6. QED
    BY <1>5 DEF x

\* The vector of DOWN bits and those of a value that is laid into it.
LEMMA LongerVector ==
  ASSUME NEW B \in SUBSET (0 .. 127), NEW n \in Nat
  PROVE  LET m == ((128 + n) + 31) \div 32
         IN  /\ m \in Nat /\ m >= 4
             /\ [k \in DOMAIN bitvector_alloc(128 + n) |-> IF k < 4 THEN Vector(B, 4)[k] ELSE {}]
                  = Vector(B, m)
  <1> DEFINE m == ((128 + n) + 31) \div 32
             x == Vector(B, 4)
             y == [k \in DOMAIN bitvector_alloc(128 + n) |-> IF k < 4 THEN x[k] ELSE {}]
  <1>1. m \in Nat /\ m >= 4
    OBVIOUS
  <1>2. DOMAIN bitvector_alloc(128 + n) = 0 .. m - 1
    <2>1. bitvector_alloc(128 + n) = [k \in 0 .. (((128 + n) + 32 - 1) \div 32) - 1 |-> {}]
      BY Zenon DEF bitvector_alloc, bits_per_word
    <2>2. (128 + n) + 32 - 1 = (128 + n) + 31
      OBVIOUS
    <2>3. bitvector_alloc(128 + n) = [k \in 0 .. m - 1 |-> {}]
      BY <2>1, <2>2, Zenon
    <2> HIDE DEF m
    <2>4. QED
      BY <2>3
  <1> HIDE DEF m
  <1>3. y = [k \in 0 .. m - 1 |-> IF k < 4 THEN x[k] ELSE {}]
    BY <1>2, Zenon
  <1>4. \A k \in 0 .. m - 1 : (IF k < 4 THEN x[k] ELSE {}) = {i \in Positions : (32 * k) + i \in B}
    <2> TAKE k \in 0 .. m - 1
    <2>1. CASE k < 4
      <3>1. k \in 0 .. 3
        BY <1>1, <2>1
      <3>2. x[k] = {i \in Positions : (32 * k) + i \in B}
        BY <3>1 DEF Vector
      <3>3. QED
        BY <2>1, <3>2, Zenon
    <2>2. CASE ~(k < 4)
      <3>1. \A i \in Positions : (32 * k) + i \notin B
        <4> TAKE i \in Positions
        <4> DEFINE b == (32 * k) + i
        <4>1. b \in Nat /\ b > 127
          BY <1>1, <2>2 DEF Positions, bits_per_word
        <4> HIDE DEF b
        <4>2. b \notin B
          BY <4>1
        <4>3. QED
          BY <4>2 DEF b
      <3>2. {i \in Positions : (32 * k) + i \in B} = {}
        BY <3>1, Zenon
      <3>3. QED
        BY <2>2, <3>2, Zenon
    <2>3. QED
      BY <2>1, <2>2
  <1> HIDE DEF x, y
  <1>5. y = [k \in 0 .. m - 1 |-> {i \in Positions : (32 * k) + i \in B}]
    BY <1>3, <1>4, Zenon
  <1>6. y = Vector(B, m)
    BY <1>5 DEF Vector
  <1>7. QED
    BY <1>1, <1>6, Zenon DEF m, x, y

\* The bits of a value are read as they are.
LEMMA BitsAreRead ==
  ASSUME NEW C
  PROVE  {b \in 0 .. 127 : v128_get_bit(Vector(C, 4), b)} = C \cap 0 .. 127
  <1>1. \A b \in 0 .. 127 : v128_get_bit(Vector(C, 4), b) <=> b \in C
    <2> TAKE b \in 0 .. 127
    <2>1. b \in 0 .. (32 * 4) - 1 /\ 4 \in Nat \ {0}
      OBVIOUS
    <2>2. QED
      BY <2>1, BitIsRead, Zenon DEF v128_get_bit
  <1>2. QED
    BY <1>1, Zenon

LEMMA ValueIsVector ==
  ASSUME NEW B
  PROVE  Value(B) = Vector(B, 4)
  <1>1. 4 - 1 = 3
    OBVIOUS
  <1>2. QED
    BY <1>1, Zenon DEF Value, Vector

-----------------------------------------------------------------------------
(* What holds of every piece of work.                                       *)

\* The work, with data of any length: more than the inputs that are checked, as the next
\* lemma says.
Given ==
  /\ work.kind = "frames" =>
       /\ work.messages \in Seq(Sendable) /\ work.room \in Nat \ {0}
       /\ work.size \in Nat \ {0} /\ work.signal \in Nat /\ work.missing \in Nat
  /\ work.kind = "counter" => work.lens \in [1 .. 3 -> Nat]
  /\ work.kind = "hash" => work.octets \in Seq(Octet) /\ work.cuts \in [1 .. 2 -> Nat]
  /\ work.kind = "keys" => work.rtp \in Policies /\ work.rtcp \in Policies
  /\ work.kind = "random" => work.lens \in Seq(Nat) /\ work.good \in Nat
  /\ work.kind = "octets" => work.octets \in Seq(Octet)
  /\ work.kind = "message" => IsMessage(work.message)
  /\ work.kind = "description" => work.type \in CandidateTypes
  /\ work.kind = "shift" => work.bits \in SUBSET (0 .. 127) /\ work.by \in Nat

LEMMA PatternType ==
  ASSUME NEW n \in Nat, NEW k \in Nat
  PROVE  Pattern(n, k) \in Seq(Octet)
  <1>1. ASSUME NEW i \in 1 .. n PROVE ((k * i) + (i * i)) % 256 \in Octet
    <2>1. k * i \in Nat /\ i * i \in Nat
      BY SMT
    <2> DEFINE a == (k * i) + (i * i)
    <2>2. a \in Nat
      BY <2>1
    <2> HIDE DEF a
    <2>3. a % 256 \in Octet
      BY <2>2 DEF Octet
    <2>4. QED
      BY <2>3 DEF a
  <1> DEFINE e(i) == ((k * i) + (i * i)) % 256
  <1>2. \A i \in 1 .. n : e(i) \in Octet
    BY <1>1
  <1> HIDE DEF e
  <1>3. [i \in 1 .. n |-> e(i)] \in Seq(Octet)
    BY <1>2
  <1>4. QED
    BY <1>3 DEF Pattern, e

LEMMA KindsOfWork ==
  ASSUME WorkInit
  PROVE  /\ work.kind = "frames" => FramesWork
         /\ work.kind = "counter" => CounterWork
         /\ work.kind = "hash" => HashWork
         /\ work.kind = "keys" => KeysWork
         /\ work.kind = "random" => RandomWork
         /\ work.kind = "octets" => OctetsWork
         /\ work.kind = "message" => MessageWork
         /\ work.kind = "description" => DescriptionWork
         /\ work.kind = "shift" => ShiftWork
  <1>1. AesWork => work.kind = "aes"
    BY DEF AesWork
  <1>2. SelfTestWork => work.kind = "self-test"
    BY DEF SelfTestWork
  <1>3. TransformWork => work.kind = "transform"
    BY DEF TransformWork
  <1>4. CounterWork => work.kind = "counter"
    BY DEF CounterWork
  <1>5. HashWork => work.kind = "hash"
    BY DEF HashWork
  <1>6. ShiftWork => work.kind = "shift"
    BY DEF ShiftWork
  <1>7. OctetsWork => work.kind = "octets"
    BY DEF OctetsWork
  <1>8. MessageWork => work.kind = "message"
    <2> SUFFICES ASSUME MessageWork PROVE work.kind = "message"
      OBVIOUS
    <2>1. PICK m : work = [kind |-> "message", message |-> m]
      BY Zenon DEF MessageWork
    <2>2. QED
      BY <2>1
  <1>9. FramesWork => work.kind = "frames"
    BY DEF FramesWork
  <1>10. DescriptionWork => work.kind = "description"
    BY DEF DescriptionWork
  <1>11. RunsWork => work.kind = "runs"
    BY DEF RunsWork
  <1>12. KeysWork => work.kind = "keys"
    BY DEF KeysWork
  <1>13. RandomWork => work.kind = "random"
    BY DEF RandomWork
  <1>14. QED
    BY <1>1, <1>2, <1>3, <1>4, <1>5, <1>6, <1>7, <1>8, <1>9,
       <1>10, <1>11, <1>12, <1>13 DEF WorkInit

LEMMA InitIsGiven ==
  ASSUME WorkInit
  PROVE  Given
  <1>1. work.kind = "frames" =>
          /\ work.messages \in Seq(Sendable) /\ work.room \in Nat \ {0}
          /\ work.size \in Nat \ {0} /\ work.signal \in Nat /\ work.missing \in Nat
    <2> SUFFICES ASSUME work.kind = "frames"
                 PROVE  /\ work.messages \in Seq(Sendable) /\ work.room \in Nat \ {0}
                        /\ work.size \in Nat \ {0} /\ work.signal \in Nat
                        /\ work.missing \in Nat
      OBVIOUS
    <2>1. /\ work.messages \in Messages /\ work.size \in 1 .. 6 /\ work.signal \in 0 .. 6
          /\ work.missing \in 0 .. 2 /\ work.room \in {3, 4}
      <3>1. PICK m \in Messages, size \in 1 .. 6, signal \in 0 .. 6, missing \in 0 .. 2,
                 room \in {3, 4} :
              work = [kind |-> "frames", messages |-> m, size |-> size, signal |-> signal,
                      missing |-> missing, room |-> room]
        BY KindsOfWork DEF FramesWork
      <3>2. QED
        BY <3>1
    <2>2. Messages \subseteq Seq(Sendable)
      <3>1. /\ <<>> \in Sendable /\ <<7>> \in Sendable /\ <<1, 2, 3>> \in Sendable
            /\ <<1, 2, 3, 4>> \in Sendable /\ <<1>> \in Sendable /\ <<2, 3>> \in Sendable
            /\ <<1, 2>> \in Sendable /\ <<3, 4, 5, 6>> \in Sendable /\ <<4, 5, 6>> \in Sendable
        BY DEF Sendable, Octet, LengthLimit
      <3>2. QED
        BY <3>1 DEF Messages
    <2>3. /\ 1 .. 6 \subseteq Nat \ {0} /\ 0 .. 6 \subseteq Nat /\ 0 .. 2 \subseteq Nat
          /\ {3, 4} \subseteq Nat \ {0}
      OBVIOUS
    <2>4. QED
      BY <2>1, <2>2, <2>3
  <1>2. work.kind = "counter" => work.lens \in [1 .. 3 -> Nat]
    BY KindsOfWork DEF CounterWork
  <1>3. work.kind = "hash" => work.octets \in Seq(Octet) /\ work.cuts \in [1 .. 2 -> Nat]
    <2> SUFFICES ASSUME work.kind = "hash"
                 PROVE  work.octets \in Seq(Octet) /\ work.cuts \in [1 .. 2 -> Nat]
      OBVIOUS
    <2>1. PICK n \in {0, 1, 55, 56, 59, 60, 63, 64, 65, 120, 128}, a \in {0, 1, 64}, b \in {0, 63} :
            work.octets = Pattern(n, 3) /\ work.cuts = <<a, b>>
      BY KindsOfWork DEF HashWork
    <2>2. n \in Nat /\ 3 \in Nat /\ a \in Nat /\ b \in Nat
      OBVIOUS
    <2>3. work.octets \in Seq(Octet)
      BY <2>1, <2>2, PatternType
    <2>4. QED
      BY <2>1, <2>2, <2>3
  <1>4. work.kind = "keys" => work.rtp \in Policies /\ work.rtcp \in Policies
    BY KindsOfWork DEF KeysWork
  <1>5. work.kind = "random" => work.lens \in Seq(Nat) /\ work.good \in Nat
    <2> SUFFICES ASSUME work.kind = "random" PROVE work.lens \in Seq(Nat) /\ work.good \in Nat
      OBVIOUS
    <2>1. PICK a \in {1, 4, 30}, b \in {3, 60, 90}, c \in {1, 8, 100}, d \in {5, 60},
               good \in 1 .. 4 :
            work = [kind |-> "random", lens |-> <<a, b, c, d>>, good |-> good]
      BY KindsOfWork, Zenon DEF RandomWork
    <2>2. work.lens = <<a, b, c, d>> /\ work.good = good
      BY <2>1
    <2>3. a \in Nat /\ b \in Nat /\ c \in Nat /\ d \in Nat /\ good \in Nat
      OBVIOUS
    <2>4. QED
      BY <2>2, <2>3
  <1>6. work.kind = "octets" => work.octets \in Seq(Octet)
    <2> SUFFICES ASSUME work.kind = "octets" PROVE work.octets \in Seq(Octet)
      OBVIOUS
    <2>1. PICK n \in (0 .. 7) \cup {16, 511, 512, 513}, k \in {1, 60, 99} :
            work.octets = Pattern(n, k)
      BY KindsOfWork DEF OctetsWork
    <2>2. n \in Nat /\ k \in Nat
      OBVIOUS
    <2>3. QED
      BY <2>1, <2>2, PatternType
  <1>7. work.kind = "message" => IsMessage(work.message)
    <2> SUFFICES ASSUME work.kind = "message" PROVE IsMessage(work.message)
      OBVIOUS
    <2>1. \E type, sdp, seq, label, error, size :
            work = [kind |-> "message",
                    message |-> Session(type, sdp, seq, label, error, size)]
      <3>1. PICK type \in {offer, answer, candidate}, s \in {"", "v=0"}, n \in 1 .. 2,
                 l \in -1 .. 1, e \in {none, 1, 8}, size \in {-1, 0, 9} :
              work = [kind |-> "message", message |-> Session(type, s, n, l, e, size)]
        BY KindsOfWork, Zenon DEF MessageWork
      <3>2. QED
        BY <3>1, Zenon
    <2>2. PICK type, sdp, seq, label, error, size :
            work = [kind |-> "message",
                    message |-> Session(type, sdp, seq, label, error, size)]
      BY <2>1, Zenon
    <2>3. \A m : m = Session(type, sdp, seq, label, error, size) => IsMessage(m)
      <3> SUFFICES ASSUME NEW m, m = Session(type, sdp, seq, label, error, size)
                   PROVE  IsMessage(m)
        OBVIOUS
      <3>1. /\ m.roap = [type |-> type, seq |-> seq, label |-> label, error |-> error,
                         msgSize |-> size,
                         moreComingFlag |-> FALSE, offerSessionID |-> "o",
                         answerSessionID |-> "a", sdp |-> sdp, tiebreaker |-> "t",
                         msgContent |-> ""]
            /\ m = [type |-> m.type, from |-> m.from, to |-> m.to, roap |-> m.roap]
        BY Zenon DEF Session, NoRoap
      <3>2. m.roap = [type |-> m.roap.type, seq |-> m.roap.seq, label |-> m.roap.label,
                      error |-> m.roap.error, msgSize |-> m.roap.msgSize,
                      moreComingFlag |-> m.roap.moreComingFlag,
                      offerSessionID |-> m.roap.offerSessionID,
                      answerSessionID |-> m.roap.answerSessionID, sdp |-> m.roap.sdp,
                      tiebreaker |-> m.roap.tiebreaker, msgContent |-> m.roap.msgContent]
        <4> DEFINE r == m.roap
        <4>1. r = [type |-> type, seq |-> seq, label |-> label, error |-> error,
                   msgSize |-> size,
                   moreComingFlag |-> FALSE, offerSessionID |-> "o",
                   answerSessionID |-> "a", sdp |-> sdp, tiebreaker |-> "t",
                   msgContent |-> ""]
          BY <3>1, Zenon
        <4> HIDE DEF r
        <4>2. r = [type |-> r.type, seq |-> r.seq, label |-> r.label, error |-> r.error,
                   msgSize |-> r.msgSize, moreComingFlag |-> r.moreComingFlag,
                   offerSessionID |-> r.offerSessionID, answerSessionID |-> r.answerSessionID,
                   sdp |-> r.sdp, tiebreaker |-> r.tiebreaker, msgContent |-> r.msgContent]
          BY <4>1, Zenon
        <4>3. QED
          BY <4>2, Zenon DEF r
      <3>3. QED
        BY <3>1, <3>2, Zenon DEF IsMessage
    <2>4. work.message = Session(type, sdp, seq, label, error, size)
      BY <2>2
    <2>5. QED
      BY <2>3, <2>4
  <1>8. work.kind = "description" => work.type \in CandidateTypes
    <2> SUFFICES ASSUME work.kind = "description" PROVE work.type \in CandidateTypes
      OBVIOUS
    <2>1. PICK stype \in {"AUDIO", "VIDEO"}, vp8 \in {100, 112, 120},
               ice \in {<<"u", "p">>, <<"w", "q">>},
               codecs \in {{"H264"}, {"H263"}, {"H263", "H264"}},
               t \in {"HOST", "SERVER_REFLEXIVE"} :
            work = [kind |-> "description", stype |-> stype, vp8 |-> vp8, local |-> ice,
                    SIPCodec |-> codecs, type |-> t]
      BY KindsOfWork, Zenon DEF DescriptionWork
    <2>2. work.type = t
      BY <2>1
    <2>3. QED
      BY <2>2 DEF CandidateTypes
  <1>9. work.kind = "shift" => work.bits \in SUBSET (0 .. 127) /\ work.by \in Nat
    <2> SUFFICES ASSUME work.kind = "shift"
                 PROVE  work.bits \in SUBSET (0 .. 127) /\ work.by \in Nat
      OBVIOUS
    <2>1. PICK b \in BitSets,
               n \in (0 .. 5) \cup (30 .. 34) \cup (63 .. 66) \cup (94 .. 98) \cup (126 .. 130) :
            work = [kind |-> "shift", bits |-> b, by |-> n]
      BY KindsOfWork, Zenon DEF ShiftWork
    <2>2. work.bits = b /\ work.by = n
      BY <2>1
    <2>3. BitSets \subseteq SUBSET (0 .. 127)
      BY DEF BitSets
    <2>4. n \in Nat
      OBVIOUS
    <2>5. QED
      BY <2>2, <2>3, <2>4, Zenon
  <1>10. QED
    BY <1>1, <1>2, <1>3, <1>4, <1>5, <1>6, <1>7, <1>8, <1>9, Zenon DEF Given

\* Framing (readn, recvPacket, sendPacket): the messages of a connection are heard as they
\* were sent and in their order, whatever the octets are, in segments of any size, with a
\* signal before any of them, up to the first message that the buffer has no room for or
\* that the connection ends in.
THEOREM FramesHeard ==
  ASSUME Given
  PROVE  FramesInOrder
  <1>1. CASE work.kind = "frames"
    BY <1>1, FramesAreHeard DEF Given
  <1>2. CASE work.kind # "frames"
    BY <1>2 DEF FramesInOrder
  <1>3. QED
    BY <1>1, <1>2

\* Data in pieces: in counter mode data of any lengths in three pieces gets the key stream
\* that it gets as a whole and leaves the context in the same place, for blocks of any
\* size and a counter of any range, also when the counter wraps (aes_icm_encrypt); a
\* message of any length that is hashed in three pieces leaves the context of the whole
\* (sha1_update), and in two pieces has its tag, also in a context that has been used
\* before (hmac_start, hmac_compute).
THEOREM PiecesAreAWhole ==
  ASSUME Given
  PROVE  PiecesAreWhole
  <1>1. work.kind = "counter" => StreamInPieces(work.lens[1], work.lens[2], work.lens[3])
    <2>1. work.kind = "counter" => /\ work.lens[1] \in Nat /\ work.lens[2] \in Nat
                                   /\ work.lens[3] \in Nat
      BY DEF Given
    <2>2. QED
      BY <2>1, ThreePieces
  <1>2. work.kind = "hash" => HashInPieces(work.octets, work.cuts)
    <2>1. work.kind = "hash" => /\ work.octets \in Seq(Octet)
                                /\ work.cuts[1] \in Nat /\ work.cuts[2] \in Nat
      BY DEF Given
    <2>2. QED
      BY <2>1, MessageInPieces
  <1>3. QED
    BY <1>1, <1>2 DEF PiecesAreWhole

\* The keys of a stream (srtp_stream_init_keys): with every two policies that the library
\* can make, no octet of key stream is in two of the keys, for blocks of any size as long
\* as the key stream of one vector has the octets of the longest key; and the keys fit.
THEOREM KeysAreSeparate ==
  ASSUME Given, 32 <= BlockOctets * CtrRange
  PROVE  KeysSeparate
  BY KeysAreApart, ProfilesFit DEF KeysSeparate, Given

\* The generators (ctr_prng.c, prng.c): however often and for whatever lengths they are
\* called, and whenever the source fails, they never yield the same octet of their streams
\* twice, for blocks of any size, a block counter of any range and any limit on the octets
\* of one key.
THEOREM GeneratorsAreFresh ==
  ASSUME Given
  PROVE  PrngFresh
  <1> SUFFICES ASSUME work.kind = "random" PROVE PrngFresh
    BY DEF PrngFresh
  <1> work.lens \in Seq(Nat) /\ work.good \in Nat
    BY DEF Given
  <1> DEFINE z == [open |-> FALSE, reads |-> 0, good |-> work.good]
             source == rand_source_init(z, TRUE).source
             new == [octet_count |-> 0, status |-> "ok", state |-> aes_icm_set_iv(0),
                     source |-> source]
             chain == [new EXCEPT !.state = [key |-> 0, step |-> 0]]
             empty == <<>>
  <1>1. source = [open |-> TRUE, reads |-> 0, good |-> work.good]
    BY DEF rand_source_init
  <1>2. source \in Sources /\ source.reads = 0
    <2> DEFINE good == work.good
    <2>1. good \in Nat
      OBVIOUS
    <2> HIDE DEF good, source
    <2>2. source = [open |-> TRUE, reads |-> 0, good |-> good]
      BY <1>1 DEF good
    <2>3. QED
      BY <2>1, <2>2 DEF Sources
  <1> HIDE DEF source
  <1>3. \A S : Distinct(empty, S)
    BY DEF Distinct
  <1>4. CtrSound(new, empty, 0, 0)
    <2>1. At(new.state, 0, 0)
      BY StartsAtZero
    <2>2. 0 \in 0 .. source.reads /\ 0 \in Nat /\ 0 <= BlockOctets * (CtrRange - 1)
      BY <1>2, StreamLength
    <2>3. new.source = source /\ new = [octet_count |-> new.octet_count, source |-> new.source,
                                        status |-> new.status, state |-> new.state]
      OBVIOUS
    <2> HIDE DEF new, empty
    <2>4. QED
      BY <1>2, <1>3, <2>1, <2>2, <2>3 DEF CtrSound
  <1>5. X917Sound(chain, empty)
    <2>1. chain.source = source /\ chain.state = [key |-> 0, step |-> 0]
          /\ chain = [octet_count |-> chain.octet_count, source |-> chain.source,
                      status |-> chain.status, state |-> chain.state]
      OBVIOUS
    <2> HIDE DEF chain, empty
    <2>2. QED
      BY <1>2, <1>3, <2>1 DEF X917Sound
  <1>6. \E k, q : CtrSound(ctr_prng_init(new), empty, k, q)
    BY <1>4, CtrInit
  <1>7. X917Sound(x917_prng_init(chain), empty)
    BY <1>5, X917Init
  <1> DEFINE ctr == Drawn(ctr_prng_init(new), ctr_prng_get_octet_string)
             x917 == Drawn(x917_prng_init(chain), x917_prng_get_octet_string)
  <1>8. Cardinality(Range(ctr)) = Len(ctr)
    BY <1>6, CtrDrawn
  <1>9. Cardinality(Range(x917)) = Len(x917)
    BY <1>7, X917Drawn
  <1> HIDE DEF ctr, x917
  <1>10. QED
    BY <1>8, <1>9 DEF PrngFresh, ctr, x917, new, chain, source, z

\* What is written is read back: octets in hexadecimal, as many as the buffer has room for,
\* and half of them with the length that the decoder's comment asks for
\* (octet_string_hex_string, hex_string_to_octet_string); any number of octets in base 64,
\* with every length of the last group (base64_encode, base64_decode); any message, but that
\* numbers not set, -1, come back as 0 (packageSessionMessage, parserSessionMessage); and a
\* candidate of every type (Candidate).
THEOREM TextIsRead ==
  ASSUME Given
  PROVE  WrittenIsRead
  <1>1. ASSUME NEW o \in Seq(Octet)
        PROVE  OctetsRead(o)
    <2> DEFINE hex == octet_string_hex_string(o)
               n == Shown(o)
               read == hex_string_to_octet_string(hex, Len(hex))
               base64 == base64_encode(o)
    <2>1. /\ Len(o) \in Nat /\ n \in Nat /\ n <= Len(o)
          /\ Len(o) <= 512 => n = Len(o)
          /\ Len(o) > 512 => n = 512
      BY ShownIs
    <2>2. is_hex_string(hex) /\ Len(hex) = 2 * n
      BY HexIsLaid
    <2>3. /\ 2 * n \in 0 .. 2 * n /\ n \in 0 .. 2 * n
          /\ ((2 * n) + 1) \div 2 = n
      <3> HIDE DEF n
      <3>1. QED
        BY <2>1
    <2>4. read.hex_len = Len(hex) /\ read.raw = SubSeq(o, 1, n)
      <3>1. LET r == hex_string_to_octet_string(hex, 2 * n)
                m == ((2 * n) + 1) \div 2
            IN  r.hex_len = 2 * m /\ r.raw = SubSeq(o, 1, m)
        BY <2>3, HexIsRead
      <3> HIDE DEF hex, n
      <3>2. QED
        BY <2>2, <2>3, <3>1
    <2>5. hex_string_to_octet_string(hex, n).raw = SubSeq(o, 1, (n + 1) \div 2)
      BY <2>3, HexIsRead
    <2>6. Len(hex) < MAX_PRINT_STRING_LEN <=> Len(o) < MAX_PRINT_STRING_LEN \div 2
      <3>1. MAX_PRINT_STRING_LEN = 1024 /\ MAX_PRINT_STRING_LEN \div 2 = 512
        BY DEF MAX_PRINT_STRING_LEN
      <3> HIDE DEF n, hex
      <3>2. QED
        BY <2>1, <2>2, <3>1
    <2>7. octet_string_is_eq(read.raw, o, n) = 0
      <3>1. \A i \in 1 .. n : SubSeq(o, 1, n)[i] = o[i]
        <4>1. 1 \in 1 .. Len(o) + 1 /\ n \in 1 - 1 .. Len(o)
          BY <2>1
        <4>2. \A k \in 1 .. (n - 1) + 1 : SubSeq(o, 1, n)[k] = o[(1 + k) - 1]
          BY <2>1, <4>1, PieceElements
        <4> HIDE DEF n
        <4>3. (n - 1) + 1 = n /\ \A k \in 1 .. n : (1 + k) - 1 = k
          BY <2>1
        <4>4. QED
          BY <4>2, <4>3
      <3> HIDE DEF read, n
      <3>2. QED
        BY <2>4, <3>1 DEF octet_string_is_eq
    <2>8. v128_hex_string(o) = hex
      BY DEF v128_hex_string
    <2>9. base64_decode(base64) = o
      BY Base64IsRead
    <2>10. base64_string_to_octet_string(base64, Len(base64)).base64_len = Len(base64)
      BY TextIsUnderstood
    <2>11. QED
      BY <2>2, <2>4, <2>5, <2>6, <2>7, <2>8, <2>9, <2>10, Zenon DEF OctetsRead, Shown
  <1>2. work.kind = "octets" => OctetsRead(work.octets)
    BY <1>1, Zenon DEF Given
  <1>3. work.kind = "message" =>
          parserSessionMessage(packageSessionMessage(work.message)) = ReadBack(work.message)
    BY SignallingIsRead, Zenon DEF Given
  <1>4. ASSUME NEW type \in CandidateTypes, NEW priority, NEW ip
        PROVE  Candidate(candidateLine(HostCandidate(type, priority, ip)))
                 = HostCandidate(type, priority, ip)
    <2> DEFINE c == HostCandidate(type, priority, ip)
    <2>1. /\ c = [type |-> c.type, transport |-> "UDP", foundation |-> c.foundation,
                  component_id |-> c.component_id, priority |-> c.priority, ip |-> c.ip,
                  port |-> c.port]
          /\ c.type = type
      BY DEF HostCandidate
    <2> HIDE DEF c
    <2>2. Candidate(candidateLine(c)) = c
      BY <2>1, CandidateIsRead
    <2>3. QED
      BY <2>2 DEF c
  <1>5. work.kind = "description" => work.type \in CandidateTypes
    BY Zenon DEF Given
  <1>6. QED
    BY <1>2, <1>3, <1>4, <1>5, Zenon DEF WrittenIsRead

\* Bit vectors (v128_right_shift, v128_left_shift, bitvector_left_shift): whatever bits are
\* set and however far they are shifted, each moves by as many places and none but those
\* that leave the value are lost, though the words are written in the memory they are read
\* from; a bit that is cleared and set again is as it was, and v128_bit_string shows every
\* word from its highest bit on.
THEOREM BitsMove ==
  ASSUME Given
  PROVE  ShiftsMove
  <1> SUFFICES ASSUME work.kind = "shift" PROVE ShiftsMove
    BY DEF ShiftsMove
  <1> DEFINE B == work.bits
             n == work.by
             x == Value(B)
             right == v128_right_shift(x, n)
             left == v128_left_shift(x, n)
             y == [k \in DOMAIN bitvector_alloc(128 + n) |-> IF k < 4 THEN x[k] ELSE {}]
             s == v128_bit_string(v128_right_shift(v128_right_shift(x, 32), n))
             place(b) == (32 * (b \div 32)) + 32 - (b % 32)
  <1>1. B \in SUBSET (0 .. 127) /\ n \in Nat
    BY DEF Given
  <1> HIDE DEF B, n
  <1>2. x = Vector(B, 4)
    BY ValueIsVector
  <1>3. {b \in 0 .. 127 : v128_get_bit(right, b)} = {b + n : b \in B} \cap 0 .. 127
    <2>1. right = Vector({b + n : b \in B}, 4)
      BY <1>1, <1>2, RightShiftMoves, RaisedBits
    <2> HIDE DEF right
    <2>2. QED
      BY <2>1, BitsAreRead
  <1>4. {b \in 0 .. 127 : v128_get_bit(left, b)} = {b - n : b \in B} \cap 0 .. 127
    <2>1. bitvector_left_shift(Vector(B, 4), n) = Vector(Lowered(B, n, 4), 4)
      <3>1. 4 \in Nat \ {0}
        OBVIOUS
      <3>2. QED
        BY <1>1, <3>1, LeftShiftMoves
    <2>2. Lowered(B, n, 4) = {b - n : b \in B} \cap 0 .. 127
      BY <1>1, LoweredBits
    <2>3. left = Vector({b - n : b \in B} \cap 0 .. 127, 4)
      BY <1>2, <2>1, <2>2, Zenon DEF v128_left_shift
    <2> HIDE DEF left
    <2> DEFINE C == {b - n : b \in B} \cap 0 .. 127
    <2>4. left = Vector(C, 4) /\ C \cap 0 .. 127 = C
      BY <2>3
    <2> HIDE DEF C
    <2>5. {b \in 0 .. 127 : v128_get_bit(left, b)} = C
      BY <2>4, BitsAreRead
    <2>6. QED
      BY <2>5 DEF C
  <1>5. ASSUME NEW b \in B
        PROVE  v128_set_bit_to(v128_set_bit_to(x, b, FALSE), b, TRUE) = x
    <2>1. b \in 0 .. (32 * 4) - 1
      BY <1>1
    <2>2. bitvector_clear_bit(Vector(B, 4), b) = Vector(B \ {b}, 4)
      BY <2>1, BitIsCleared
    <2>3. bitvector_set_bit(Vector(B \ {b}, 4), b) = Vector((B \ {b}) \cup {b}, 4)
      BY <2>1, BitIsSet
    <2>4. (B \ {b}) \cup {b} = B
      OBVIOUS
    <2>5. bitvector_set_bit(bitvector_clear_bit(x, b), b) = x
      BY <1>2, <2>2, <2>3, <2>4, Zenon
    <2>6. QED
      BY <2>5, Zenon DEF v128_set_bit_to
  <1>6. BitsOf(bitvector_left_shift(y, n)) = {b - n : b \in B} \cap 0 .. 127
    <2> DEFINE m == ((128 + n) + 31) \div 32
               C == {b - n : b \in B} \cap 0 .. 127
    <2>1. m \in Nat /\ m >= 4 /\ y = Vector(B, m)
      <3>1. /\ m \in Nat /\ m >= 4
            /\ [k \in DOMAIN bitvector_alloc(128 + n) |-> IF k < 4 THEN Vector(B, 4)[k] ELSE {}]
                 = Vector(B, m)
        BY <1>1, LongerVector, Zenon
      <3>2. QED
        BY <1>2, <3>1, Zenon
    <2> HIDE DEF m, y
    <2>2. bitvector_left_shift(y, n) = Vector(Lowered(B, n, m), m)
      <3>1. m \in Nat \ {0}
        BY <2>1
      <3>2. QED
        BY <1>1, <2>1, <3>1, LeftShiftMoves
    <2>3. Lowered(B, n, m) = C
      BY <1>1, <2>1, LoweredBits
    <2>4. C \in SUBSET (0 .. 127)
      OBVIOUS
    <2> HIDE DEF C
    <2>5. BitsOf(Vector(C, m)) = C
      BY <2>1, <2>4, BitsAreOf
    <2>6. BitsOf(bitvector_left_shift(y, n)) = C
      BY <2>2, <2>3, <2>5, Zenon
    <2>7. QED
      BY <2>6 DEF C
  <1>7. {i \in DOMAIN s : s[i] = "1"} = {place(b) : b \in {c + n + 32 : c \in B} \cap 0 .. 127}
    <2> DEFINE C == Raised(Raised(B, 32), n)
               S == {c + n + 32 : c \in B}
    <2>1. s = v128_bit_string(Vector(C, 4))
      <3>1. v128_right_shift(Vector(B, 4), 32) = Vector(Raised(B, 32), 4)
        <4>1. 32 \in Nat
          OBVIOUS
        <4>2. QED
          BY <4>1, RightShiftMoves
      <3>2. v128_right_shift(Vector(Raised(B, 32), 4), n) = Vector(C, 4)
        BY <1>1, RightShiftMoves
      <3>3. QED
        BY <1>2, <3>1, <3>2, Zenon
    <2>2. C = S
      <3>1. ASSUME NEW c \in C PROVE c \in S
        <4>1. c \in Nat /\ c - n \in Nat /\ (c - n) - 32 \in B
          BY <1>1 DEF Raised
        <4> DEFINE b == (c - n) - 32
        <4>2. b \in B /\ c = b + n + 32
          BY <1>1, <4>1
        <4> HIDE DEF b
        <4>3. QED
          BY <4>2, Zenon
      <3>2. ASSUME NEW c \in S PROVE c \in C
        <4>1. PICK b \in B : c = b + n + 32
          BY Zenon
        <4>2. b \in Nat
          BY <1>1
        <4>3. c \in Nat /\ c - n \in Nat /\ c - n >= 0 /\ (c - n) - 32 = b /\ (c - n) - 32 >= 0
          BY <1>1, <4>1, <4>2
        <4>4. c - n \in Raised(B, 32)
          BY <4>3 DEF Raised
        <4>5. QED
          BY <4>3, <4>4, Zenon DEF Raised
      <3> HIDE DEF C, S
      <3>3. QED
        BY <3>1, <3>2
    <2> HIDE DEF C, S, s
    <2>3. {i \in DOMAIN s : s[i] = "1"} = {place(b) : b \in C \cap 0 .. 127}
      BY <2>1, BitsAreShown, Zenon
    <2>4. QED
      BY <2>2, <2>3, Zenon DEF S
  <1> HIDE DEF x
  <1>8. QED
    BY <1>3, <1>4, <1>5, <1>6, <1>7, Zenon DEF ShiftsMove, B, n, x

\* So it is of every piece of work that is checked, with constants of every value that
\* leaves the key stream of one vector as long as the keys that are cut from it.
THEOREM EveryWork ==
  ASSUME 32 <= BlockOctets * CtrRange
  PROVE  WorkInit /\ [][WorkNext]_work
           => [](FramesInOrder /\ PiecesAreWhole /\ KeysSeparate /\ PrngFresh /\ WrittenIsRead
                /\ ShiftsMove)
  <1>1. WorkInit => Given
    BY InitIsGiven
  <1>2. Given /\ [WorkNext]_work => Given'
    BY DEF WorkNext, Given
  <1>3. Given => FramesInOrder /\ PiecesAreWhole /\ KeysSeparate /\ PrngFresh /\ WrittenIsRead
                 /\ ShiftsMove
    BY FramesHeard, PiecesAreAWhole, KeysAreSeparate, GeneratorsAreFresh, TextIsRead,
       BitsMove
  <1>4. QED
    BY <1>1, <1>2, <1>3, PTL
=============================================================================
