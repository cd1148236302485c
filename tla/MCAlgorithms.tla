---------------------------- MODULE MCAlgorithms -----------------------------
(***************************************************************************)
(* The pure algorithms on bounded inputs.  A state is one piece of work: what *)
(* is to be done and the input it is done with; there are no steps.  The      *)
(* properties compare what the code's algorithm makes of the input with what   *)
(* it promises, or with a reference definition.                             *)
(***************************************************************************)
EXTENDS SelfTest, Keys, Prng, Stat, Etcp, MessageParser, Sdp

VARIABLE work

Pattern(n, k) == [i \in 1 .. n |-> ((k * i) + (i * i)) % 256]
KeyOf(n, k) == fromZero(Pattern(n, k))

-----------------------------------------------------------------------------
(* The inputs.                                                              *)

\* A shift by N places of the bits, at 0 to 127, of a value.
BitSets == {{}, {0}, {31}, {32}, {127}, 30 .. 33, 63 .. 96, 0 .. 127,
         {i \in 0 .. 127 : i % 3 = 0}, {1, 2, 40, 64, 95, 96, 126}}

Messages == {<<>>, <<<<7>>>>, <<<<1, 2, 3>>>>, <<<<1, 2, 3, 4>>>>, <<<<1>>, <<2, 3>>>>,
             <<<<1, 2>>, <<3, 4, 5, 6>>, <<7>>>>, <<<<1, 2, 3>>, <<>>, <<4, 5, 6>>>>}

\* The octets that cross the connection, in segments of a size, a signal before one of
\* them; the connection ends some octets early.
Arriving(octets, size, signal) ==
  LET n == (Len(octets) + size - 1) \div size
      late(i) == IF signal \in 1 .. n /\ i > signal THEN 1 ELSE 0
      segment(k) == SubSeq(octets, (size * (k - 1)) + 1, smaller(size * k, Len(octets)))
  IN  [i \in 1 .. (IF signal \in 1 .. n THEN n + 1 ELSE n) |->
         IF i = signal THEN Interrupted ELSE Segment(segment(i - late(i)))]

\* Messages as the gateway makes them have label, error and size unset, as in NoRoap.
Session(type, sdp, seq, label, error, msgSize) ==
  [type |-> 3, from |-> "web", to |-> "ims",
   roap |-> [NoRoap EXCEPT !.type = type, !.sdp = sdp, !.seq = seq, !.label = label,
             !.error = error, !.msgSize = msgSize, !.moreComingFlag = FALSE,
             !.offerSessionID = "o", !.answerSessionID = "a", !.tiebreaker = "t"]]

Draws == {Pattern(n, k) : n \in 0 .. 3, k \in {1, 5, 84}} 
           \cup {<<3>>, <<255, 255>>, <<0, 0, 0>>, <<255, 255, 255>>, <<0, 240>>}

AesWork ==
  \E n \in {16, 32}, k \in {1, 77}, b \in {3, 200}, build \in Builds :
    work = [kind |-> "aes", key |-> KeyOf(n, k), block |-> KeyOf(16, b), build |-> build]
SelfTestWork ==
  \E n \in {1, 15, 16, 31}, any \in {0, 10, 14} :
    work = [kind |-> "self-test", any |-> any,
            trials |-> <<[octets |-> Pattern(n, 9), key |-> Pattern(32, n + 9)],
                         [octets |-> Pattern(63 - n, n), key |-> Pattern(32, n)]>>]
TransformWork ==
  \E n \in {0, 1, 15, 16, 20}, altered \in {0, 1, 17, 28, 100}, found \in {0, 9, 10} :
    work = [kind |-> "transform", key |-> KeyOf(16, n), iv |-> KeyOf(16, 50), found |-> found,
            clear |-> Pattern(4, n), octets |-> Pattern(n, 7), altered |-> altered]
CounterWork ==
  \E a \in 0 .. 9, b \in 0 .. 9, c \in 0 .. 5 :
    work = [kind |-> "counter", lens |-> <<a, b, c>>]
HashWork ==
  \E n \in {0, 1, 55, 56, 59, 60, 63, 64, 65, 120, 128}, a \in {0, 1, 64}, b \in {0, 63} :
    work = [kind |-> "hash", octets |-> Pattern(n, 3), cuts |-> <<a, b>>]
ShiftWork ==
  \E b \in BitSets, n \in (0 .. 5) \cup (30 .. 34) \cup (63 .. 66) \cup (94 .. 98) \cup (126 .. 130) :
    work = [kind |-> "shift", bits |-> b, by |-> n]
OctetsWork ==
  \E n \in (0 .. 7) \cup {16, 511, 512, 513}, k \in {1, 60, 99} : work = [kind |-> "octets", octets |-> Pattern(n, k)]
MessageWork ==
  \E type \in {offer, answer, candidate}, s \in {"", "v=0"}, n \in 1 .. 2,
     l \in -1 .. 1, e \in {none, 1, 8}, size \in {-1, 0, 9} :
    work = [kind |-> "message", message |-> Session(type, s, n, l, e, size)]
FramesWork ==
  \E m \in Messages, size \in 1 .. 6, signal \in 0 .. 6, missing \in 0 .. 2, room \in {3, 4} :
    work = [kind |-> "frames", messages |-> m, size |-> size, signal |-> signal,
            missing |-> missing, room |-> room]
DescriptionWork ==
  \E stype \in {"AUDIO", "VIDEO"}, vp8 \in {100, 112, 120}, ice \in {<<"u", "p">>, <<"w", "q">>},
     codecs \in {{"H264"}, {"H263"}, {"H263", "H264"}}, t \in {"HOST", "SERVER_REFLEXIVE"} :
    work = [kind |-> "description", stype |-> stype, vp8 |-> vp8, local |-> ice,
            SIPCodec |-> codecs, type |-> t]
RunsWork ==
  \E a \in Draws, b \in Draws : work = [kind |-> "runs", draws |-> <<a, b>>]
KeysWork ==
  \E rtp \in Policies, rtcp \in Policies : work = [kind |-> "keys", rtp |-> rtp, rtcp |-> rtcp]
RandomWork ==
  \E a \in {1, 4, 30}, b \in {3, 60, 90}, c \in {1, 8, 100}, d \in {5, 60}, good \in 1 .. 4 :
    work = [kind |-> "random", lens |-> <<a, b, c, d>>, good |-> good]

WorkInit == \/ OctetsWork \/ MessageWork \/ FramesWork \/ DescriptionWork \/ RunsWork
            \/ KeysWork \/ RandomWork \/ ShiftWork
            \/ HashWork \/ CounterWork \/ AesWork \/ SelfTestWork \/ TransformWork

WorkNext == UNCHANGED work

-----------------------------------------------------------------------------
(* The block cipher and its modes.                                          *)

\* What aes_encrypt makes of a block is the same on every processor, and aes_decrypt
\* undoes it, with keys of both lengths.  Left out is CPU_RISC on a little-endian machine:
\* its last rounds are those of the other byte order, and its inverse rounds go the wrong
\* way around; no build of the gateway has them.
AesInverts ==
  (work.kind = "aes" /\ (work.build.big \/ ~work.build.risc)) =>
    LET e == aes_expand_encryption_key(work.key)
        d == aes_expand_decryption_key(work.key, e.num_rounds, work.build)
        c == aes_encrypt(work.block, e, work.build)
    IN  /\ c = aes_encrypt(work.block, e, cisc)
        /\ aes_decrypt(c, d, work.build) = work.block

\* The round keys of a new context of a 128-bit key are put in the opposite order only if
\* the memory it is in happens to hold this number of rounds (aes.c:1502).
RightRounds == 10

\* What the two transforms of the piece of work give, to be read again: ALL in one, and
\* the tag APART.  Their contexts are local variables that nothing has set: each holds the
\* rounds that are FOUND there.  More than 10 would take round keys that are not set either,
\* and are not among the inputs.
Sent(all, apart) ==
  LET clear == IF work.altered = 100 THEN <<0>> \o work.clear ELSE work.clear
      arrived == [i \in DOMAIN all.data |-> IF i = work.altered THEN 255 - all.data[i]
                                                               ELSE all.data[i]]
      unaltered == work.altered \in {0} \cup (all.n + 1 .. 99)
      inverse == judged(aes_128_cbc_hmac_sha1_96_inv(work.key, work.clear, work.iv, apart.data,
                          apart.n, auth_tag(work.key, work.clear, work.octets), work.found),
                        work.octets)
      decrypted == judged(aes_128_cbc_hmac_sha1_96_dec(work.key, clear, work.iv, arrived, all.n,
                                                       work.found), work.octets)
  IN  /\ all.status = "ok" /\ all.n <= Len(work.octets) + MAX_EXPAND + 1
      /\ SubSeq(apart.data, 1, apart.n) \o apart.tag = SubSeq(all.data, 1, all.n)
      /\ (inverse = "ok") = (work.found = RightRounds)
      /\ (decrypted = "auth_fail") = ~unaltered
      /\ unaltered => (decrypted = "ok") = (work.found = RightRounds)

\* The hash by its definition: the padded message, block by block.
Hash(msg) ==
  LET bits == 8 * Len(msg)
      whole == msg \o <<128>> \o zeros((55 - Len(msg)) % 64)
                   \o zeros(6) \o <<bits \div 256, bits % 256>>
      H == FoldLeft(LAMBDA h, b : sha1_core(SubSeq(whole, (64 * b) - 63, 64 * b), h),
                    sha1_init.H, [b \in 1 .. Len(whole) \div 64 |-> b])
  IN  octetsOf(H)

\* The block-chaining mode gives the answers that are known, in an order of lengths that
\* leaves the rounds of one key in the context of the next, and gives back what was
\* drawn.  The transform on top of it refuses what has been altered on the way, wherever
\* that is, in clear too; but what has not been altered it gives back only if the memory of
\* its context, which nothing has set, happens to hold the number of rounds, and with any
\* other number it gives back something else and says ok, or runs out of the data.  The
\* older transform puts the same tag apart; its inverse wants another, over the clear
\* octets, and the vector it draws, and has the same fault.  The hash and the tag are those
\* of the definition.
TransformsAreRight ==
  /\ work.kind = "self-test" =>
       /\ cipher_type_test(aes_cbc_test_cases, work.trials, work.any) = "ok"
       /\ auth_type_test(<<hmac_test_case_0>>) = "ok"
  /\ work.kind = "transform" =>
       LET n == Len(work.octets)
           plain == null_enc(inBuffer(work.octets), n)
       IN  /\ judged(null_dec(plain.data, plain.n), work.octets) = "ok"
           /\ Sent(aes_128_cbc_hmac_sha1_96_enc(work.key, work.clear, work.iv,
                                                inBuffer(work.octets), n, work.found),
                   aes_128_cbc_hmac_sha1_96_func(work.key, work.clear, work.iv,
                                                 inBuffer(work.octets), n, work.found))
  /\ work.kind = "hash" =>
       LET m == work.octets
           key == SubSeq(m, 1, smaller(20, Len(m)))
       IN  /\ sha1(m) = Hash(m)
           /\ hmac_compute(hmac_start(hmac_init(key)), m, 20).tag
                = Hash(padded(key, 92) \o Hash(padded(key, 54) \o m))

\* In counter mode three pieces get the key stream of the whole, and leave the same context.
StreamInPieces(n1, n2, n3) ==
  LET a == aes_icm_set_iv("iv")
      b == aes_icm_encrypt(a, n1)
      c == aes_icm_encrypt(b, n2)
      last == aes_icm_encrypt(c, n3)
      total == n1 + n2 + n3
      whole == aes_icm_encrypt(a, total)
  IN  /\ keystream(a, n1) \o keystream(b, n2) \o keystream(c, n3) = keystream(a, total)
      /\ last.counter = whole.counter
      /\ last.bytes_in_buffer = whole.bytes_in_buffer

\* Three pieces leave the context of the whole, and two have its tag, also in a context
\* that has been used before.
HashInPieces(m, cuts) ==
  LET a == smaller(cuts[1], Len(m))
      b == smaller(a + cuts[2], Len(m))
      key == SubSeq(m, 1, smaller(20, Len(m)))
      whole == hmac_compute(hmac_start(hmac_init(key)), m, 20)
      used == hmac_compute(hmac_update(hmac_start(hmac_init(key)), SubSeq(m, 1, a)),
                           SubSeq(m, a + 1, Len(m)), 20)
  IN  /\ sha1_update(sha1_update(sha1_update(sha1_init, SubSeq(m, 1, a)),
                                 SubSeq(m, a + 1, b)), SubSeq(m, b + 1, Len(m)))
           = sha1_update(sha1_init, m)
      /\ used.tag = whole.tag
      /\ hmac_compute(hmac_start(used.state), m, 12).tag = SubSeq(whole.tag, 1, 12)

\* Data in pieces, however it is cut, comes to the same as a whole.
PiecesAreWhole ==
  /\ work.kind = "counter" => StreamInPieces(work.lens[1], work.lens[2], work.lens[3])
  /\ work.kind = "hash" => HashInPieces(work.octets, work.cuts)

-----------------------------------------------------------------------------
(* Bits, text and streams.                                                  *)

Value(bits) == [k \in 0 .. 3 |-> {i \in Positions : (32 * k) + i \in bits}]
BitsOf(x) == {(32 * k) + i : k \in DOMAIN x, i \in Positions} \cap
             {b \in 0 .. 1023 : b \div 32 \in DOMAIN x /\ bitvector_get_bit(x, b)}

\* A shift moves every bit by as many places and loses those that leave the value; the
\* words, which are written one by one in the same memory, do not disturb each other.
ShiftsMove ==
  work.kind = "shift" =>
    LET n == work.by
        x == Value(work.bits)
        right == v128_right_shift(x, n)
        left == v128_left_shift(x, n)
    IN  /\ {b \in 0 .. 127 : v128_get_bit(right, b)} = {b + n : b \in work.bits} \cap 0 .. 127
        /\ {b \in 0 .. 127 : v128_get_bit(left, b)} = {b - n : b \in work.bits} \cap 0 .. 127
        /\ \A b \in work.bits : v128_set_bit_to(v128_set_bit_to(x, b, FALSE), b, TRUE) = x
        /\ LET y == [k \in DOMAIN bitvector_alloc(128 + n) |-> IF k < 4 THEN x[k] ELSE {}]
           IN  BitsOf(bitvector_left_shift(y, n)) = {b - n : b \in work.bits} \cap 0 .. 127
        /\ LET s == v128_bit_string(v128_right_shift(v128_right_shift(x, 32), n))
           IN  {i \in DOMAIN s : s[i] = "1"}
                 = {(32 * (b \div 32)) + 32 - (b % 32) :
                      b \in {c + n + 32 : c \in work.bits} \cap 0 .. 127}

\* Octets in base 64 are read back as they were; in hexadecimal, as many as the buffer
\* has room for, which leaves no room for the end of the text from 512 octets on.  The
\* decoder's length is that of the text: with the number of octets, which its comment
\* (datatypes.c:167) asks for, it reads half of them.
OctetsRead(octets) ==
  LET hex == octet_string_hex_string(octets)
      n == smaller(Len(octets), MAX_PRINT_STRING_LEN \div 2)
      read == hex_string_to_octet_string(hex, Len(hex))
      base64 == base64_encode(octets)
  IN  /\ is_hex_string(hex) /\ Len(hex) = 2 * n /\ read.hex_len = Len(hex)
      /\ Len(hex) < MAX_PRINT_STRING_LEN <=> Len(octets) < MAX_PRINT_STRING_LEN \div 2
      /\ read.raw = SubSeq(octets, 1, n)
      /\ octet_string_is_eq(read.raw, octets, n) = 0
      /\ hex_string_to_octet_string(hex, n).raw = SubSeq(octets, 1, (n + 1) \div 2)
      /\ Len(octets) = 16 => v128_hex_string(octets) = hex
      /\ base64_decode(base64) = octets
      /\ base64_string_to_octet_string(base64, Len(base64)).base64_len = Len(base64)

\* A message as it is read back: a number that has not been set, -1, has become 0.
SetOrZero(number) == IF number = -1 THEN 0 ELSE number
ReadBack(message) ==
  LET roap == message.roap
  IN  [message EXCEPT !.roap =
         [name \in DOMAIN roap |-> IF name \in {"label", "error", "msgSize"}
                                   THEN SetOrZero(roap[name]) ELSE roap[name]]]

\* A candidate of the agent of a piece of work.
HostCandidate(type, priority, ip) ==
  [type |-> type, transport |-> "UDP", foundation |-> "1", component_id |-> 2,
   priority |-> priority, ip |-> ip, port |-> 4000]

\* What is written is read back as it was: octets in base 64 with every length of the last
\* group, and in hexadecimal as far as the buffer goes; a candidate; and a signalling
\* message, but for the label, the error and the size that no one has set.
WrittenIsRead ==
  /\ work.kind = "octets" => OctetsRead(work.octets)
  /\ work.kind = "message" =>
       parserSessionMessage(packageSessionMessage(work.message)) = ReadBack(work.message)
  /\ work.kind = "description" =>
       LET c == HostCandidate(work.type, work.vp8, work.local[1])
       IN  Candidate(candidateLine(c)) = c

\* What is heard, in a buffer of ROOM octets, of the messages on a connection that carries
\* N octets: an empty message is not sent, and the first that has no room in the buffer or
\* that the connection ends in is the end of all.
hearing(h, m, room, n) ==
  LET end == h.end + HeaderLen + Len(m)
  IN  IF m = <<>> \/ ~h.open THEN h
      ELSE IF Len(m) > room \/ end > n THEN [h EXCEPT !.open = FALSE]
      ELSE [h EXCEPT !.got = Append(h.got, m), !.end = end]
Heard(messages, room, n) ==
  LET heard[i \in 0 .. Len(messages)] ==
        IF i = 0 THEN [got |-> <<>>, end |-> 0, open |-> TRUE]
        ELSE hearing(heard[i - 1], messages[i], room, n)
  IN  heard[Len(messages)].got

\* The messages of a connection arrive as they were sent, however TCP cuts them and
\* whenever a signal interrupts: all of them before the first that has no room in the
\* buffer, or that the connection ends in.
FramesInOrder ==
  work.kind = "frames" =>
    LET sent == FlattenSeq([i \in DOMAIN work.messages |-> sendPacket(work.messages[i])])
        octets == SubSeq(sent, 1, Len(sent) - work.missing)
    IN  packets(Arriving(octets, work.size, work.signal), work.room, Len(work.messages) + 1)
          = Heard(work.messages, work.room, Len(octets))

\* A description that the gateway makes for the web says to a web agent what the
\* gateway's own agent meant: media, payload, key in every medium, credentials, source.
\* The answer to an offer uses the offer's payload.  A description for the IMS says to an
\* IMS agent on which ports the helpers listen, at the one address that is compiled in.
SdpUnderstood ==
  work.kind = "description" =>
    LET offered == [WebAgent EXCEPT !.vPayload = work.vp8, !.cryptoToWeb = "key"]
        sdp == createSdpToWeb(offered, work.stype, work.local)
        heard == handleSdpFromWeb(WebAgent, sdp)
        back == createSdpToWeb(heard.agent, heard.stype, work.local)
        ims == ImsAgent(work.SIPCodec)
        told == handleSdpFromIMS(ims, createSdpToIMS(ims, work.stype, work.SIPCodec, 6, 8),
                                 work.SIPCodec)
    IN  /\ heard.supportFlag /\ heard.stype = work.stype
        /\ heard.agent.credentials = work.local
        /\ heard.agent.cryptoFromWeb = "key"
        /\ \A i \in DOMAIN sdp : sdp[i].kind = "crypto" => sdp[i].value = "key"
        /\ work.stype = "VIDEO" => /\ heard.agent.vPayload = work.vp8
                                   /\ heard.agent.videoSSRCFromWeb = offered.videoSSRC
                                   /\ payloadOf(back, {"VP8"}, NoPayload) = work.vp8
        /\ told.supportFlag /\ told.stype = work.stype
        /\ told.agent.audio = <<HardCodedHost, 6>>
        /\ work.stype = "VIDEO" => /\ told.agent.video = <<HardCodedHost, 8>>
                                   /\ told.agent.vPayload = ims.vPayload

-----------------------------------------------------------------------------
(* Random octets and keys.                                                  *)

BitAt(data, i) == (data[(i \div 8) + 1] \div 2 ^ (i % 8)) % 2

\* The lengths of the runs of a bit in the data, but for the last run of all.
RunLengths(data, one) ==
  LET n == 8 * Len(data)
      starts == {i \in 0 .. n - 1 : i = 0 \/ BitAt(data, i) # BitAt(data, i - 1)}
      ended == {i \in starts : BitAt(data, i) = one /\ \E j \in starts : j > i}
  IN  [k \in 1 .. 6 |->
         Cardinality({i \in ended :
           LET l == Min({j \in starts : j > i}) - i IN IF k = 6 THEN l >= 6 ELSE l = k})]

\* A run, the last one too, is longer than the tests allow.
LongRun(data) ==
  LET n == 8 * Len(data)
  IN  \E i \in 0 .. n - 1 - LongestRun :
        \A j \in i .. i + LongestRun : BitAt(data, j) = BitAt(data, i)

\* The tests of a source count what they would count in its octets as a whole, wherever
\* one buffer ends and the next begins: every run but the last, in the order of their
\* lengths from 1.  A run that is too long, the last one too, fails them whatever the limits.
RunsCounted ==
  work.kind = "runs" =>
    LET data == work.draws[1] \o work.draws[2]
        ones == FoldLeft(LAMBDA n, o : n + Cardinality({i \in 0 .. 7 : (o \div 2 ^ i) % 2 = 1}),
                         0, data)
        draw(i) == [status |-> "ok", octets |-> work.draws[i]]
        bad == <<draw(1), [status |-> "fail", octets |-> <<>>]>>
        least(k)  == smaller(RunLengths(data, 1)[k], RunLengths(data, 0)[k])
        most(k)   == RunLengths(data, 1)[k] + RunLengths(data, 0)[k] - least(k)
        narrow == [ones |-> <<ones, ones>>, poker |-> <<0, 16 * (2 * Len(data)) ^ 2>>,
                   lo_value |-> [k \in 1 .. 6 |-> least(k)],
                   hi_value |-> [k \in 1 .. 6 |-> most(k)]]
        runs == runsOf(data)
        all == [ones |-> <<0, 8 * Len(data)>>, poker |-> <<0, 16 * (2 * Len(data)) ^ 2>>,
                lo_value |-> <<0, 0, 0, 0, 0, 0>>, hi_value |-> [k \in 1 .. 6 |-> 8 * Len(data)]]
    IN  /\ runs.failed = LongRun(data)
        /\ stat_test_runs(data, all) = ~runs.failed
        /\ stat_test_rand_source(<<draw(1), draw(2)>>, all).status
             = IF runs.failed THEN "algo_fail" ELSE "ok"
        /\ ~runs.failed =>
          /\ runs.runs = RunLengths(data, 1) /\ runs.gaps = RunLengths(data, 0)
          /\ stat_test_runs(data, narrow)
          /\ stat_test_rand_source_with_repetition(<<bad, <<draw(1), draw(2)>>>>, narrow) = "ok"

\* No octet of the key streams that the keys of a stream are cut from is in two of them, and
\* the keys have the lengths that the ciphers take.
KeysApart(rtp, rtcp) ==
  LET k == srtp_stream_init_keys(rtp, rtcp)
      all == k.rtp.cipher \o k.rtp.auth \o k.rtcp.cipher \o k.rtcp.auth
      split(p) == p.cipher_type = "AES_ICM" =>
                    /\ aes_icm_alloc(p.cipher_key_len)
                    /\ base_key_length(p.cipher_type, p.cipher_key_len)
                         = aes_icm_context_init(p.cipher_key_len)
  IN  /\ Cardinality(Range(all)) = Len(all)
      /\ Len(k.rtp.cipher) = rtp.cipher_key_len /\ Len(k.rtp.auth) = rtp.auth_key_len
      /\ Len(k.rtcp.cipher) = rtcp.cipher_key_len /\ Len(k.rtcp.auth) = rtcp.auth_key_len
      /\ aes_icm_alloc(k.kdf_keylen) /\ split(rtp) /\ split(rtcp)

\* The policy of a profile takes a key as long as its master key and its salt.
ProfileFits(profile) ==
  LET p == crypto_policy_set_from_profile_for_rtp(profile)
      q == crypto_policy_set_from_profile_for_rtcp(profile)
      n == srtp_profile_get_master_key_length(profile)
      salt == srtp_profile_get_master_salt_length(profile)
  IN  /\ p.cipher_type = "AES_ICM" => p.cipher_key_len = n + salt
      /\ q.auth_tag_len = 10 /\ q.cipher_key_len = p.cipher_key_len
      /\ Len(append_salt_to_key(Pattern(n, 1), n, Pattern(salt, 2), salt)) = n + salt

\* The keys of a stream are different and fit, with any two policies, and so do those of
\* every profile.
KeysSeparate ==
  work.kind = "keys" => /\ KeysApart(work.rtp, work.rtcp)
                        /\ \A profile \in Supported : ProfileFits(profile)

\* The octets that calls one after the other yield.
Yielding(s, r) == [p |-> r.p, octets |-> s.octets \o r.octets]
Drawn(generator, get(_, _)) ==
  LET drawn[i \in 0 .. Len(work.lens)] ==
        IF i = 0 THEN [p |-> generator, octets |-> <<>>]
        ELSE Yielding(drawn[i - 1], get(drawn[i - 1].p, work.lens[i]))
  IN  drawn[Len(work.lens)].octets

\* A generator never yields the same octet of its streams twice: not in the rest of a
\* block, not when the count is full and there is a new key, and not when the source
\* fails and the old key is still there.
PrngFresh ==
  work.kind = "random" =>
    LET new == [octet_count |-> 0, status |-> "ok", state |-> aes_icm_set_iv(0),
                source |-> rand_source_init([open |-> FALSE, reads |-> 0, good |-> work.good],
                                            TRUE).source]
        ctr == Drawn(ctr_prng_init(new), ctr_prng_get_octet_string)
        x917 == Drawn(x917_prng_init([new EXCEPT !.state = [key |-> 0, step |-> 0]]),
                      x917_prng_get_octet_string)
    IN  /\ Cardinality(Range(ctr)) = Len(ctr)
        /\ Cardinality(Range(x917)) = Len(x917)
=============================================================================
