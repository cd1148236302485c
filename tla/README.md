# Verification of the media gateway

This directory holds TLA+ models of the WebRTC-to-IMS media gateway
(`src/src`, `src/include`), the TLC runs that check them on small instances,
and TLAPS proofs of the properties that matter most.

The gateway connects a browser (ICE, SRTP with SDES keys, VP8) to an IMS phone
(plain RTP, H.264). A *signalling gateway* (SG) speaks to it over one TCP
connection; hosts that run ffmpeg, the *sub media gateways* (sub MGs), speak to
it over others and transcode the video.

## 1. The system

### Components, their state and their operations

| Component | Code | State | Operations |
|---|---|---|---|
| Signalling loop | `mediagateway.cpp` | map from offerSessionID to session; one session created ahead of the next offer | read a message, dispatch offer / answer / candidate / ok / shutdown, end on disconnection |
| Session | `mediasession.cpp` | two agents, two converters, caller flag, "SDP of the web side arrived", timer id | five message handlers, join of SDP and last candidate, start of the media, media watchdog, deletion |
| Timers | `timer.cpp` | id counter; id to `Ts`, id to thread | set, stop, fire |
| Web agent | `webagent.cpp` | libnice agent and its thread, candidates, keys, packet counters | SDP parsing and rewriting, candidates, ICE callbacks, media both ways |
| IMS agent | `imsagent.cpp` | two helpers, packet counters | SDP parsing and creation, media both ways |
| Helper | `helper.cpp` | two sockets, one thread | run, send, set destination, destroy |
| Codec converter | `codecconverter.cpp` | one helper | run (asks a sub MG for a transcoder), forward |
| Sub MG control channel | `submg.cpp` | list of sub MGs, state and address of every transcoding session | `startFFmpeg` on the signalling thread, `run` on a thread of its own |
| Packet framing | `etcp.cpp` | none | length-prefixed packets over TCP |
| SRTP converter | `rtpconverter.cpp` | two SRTP sessions | init, encrypt, decrypt |
| Message parser, base64, candidates | `messageparser.cpp`, `base64.cpp`, `candidate.cpp` | none | conversions |
| SRTP sessions and streams | `libsrtp/srtp.c` | session: template, list of streams; stream: replay databases, key limit, contexts | init, create, add, clone, remove, protect, unprotect (SRTP and SRTCP), shutdown |
| Replay databases, key limits | `rdbx.c`, `rdb.c`, `key.c` | index and bitmask; uses left | estimate, check, add, increment; update |
| Crypto kernel | `crypto_kernel.c`, `rand_source.c` | state, lists of types and debug modules, random device | init, load, replace, status, shutdown |
| Ciphers, hashes, generators, statistics | `aes*.c`, `sha1.c`, `hmac.c`, `xfm.c`, `prng.c`, `stat.c`, `datatypes.c` | contexts | encrypt, authenticate, draw, test |

### How they interact

```
   SG --TCP--> signalling thread: MediaGateway -> MediaSession handlers
                   |  doTailingJobs                    ^ shared, no lock
                   v                                   |
               CodecConverter::run               timer threads: checkMediaFlow
                   |                                   |
                   v                                   v
               SubMG::startFFmpeg             agents, converters, helpers
                   ^ shared, no lock                   ^ shared, no lock
                   |                                   |
   sub MGs <-> control thread: SubMG::run     workers: ICE loop, Helper threads
```

No lock is used anywhere in the gateway's own code. Three pairs of actors share
memory: the signalling thread and the control thread (the maps of `SubMG`); the
signalling thread and the timer threads (the session and the timer maps); and
the workers with whoever deletes a session.

### What is hard

* *Concurrency*: each of the three pairs above, at the granularity of single
  reads and writes.
* *Ordering*: an SDP and its last candidate in either order; an OK_FOR_START
  that overtakes the note that it is awaited; the steps of deletion.
* *Timeouts*: the watchdog of a session is a chain of one-shot timers, each of
  which sets the next one, on threads that are cancelled from outside.
* *Failure*: a sub MG that goes away; an SG that repeats a message or closes a
  call before it is answered.
* *Unreliable delivery*: SRTP comes over UDP, with 16 of the 48 bits of each
  packet's index; the rest is guessed from what came before, and replays must be
  told from late packets.

What makes each component correct is stated by its properties in section 3;
`PROJECT.json` lists every hazard with its line.

## 2. The modules

### SubMG

The control channel, access by access. The signalling thread (`Main_*`) runs
`startFFmpeg` again and again, as `CodecConverter::run` does; the control thread
(`Run_*`) runs the loop of `SubMG::run`; the sub MGs (`Sub_*`) are external:
they connect, answer, and go away at any moment, with what they have not
answered. `avaSubMG`, `curstate`, `addr`, `idCnt` are the static members of the
class; `mpc`, `idx`, `pick`, `ret`, `dest` are the control point and the locals of
`startFFmpeg`; `rpc`, `i`, `fds`, `msg` those of `run`. The two halves of an
address are read and written in steps of their own, because the code does so.
`conn`, `backlog`, `toSub`, `fromSub` are the sockets. `answered` and `lost` are
history. The loop `while(!curstate[msg.ID])` and the loop
`while(curstate[idx] == 1)` are actions that are not enabled until the loop would
end. `getVacID` without a free id is a control point, `searching`, with no exit.
`avaSubMG` is read three times before a START is sent: for the test of its size
(`Main_check`), for the modulus (`Main_pick`) and for the entry (`Main_send`).
When entries have been erased in between, the division by zero ends the process,
or the index is past the end and finds the socket of any entry, or of none. A
`send` to a connection that has closed is accepted and lost, fails, or ends the
process with SIGPIPE.

### Gateway and Calls

`Gateway` has one action for each kind of message, for the end of the SG's
connection, for a timer that runs out, and for media. A session is a record, and
each method of `MediaSession` is an operator from session to session of the same
name; the actions apply them to the session that the dispatch of
`handleSessionMessage` finds. `fresh` is the session that
`connectToSignalingGateway` creates ahead: a message that is not an offer must
leave it alone, and an offer uses it up.

A timer is represented by the sides that have sent since it was set. All timers
of the program have the same period, so those of one session run out in the
order in which they were set.

Messages that the code ignores (RTC_OK, a message without a session id, an
answer or candidate for an id without an entry) change nothing and have no
action. Candidates other than the last one are stored for libnice and have none
either.

What the model expects of the outside is in the guards: an answer comes from the
side that was sent the offer, and a browser sends candidates once it has sent or
received an offer. `Repeats` and `ReOffers` say how far the SG may repeat itself.

Undefined behaviour is a nondeterministic outcome: a timer that fires on a
session that is gone crashes the process; a session that is deleted before its
answer may crash it (`pthread_cancel(0)`) or not.

`Calls` is the abstract specification: the life of a call as the SG can rely on
it. `Gateway!Abstract` is the refinement mapping.

### Teardown

One session and the threads that meet at its end, access by access: the
signalling thread from `isSessionStop` to the `delete` of the session, the timer
threads from the end of their `select` to their `pthread_exit`, and the five
workers. `part` is each of the four pointers, live, dangling or null. The model
stops at the first undefined step and records which it is (`ub`); `blame`
records which races there have been, so that the properties can say which of
them is responsible for what.

A destructor and the cancellation of the threads it owns are one step. A worker
that waits in `recvfrom` ends with it; one that carries a packet goes on, and at its
next look into its own `Helper` (`helper.h:34`), which may be gone, it either reads
freed memory or ends at the read that is a cancellation point. A handler of the
signalling thread uses any of the four parts. A new timer thread
sleeps for a period before it reads anything, so that setting it is one step. A timer thread
that has been cancelled may stop between any two of its steps
(`PTHREAD_CANCEL_ASYNCHRONOUS`).

### Rdbx, SrtpInbound and MCSrtpInbound

`Rdbx` has the replay database of libsrtp as a record and each function of
`rdbx.c` as an operator: the estimate of a packet's index from its sequence
number, the check against the window, the addition of an index with the shift of
the bitmask. The number of sequence numbers and the length of the window are
constants. An estimate and its difference are one record, because the code
returns one and writes the other through a pointer, and they need not agree.

`SrtpInbound` is the decrypting half of an `RTPConverter`: a session with a
template and no streams, from which the streams of the browser are cloned when
their first packets come. `srtp_unprotect` is one action, because one thread, the
ICE loop, calls it. A packet is its index; authentication succeeds when the
estimate is that index, because the tag covers the rollover counter. `sent` only
grows and any packet in it may be delivered at any time, so loss, reordering,
delay and repetition are all there. `limit` is the `key_limit_ctx_t` that the
clones share with the template. `accepted`, `again` and `crossed` are history.
Calls that `srtp_unprotect` refuses without a trace are stutters and have no
action of their own.

`MCSrtpInbound` adds the symmetry of the streams.

### Rdb and Srtcp

`Rdb` has the replay database of SRTCP, which is another one: the whole index is
in the packet, nothing is guessed, and a sender uses the same record as its
counter. The number of indices, 2^31 in the code, is the constant `half`, because
`window_start` has 32 bits: `rdb_increment` compares before it increments and
goes on after it has said that the key has expired, so a counter may pass the
end, and wrap.

`Srtcp` is one stream from `srtp_protect_rtcp` to `srtp_unprotect_rtcp`, with
the network between them as in `SrtpInbound`. A packet is the number of its
call, its trailer (31 bits of index and the E bit) and the index that its
counter block was made of, which is not always the one the receiver sees.

### KeyLimit, AesIcm, SrtpOutbound and MCSrtpOutbound

`KeyLimit` is `key.c`; `SrtpInbound` and `SrtpOutbound` use it. `AesIcm` is the
counter mode: an octet of key stream is the block and the position it comes
from, so that "used twice" can be said; the block cipher is one-to-one and not
computed.

`SrtpOutbound` is the encrypting half of an `RTPConverter`, access by access: the
helper of the IMS agent and the helper of the codec converter call
`srtp_protect`, the ICE loop calls `srtp_protect_rtcp`, all on one session and
without a lock. A packet has a sequence number, which comes in with it, and a
payload, which is that of its call; its SSRC is that of its stream, since `sendData`
overwrites what came in (`webagent.cpp:409`, `424`). `given` is the history of the sequence
numbers of each stream, so that two payloads under one number can be told. `pc` is the access each makes next; the list of streams, the
limit, the cipher context and the HMAC context are shared, since
`srtp_stream_clone` copies pointers. `dropped`, `miscounted` and `overlapped` record which
conflict there has been. `MCSrtpOutbound` adds the symmetry of the media threads.

### CryptoKernel, SrtpSessions and MCSrtpSessions

`CryptoKernel` is the registry: the steps of `crypto_kernel_init` in their
order, each of which may fail when what it needs from outside fails, the second
call that only tests again, replacement of a type, and `crypto_kernel_shutdown`.
A type is its name.

`SrtpSessions` EXTENDS it with the life of sessions and streams: what each call
allocates, links, shares and frees. An object is a pair of the number of what it
was allocated for and its part; a stream is its number, its SSRC and the number
it shares its contexts with. `srtp_create`, `srtp_add_stream`,
`srtp_stream_clone`, `srtp_remove_stream` and `srtp_dealloc` are operators from
memory to memory. Two users call them: a program that uses the whole interface
(`CreateSession` and the rest), and `RTPConverter` (`Init_converter`, `Destroy`,
`Packet`). Memory may run out at the allocations at which the code's behaviour
differs (`Endings`). `blame` records the calls that leave memory behind:

* `srtp_add_stream` with a policy that `srtp_stream_init` refuses, or with an
  undefined SSRC, frees the stream and not what belongs to it;
* a second template is not freed at all;
* `srtp_stream_clone` without memory for the database loses the clone;
* `RTPConverter::init` that gets one session and not the other leaves the first,
  and one that is called again leaves both; when a later call fails, the pointer
  that is left is to a freed session.

`MCSrtpSessions` gives a byte order that exchanges two SSRC values, which is
what `htonl` may do to them: `srtp_remove_stream` compares without it.

### IceAgent

The web agent of each session with its ICE thread (`ice`), and the signalling
thread, one handler at a time (`signalling`). The stream, the flag of gathering and
the list of candidates are set one after the other, because a handler may come
between any two of them; `sendCandidatesToWeb`, which walks the list three times, has a
step at the start and at the end of each walk. What libnice is told of a
stream that it does not have is lost. `early` records the handlers that came
before what they use, `overlapped` that two threads were at the packet counter,
which is one static variable for all agents.

`setRemoteCandidates` gives libnice the browser's candidates of type host, each of
which it has deleted by then (`webagent.cpp:377`, `389`; `candidate.cpp:76-79`).
`remoteCandidates` is what libnice finds there: nothing, if no candidate was of
that type; what was in the memory, if it is still there (`"browser"`); or
something else (`"freed"`), of which the process may end. So the model does not say
that the browser is ever reached: the state of a component changes at will once
libnice has the browser's credentials. An SDP without a codec that the gateway
has ends its handler early, in each of the four handlers. libnice is
external: gathering may fail any number of times.

`MCIceAgent` adds the symmetry of the sessions.

### The algorithms

Pure functions, as operators on octets (numbers below 256), on words (the set of
the positions of the ones) or on symbols:

* `Aes` (`aes.c`): the key expansions, rounds and both directions, in the
  variants that the build options select (`Builds`). A table of `aes.c` is given
  by what its entries are made of: the S-box, or its inverse, times the factors
  of the column mix, in the field of `gf2_8.c`.
* `AesCbc` (`aes_cbc.c`, `xfm.c`): the chaining mode with its padding and the
  transforms with a tag; `Sha1` (`sha1.c`, `hmac.c`); `SelfTest` (`cipher.c`,
  `auth.c`): the tests that `crypto_kernel_init` runs, with their known answers.
* `Datatypes` (`datatypes.c`, `base64.cpp`): shifts of bit vectors in place,
  hexadecimal, both base 64 codecs.
* `Etcp` (`etcp.cpp`): `readn`, `readPacket`, `sendPacket` over a connection that
  delivers segments of any size, is interrupted by signals and may end.
* `MessageParser` (`messageparser.cpp`, `candidate.cpp`): messages to and from
  their packets. `Sdp` (`webagent.cpp`, `imsagent.cpp`): what the handlers take
  from a session description and what they put into one; a line is a record.
* `Keys` (`srtp.c`): the derivation of session keys, the profiles and the
  lengths of their keys. `Prng` (`prng.c`, `rand_source.c`): the two generators.
  `Stat` (`stat.c`): the statistical tests; their limits are a parameter.

`MCAlgorithms` puts them together. Its state is one input (`work`), of one of the
kinds that `WorkInit` lists, and a step does nothing: the invariants evaluate the
algorithm on each input. Loops are recursive functions or folds, so that the
modules can be proved about.

### The modules of proofs

`SubMGProofs`, `GatewayProofs`, `TeardownProofs`, `SrtpInboundProofs` (with the
lemmas about `Rdbx` and `KeyLimit`), `SrtpOutboundProofs`, `SrtpSessionsProofs`
(with those about `CryptoKernel`) and `IceAgentProofs` hold the theorems about the
module that each is named after. `AlgorithmProofs` holds those about `Srtcp` (with
`Rdb`) and about the algorithms.
See section 4.

## 3. The runs

| Run | Question | Result |
|---|---|---|
| `submg` | Do the two threads ever confuse, lose or reorder exchanges, and does each go on? | all properties hold |
| `submg_lost_start` | Does `startFFmpeg` always return (`submg.h:31`)? | no: a sub MG that closes after a START leaves it polling |
| `gateway` | With an SG that delivers answers and candidates once, does every call go through its life, and does each message reach its own session? | all properties hold |
| `gateway_reoffer` | Is an offer always for a new id (`mediagateway.cpp:86`)? | no: the assertion ends the gateway |
| `teardown` | What is the end of a session exposed to? | safe and complete outside the races that are named |
| `teardown_doublefree` | Is every Helper deleted once (`helper.cpp:56`)? | no: watchdog and shutdown may both delete it |
| `srtp_inbound` | Over a network that does what it likes, is each packet accepted once, and no new one refused? | all properties hold |
| `srtcp` | And each report, to the end of the index and beyond? | all properties hold, with the exceptions they name |
| `srtp_outbound` | Do three threads on one session without a lock ever use key stream twice? | not unless two are in it at once, or two packets came in under one number |
| `srtp_sessions` | Is everything freed once, whatever fails? | all properties hold, outside the calls that lose memory |
| `ice_agent` | Is the browser offered every candidate, and is libnice told of the browser in either order of its messages? | yes, unless a message comes before the ICE thread is ready; the candidates it is told of have been freed |
| `algorithms` | Do the pure algorithms compute what they promise? | all properties hold, with the exceptions they name |

### Properties

`submg`: `NoForeignAddress` (an address handed out for a session consists of what
was answered for that session), `OneExchange` (at most one START or answer is in
flight, which is what makes one `recv` return one message), `AnswerNotDropped`
(what `startFFmpeg` waits for is still on its way, or died with its sub MG),
`ListedOnce`, and under fairness `ThreadsGoOn` (a call whose sub MG answers
returns; an entry whose connection has closed goes, although the scan skips the
entry behind each one it erases).

`gateway`: `OwnSession` and `FreshUntouched` (no cross-talk between sessions),
`SilentBeforeStop` (a call is stopped only if a side has sent nothing for a whole
period), `QuietSessionStops` (and then it is stopped), `ImplementsCalls`.

`teardown`: `UndefinedNeedsRace` (each kind of undefined step has its race; a
double free needs the watchdog and the shutdown to overlap), `AllReleased`,
`ReapedIsReleased` (what `isSessionStop` reports as stopped has no part left,
although it looks at two of the four pointers), `ShutdownCompletes`.

`srtp_inbound`: `AcceptedOnce` (no replay gets through), `DatabaseIsRecord` (the
highest index and the bitmask are exactly what has been accepted, which relates
them to the whole past), `NewIsAccepted` (what has not been accepted is let
through if it is less than a window late, and less than half the sequence numbers
early or, while the index is in the first half, anywhere before the first
rollover), `OneLimit` (until the key expires, what it has been charged is the
number of pairs of a stream and a packet accepted in it). The first three make an exception of streams that have accepted a packet
overtaken by the rollover of its sequence numbers: `index_guess` then returns a
difference of the wrong sign, the packet counts as one ahead of the window, is
accepted as often as it comes, and the index runs on by the wrong amount. And a
key that has expired is used again by the next packet, because the counter goes
on below zero.

`srtcp`: `AcceptedOnce`; `IvUsedOnce` (no key stream is used twice before the
counter has gone round); `DecryptedRight` (what is accepted was encrypted with
the index that the receiver decrypts with, but for the one index that
`rdb_increment` lets through too late).

`srtp_outbound`: `SoundUnlessOverlap` (each packet has the key stream of its own
index and a tag over itself, unless two media threads were between setting the
IV and reading the tag at once; every packet that has passed the limit is charged
to the key, unless two updates met), `KeystreamUsedOnce` (no block of key stream
hides two payloads, unless two threads were in one stream at once, or the two came in
for one stream under one sequence number), `ReportIndexOnce`
(reports get indices of their own, unless two first packets met in the list and one
stream was dropped, or the counter of reports has gone round: `rdb_increment`
says that the key has expired and counts on). The second exception of
`KeystreamUsedOnce` is an exposure of the gateway and not of the model only: the
sequence number of a packet from the IMS is passed on as it came
(`WebAgent::sendData`), the SSRC is a constant, and `allow_repeat_tx` is set
(`rtpconverter.cpp:44`), so that `srtp_protect` encrypts a second, different payload
under a number it has seen with the same key stream. `srtp.h:226-229` asks the caller
never to do this, and nothing in the gateway compares payloads. An IMS side that starts its
numbers anew, or sends from two sources to one port, is enough.

`srtp_sessions`: `SecureIsComplete` (a kernel that says it is secure has every
type and its device, through any sequence of failed starts and shutdowns),
`LiveIsAllocated` (no session in use leads to freed memory, nothing is freed
twice), `NothingLost` (everything allocated is led to, unless one of the calls
above has been made).

`ice_agent`: `OfferedAll` (the browser is offered every local candidate, and
the process does not end, unless a message came too early or libnice has read
candidates that were freed), `PictureIsRequested`
(the counter does not run past its only point of comparison unless two threads
met at it), `BrowserTold` (once a call is signalled and the last candidate has
come, in either order with the SDP, libnice has been given the browser's
credentials and the list of its candidates of type host, and the keys are made,
unless a message came too early). That media flows is not claimed: the candidates
in that list have been freed, as said above.

`algorithms`: `AesInverts` (with the number of rounds that the key has),
`TransformsAreRight` (known answers; what was altered is refused; what was not
comes back if and only if the memory of a context that nothing has set holds the
number of rounds; hash and tag are those of the definition), `PiecesAreWhole` (key stream, hash and tag
do not depend on how the data is cut), `ShiftsMove` (of bit vectors that are
shifted in place), `WrittenIsRead` (text, candidates, and messages but for the
numbers that nobody has set), `FramesInOrder`
(however TCP cuts the packets), `SdpUnderstood`, `RunsCounted` (runs across the
boundary of two buffers; a run that is too long fails), `KeysSeparate` (no octet of derived key is in two
keys), `PrngFresh` (no octet is drawn twice, also after a refill has failed).

Four of them hold of the code and not of what one would expect, or its comments say:

* `aes_expand_decryption_key` reads `num_rounds` before anything has set it
  (`aes.c:1502`), and the four transforms of `xfm.c` (lines 104, 142, 300, 400) give it a
  context that is a fresh local variable. `TransformsAreRight` has what is found
  there as an input: with 10 the inverse is right, with anything else it gives back
  other octets and reports success, or reads beyond its data.
* A message of which `label`, `error` or `msgSize` was never set has -1 there
  (`commontype.h:21`). `packageSessionMessage` writes a JSON value made of `NULL`, which is 0
  (`messageparser.cpp:88-104`), and 0 is what is read back. `ReadBack` says so. The
  comment on `hex_string_to_octet_string` wants the length of the octets
  (`datatypes.c:166-169`), and the text is read back with it; from 512 octets on the text
  does not fit into the buffer, and its terminator is written one past the end of it.
* `stat.c:75-77` says that `runs[i]` holds the number of runs of size i - 1. The code
  counts those of length i + 1 there (`runs[state-1]++`, line 143), which is what the
  limits of the test want, and what `RunsCounted` says.
* A description for the IMS has the address 10.109.247.140, which is compiled in
  (`imsagent.cpp:85`), wherever the gateway runs; `SdpUnderstood` says that this is
  the address understood.

### Bounds

* `SubMG.cfg`: two hosts, so that one may fail, be skipped by the scan or
  reconnect while another serves; one port (ports are only compared, and
  `answered` tells sessions apart); two ids, enough for an answer to be mistaken
  for that of another session and for the id counter to reach the end of its
  range; one waiting connection. Hosts may come and go without limit.
* `Gateway.cfg`: two ids and three sessions: two calls at a time, or one id used
  twice, always with a session waiting. Answers and last candidates come once
  (`Repeats`), offers at will (`ReOffers`).
* `Teardown.cfg`: two timers (one that is set again), one packet in flight.
  A second packet adds no kind of conflict: any one worker inside a part that is
  being deleted is enough.
* `SrtpInbound.cfg`: six sequence numbers and packets up to 6, so that a stream
  crosses a rollover with packets on both sides of it; a window of 3, the most
  that fits in half the numbers; two streams, audio and video; a key for nine
  packets, so that it may expire early, late or not at all, and a counter one
  wider, so that it may wrap. The streams may be exchanged (`Symmetry`). The index
  is a natural number: no stream reaches 2^48 packets before its key expires.
* `Srtcp.cfg`: six indices in a counter of twelve, a window of three, and fifteen
  calls, so that the counter passes the end of the indices and wraps.
* `SrtpOutbound.cfg`: two calls for each thread, so that each has a first packet
  and one that finds its stream; two sequence numbers (`Packets`), so that the second
  call has a new packet, an older one or the same again; two blocks, so that a packet may lose its key
  stream half-way; a key for four uses in a counter of six. The model ends at
  an overlap, after which packets may be anything.
* `SrtpSessions.cfg`: two SSRC values; a start that fails after 6 steps (the
  device is open, the tests have not begun) or after 11 (two of three ciphers are
  loaded); four numbers for objects: a converter, and a session with a stream beside it;
  one kind of leak before the model stops.
* `IceAgent.cfg`: two sessions, since one static counter is shared, which may be
  exchanged (`Symmetry`); one candidate
  for each of the two components; a request after two packets, and the counter
  up to one past it.
* `Algorithms.cfg`: counter mode with blocks of four octets and a counter of 64,
  so that data of up to 23 octets ends anywhere in a block; a generator that
  draws 120 octets under one key, so that three calls need a new one; for the
  rest the inputs in `MCAlgorithms!WorkInit`: lengths around the boundaries of
  blocks, of the padding and of the buffer for hexadecimal text (511 to 513 octets), shifts around the boundaries of words, segments from
  one octet on with a signal anywhere.

Deadlock is not checked where the system may stop: an SG that has disconnected,
a session that has ended, a gateway that polls for ever.

### Fairness

`SubMG`: weak fairness of each thread, which the kernel schedules, and of the
answer of a sub MG that stays connected; none of connections. `Gateway`: weak
fairness of the timers only: the SG need not send, media need not flow.
`Teardown`: weak fairness of the signalling thread once it is inside a handler,
of the timers and of the workers that hold a packet or have been cancelled.
`SrtpInbound`, `SrtpOutbound`, `Srtcp`, `SrtpSessions`, `IceAgent`: none, since the
network, the callers and the browser owe nothing.

### What the repeated answer does

With `Repeats = 2` the properties `SilentBeforeStop` and `NoTimerOutlives` of
`Gateway` fail: a second answer sets a second timer (`mediasession.cpp:91`), and
the check of that one finds that no packet has been counted since the check of
the first. No comment promises otherwise, so it is a hazard and not a finding.

## 4. The proofs

TLAPS checks theorems for every value of the constants that satisfies the
assumptions (`SubMGAssumption`, `GatewayAssumption`, `TeardownAssumption`,
`RdbxAssumption`, `KeyAssumption`, `SrtpAssumption`, `RdbAssumption`,
`SrtcpAssumption`, `IcmAssumption`, `PrngAssumption`, `OutboundAssumption`,
`KernelAssumption`, `SessionsAssumption`, `IceAssumption`). They bound nothing that the code leaves open: the bounds of the models may have any
value, a window is at most half the sequence numbers, the soft limit of a key is
reached before the hard one, the streams of a converter have different SSRCs.

`SubMGProofs` proves the type invariant of `SubMG`, `NoForeignAddress`,
`OneExchange`, `AnswerNotDropped` and `StateOrder`. None of them is inductive.
The invariant `IInv` says where the one exchange in flight is at every control
point: that the signalling thread is the only source of STARTs and waits for each
of them; that while nothing is in flight the control thread is not in the middle
of an answer; that the state of every id but the current one is 0 or 2. The
lemmas are about sequences: what `RemoveAt` and `Append` leave, and what is in a
sequence of one element. `NoDuplicates` proves `ListedOnce` by itself, from the
types: what `run` appends is a connection that has just been accepted and is in no
entry, and an entry that is erased leaves the others apart (`RemoveKeepsApart`).

`GatewayProofs` has two layers. The first holds whatever the SG repeats. Its
invariant `GInv` adds to `TypeOK`, `OwnSession` and `FreshUntouched` that a timer
only watches a session that is ready (`GoodSession`), which is what makes
`checkMediaFlow` stop established sessions only. A lemma for each method of
`MediaSession` says what it preserves, and `StepShapes` reduces every action to
four shapes: the process stops, an offer takes the session created ahead, a
session in use changes, an entry is erased. From the shapes follow both the
induction (`GInvNext`) and the step of the refinement (`CallsNext`), and so
`TypeCorrect`, `OwnSessions`, `FreshIsUntouched` and `SessionsAreCalls`, the
implementation of `Calls`. The second layer assumes `Repeats = 1`, an SG that
delivers each answer and each last candidate once. `OnceSession` says of every
session that no SDP is marked as arrived before its one answer (or offer), that
nothing is sent before both parts are there, and that at most one timer watches
it, set after the answer, whose record of senders is contained in the counters
that `checkMediaFlow` compares. It gives `SentOnce`, `TimersEnd` and
`OnlySilentStopped`. Without the assumption all three are false in the model:
a repeated answer sets a second timer and sends again.

`TeardownProofs` proves the safety properties of `Teardown` for any number of
timers and of workers with a packet in hand. What an undefined step needs is only
to be had from a picture of where everybody is, so each property takes the whole
invariant, which has six parts. `Queue`: the timers were set one after the other,
and all but the last are past what they do to the session. `OneDeleter`: while the
signalling thread has not begun to delete, only the last timer can be inside
`deleteSession`, and the four pointers are as its next step says (`Stage`). `Alone`:
without an overlap the signalling thread finds the session whole, or finds all of
it deleted by a timer that is done; the only timer left is asleep, and is the one
that `timerID` names. `Blamed`: a worker can have a part in hand that is not live
only after a deletion that `blame` records, and only then can one be cancelled with
a packet in hand, which is what may lead it into its freed `Helper`. With `UndefinedNeedsRace` and
`ReapedIsReleased` themselves these are inductive: `DeletionStep` and
`DeletionFails` are the lemmas about a step of `deleteSession`, and `NoTimerFails`
and `RaceNext` show that an undefined step contradicts one of the other parts
unless its race is in `blame`. `AllReleased` follows from `Alone` at the last
control point. None of the three is inductive alone: they speak about the moment
at which something is freed twice or left, and say nothing of the steps that lead
there.

`SrtpInboundProofs` proves the properties of the receiving side for every number
of sequence numbers, every window of at most half of them, and any streams and
bounds. The invariant says of each stream that has begun, and that no packet
from before a rollover has disturbed, that its database is a record of its
accepted packets (`Recorded`): the index is the greatest of them, and a bit is
set if and only if the index it stands for is one of them. Three lemmas about
the operators carry the induction. `RightDifference`: when the guess is the true
index and not from an earlier rollover, the difference returned is the true one.
`AddRecorded`: an index that passes `rdbx_check` is not in the record, and
`rdbx_add_index` adds it and nothing else, whether it shifts the bitmask or not.
`RightGuess`: for any packet in reach of the database (`InReach`) the guess is
the true index. From the first two follow `NoReplay` and `DatabaseRecords`, from
the third `NewGetsThrough`. `RightGuess` is where the window must not be longer
than half the sequence numbers, which `srtp_stream_init` ensures; and the
special case of `rdbx_estimate_index` is what extends the reach at the start of
a stream. `KeyIsCharged` proves `OneLimit`: its invariant `Charged` adds that a
limit that has not expired has a use left, so that the decrement does not wrap,
and each step that uses the key adds one pair to `Accepted`, as `AcceptRecords`
shows.

The first part of `AlgorithmProofs` proves the properties of `Srtcp` for every
number of indices and every window that is not longer. On the receiving side the invariant says that
the database is a record of the indices that have been accepted (`Recorded`);
`CheckedIsNew` (what `rdb_check` lets through is not in it) and `AddRecorded`
(`rdb_add_index` adds the index and nothing else) carry the induction. On the
sending side it says that, until the counter has gone round, its value is the
number of calls (`SenderCounts`) and the block of every packet that is sent is made of
the number of its call (`SentRight`); `Increment` is the lemma about
`rdb_increment`. It lets through no index beyond `half`, and the trailer shows
every other index whole: this gives `IvsDiffer` and `ReadAsWritten`.

The rest of `AlgorithmProofs` is about the pure algorithms, for inputs of any
length. `Given` says what an input is: messages that fit into the length that
their header has room for, lengths and numbers that are natural, octets, any message
with its numbers set or not, the bits of a value of 128. `InitIsGiven` shows that
every input of the run is one, and `EveryWork` draws the conclusion. One theorem
has another hypothesis: `KeysAreSeparate` wants a key stream of 32 octets under one
vector, as long as the keys that are cut from it (in the code it has 16 * 65536).

* `FramesHeard` (`FramesInOrder`): `Cut` says that the segments still to come
  are a cut of the octets from a position on, with signals anywhere, and
  `Carries` that there is one. `recv`, each turn of `readn`, `readn`, and
  `readPacket` each take a stretch of those octets and leave a cut of the rest
  (`Takes`, `Reading`, `HasRead`): fewer octets than were asked for only at the
  end of the connection. So the reader stands at the beginning of a message as
  often as it has heard one (`HeardSoFar`), and stops at the first that its
  buffer has no room for.
* `PiecesAreAWhole` (`PiecesAreWhole`): in counter mode the context after p octets
  is that of position p (`At`): its buffer holds what is left of the block that
  p is in, and there is one such context, whether the counter has wrapped or not.
  For the hash, `Splits` says that the buffer and the words that have been hashed make
  up what has been put in.
* `KeysAreSeparate` (`KeysSeparate`): cipher keys, salts and keys of the hash are the
  beginnings of the streams of labels that differ (`LabelsApart`), and no stream
  repeats an octet within the period of the counter (`KeyIsStream`).
* `GeneratorsAreFresh` (`PrngFresh`): the octets that have been drawn are those of
  the keys read so far, and of the present key those before its position
  (`CtrUsed`, `CtrSound`). A refill that fails starts the count anew and leaves the old
  key where it was: the place in its stream, not the count, is what keeps it from
  drawing an octet again. For the X9.17 generator the streams are chains of blocks
  (`Chains`), and a key without a new state goes on from the step it is at.
* `TextIsRead` (`WrittenIsRead`): a nibble, and a sextet, is the one that its
  character was made of; base 64 is laid out group by group (`Groups`, `Base64Laid`), with
  the signs of equality at its end, so that the decoder finds each octet where
  the encoder put it, also in the last group. Of hexadecimal text as many octets come
  back as there is room for in the buffer. For messages the parser is shown
  to read each of the fields that the packager writes, where a number that has not
  been set was written as 0.
* `BitsMove` (`ShiftsMove`): a `Vector` is given by the set of its bits. The words
  are written in the memory they are read from, and the order of the writes is
  what makes it sound: each finds the words that it reads as they were
  (`LowerWritesInPlace`, `HigherWritesInPlace`). So word by word a shift by 32 d + r places
  leaves the bits that were as many places away (`LowerIs`, `HigherIs`).

`Induction` and functions that are shown to exist (`Turns`, `Flattens`, `BlockLoop`,
`LowerWrites`) stand for the loops, as in `SrtpSessionsProofs` below.

`SrtpOutboundProofs` proves the properties of the sending side for every number of
calls, packets, blocks and sequence numbers, every window and every counter of
uses. It has three inductive parts over the types. `MediaSound`: while there has
been no overlap, at most one media thread relies on what it has left in the shared
contexts (`OneRelies`); at each of its control points the cipher context, its
buffer, the hash and the key stream it has taken are those of its own packet, k
blocks in (`Alone`); and every packet that was sent is as it should be. `MediaStep`
shows that a step of one thread leaves the other's part alone, since the other is
not relying on anything. `LimitCounts` is inductive with the types: a thread between
reading the limit and writing it has the value that is there, unless another
update came in between, which `miscounted` records. `ReportsCounted`: unless its stream was
dropped, the counter of reports is the number of calls that are over, and each
report carries the number of its call. `SoundWithoutOverlap` and `ReportsApart` follow at once; for
`NoTwoTimePad` the block tells the IV (`BlockTellsIv`), the IV tells the stream and
the index, and the index tells the sequence number that came in (`given`): so two
packets that share a block are one, or the two were given one number.

`IceAgentProofs` proves `PictureIsRequested`, `OfferedAll` and `BrowserTold` for any number of
sessions, candidates and packets between two requests. `CountInv` says that,
while no two threads have met at the counter, one thread at most has a copy of it,
that the copy is what the counter is, and that the counter is behind the
interval or a request is being sent. `OfferInv` follows a handler through its
rounds, for agents to which no message came early: the list is complete once the
thread has left the first main loop (`ListComplete`), so a round that begins then
sees all of it, and does not see it grow (`RoundComplete`); after the first
round the whole list has been sent (`RoundOver`), and so it has in a call that is
signalled (`CallOffered`). `OfferedAll` alone is not inductive: it does not say
what a round that is under way has seen. `ToldInv` is for `EitherOrder`: it says what each
phase of a call has told libnice so far, with the SDP alone, with the last candidate
alone, and with both.

`SrtpSessionsProofs` proves the three properties of `SrtpSessions`, for any set of
SSRC values, any byte order, any number of objects and any set of places at which a
start may fail.

`SecureKernelComplete` is about the registry. A step of `crypto_kernel_init` that
succeeds leaves in the lists all that was in them and adds its own entry, none
twice (`Grown`, `GoodKernel`), and no step takes an entry out. So when the last of
the steps has succeeded the lists are complete (`AllSteps`), whatever
an earlier start that failed had left there; and the device is open, because
`rand_source_init` is one of the steps and comes before every test that reads it.
`KernelInv` says that of the state.

`LiveSessionsAllocated` and `NothingIsLost` have one invariant, `SessionsInv`. What
the properties say of the objects that are reachable is not inductive: it does not
exclude that two streams own one object, which the first `srtp_stream_dealloc` would
take from the other. `SoundContext` therefore says that the numbers of a
context's streams and of its template are distinct, and that a stream has its
contexts to itself or shares those of the template of its own session; `Held` says that
of all the sessions in use, that their objects are allocated, and that no
stream is in two of them. It holds as long as no `RTPConverter::init` has
failed in a converter that was ready (`"stale"`), and nothing else is allocated as long
as no call that loses memory has been made. Each operator of `SrtpSessions`
(`srtp_stream_alloc`, `srtp_add_stream`, `srtp_stream_clone`, `srtp_stream_dealloc`,
`srtp_remove_stream`, `srtp_dealloc`, `srtp_create`) has lemmas that say what it
allocates, what it frees and that what it frees was allocated; each action has a
lemma of its own.

Two operators go through a list: `srtp_dealloc` through the streams, `srtp_create`
through the policies. They are recursive functions on an interval. `Iterates` shows that
such a function exists, and `Induction` that what holds of 0 and of each successor
holds of the whole interval, both from a least counterexample in a set, for the
library's induction rules take an operator.

Some of what is proved is in no run of its own, because a stronger property of
the run covers it: the types, `StateOrder` of `SubMG`, `JoinedOnce` and
`NoTimerOutlives` of `Gateway`, `DatabaseIsRecord` of `Srtcp`.

Only model-checked:

* liveness under fairness (`ThreadsGoOn`, `QuietSessionStops`,
  `ShutdownCompletes`), which the prover does not reach;
* `AesInverts` and `TransformsAreRight`: what the ciphers compute is a calculation
  on tables and in the field of `gf2_8.c`, and not an argument; known answers are one
  too. That the hash does not depend on how a message is cut is proved;
* `SdpUnderstood`: the descriptions are fixed texts of some twenty lines, and what is
  to be shown is how two folds over them evaluate;
* `RunsCounted`: no proof has been attempted. It would need an invariant of two nested
  folds against a definition with cardinalities, and a bound on a sum of sixteen
  squares.

## 5. Plan

1. Done: `SubMG`, `Gateway` with `Calls`, `Teardown`; `Rdbx`, `SrtpInbound`,
   `Rdb`, `Srtcp`, `SrtpOutbound`, `CryptoKernel`, `SrtpSessions`; `IceAgent`; the
   algorithms.
2. Proved: all safety properties of `SubMG`, `Gateway` with the refinement of
   `Calls`, `Teardown`, `SrtpInbound`, `Srtcp`, `SrtpOutbound`, `SrtpSessions` with its
   registry, `IceAgent`; of the algorithms the framing, counter mode, the hash in pieces, the
   derivation of keys, the generators, text, messages and bit vectors.
3. Left: two sessions that share `Timer::cnt` and the maps of `timer.cpp`, with an
   answer that is repeated (the second run of a Helper); the algorithms named at the
   end of section 4.

## 6. Not modelled

* `ekt.c` and the branches for it in `srtp.c`. The gateway leaves the field `ekt` of its
  policies uninitialised (`rtpconverter.cpp:39-45`), but `ekt_alloc` sets the pointer of the
  stream to NULL whatever that field holds (`ekt.c:123-138`), and so the branches are never
  taken. `ut_sim.c`, a generator of test sequences that the gateway
  does not use. `rdbx_set_roc` and `rdbx_get_roc`, which only `ekt.c` and
  applications call.
* `err.c`, logging, the timing functions and the other output of the self-tests:
  nothing reads what they write.
* The JSON library, which is third-party; a message is what has been read.
* libnice, represented by what its calls and callbacks do; the set-up of sockets
  and addresses; sub MGs and their ffmpeg. `deleteFFmpeg` is declared and never
  defined.
* The data race on the nodes of `std::map`, which is below the granularity of the
  models, and packets that nobody sent, which the authentication refuses.
* Memory that is written beyond its end: a key of more than 30 octets that `memcpy` puts into
  its array (`rtpconverter.cpp:37`, `58`), a message that `strcpy` puts into the buffer of a
  `Packet` (`etcp.cpp:226`). A key has 30 octets in the models, and a message fits.
* Parts of transfers: a `send` that takes part of a packet (`etcp.cpp:228`), and a `recv` that
  returns part of a `CtrlMsg` (`submg.cpp:130`), which has a few octets. A read that fails, and that
  the IMS agent counts as a packet (`imsagent.cpp:266`, `288`): `Media` in `Gateway` is a packet that
  has come; the sockets are bound before any thread reads from them (`helper.cpp:29-51`).
* What happens after an exception that a property names: once two threads have been in one
  stream of `SrtpOutbound` the model ends, and once two have been at the packet counter of
  `IceAgent` nothing is said of it. A sub MG that is refused because its old entry has not been
  scanned yet, and a kernel whose second start fails because the first has filled its lists,
  are in the models, and no property is against them.
* The end of the blocks of `ctr_prng`: with the sizes of the code the counter mode has 2^16
  blocks, which run out long before `octet_count` makes it start again. `PrngFresh` is about
  a count that fits into them.
* The extensions of RTP headers: they move the start of what is encrypted, and no
  property is about it.
* `aes.c` for CPU_16, which does not compile. The rounds for CPU_RISC on a
  little-endian machine are in `Aes` and left out of `AesInverts`: decryption
  does not undo encryption there. The gateway is built for CPU_CISC.
