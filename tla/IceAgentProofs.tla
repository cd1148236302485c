--------------------------- MODULE IceAgentProofs ---------------------------
(***************************************************************************)
(* The ICE threads and the handlers, for any number of sessions and of      *)
(* candidates and every interval of the requests.                          *)
(***************************************************************************)
EXTENDS IceAgent, TLAPS

(***************************************************************************)
(* Types.                                                                  *)
(***************************************************************************)

\* Variables that a step leaves alone keep their types.
LEMMA IceUnchanged == IceTypes /\ UNCHANGED iceVars => IceTypes'
  BY DEF IceTypes, iceVars

LEMMA WebUnchanged == WebTypes /\ UNCHANGED webVars => WebTypes'
  BY DEF WebTypes, webVars

LEMMA CntUnchanged == CntTypes /\ UNCHANGED cntVars => CntTypes'
  BY DEF CntTypes, cntVars

\* A function keeps its type when one of its values is replaced by another of the type.
LEMMA Updated ==
  ASSUME NEW S, NEW f \in [Agents -> S], NEW a \in Agents, NEW v \in S
  PROVE  [f EXCEPT ![a] = v] \in [Agents -> S]
  OBVIOUS

\* What a step of an agent's thread changes.
LEMMA ThreadTypes ==
  ASSUME NEW a \in Agents, TypeOK, ThreadOf(a)
  PROVE  TypeOK'
  <1> USE DEF at, goto
  <1>1. CASE addStream(a)
    BY <1>1, WebUnchanged, CntUnchanged DEF addStream, IceTypes, TypeOK
  <1>2. CASE gatherCandidates(a)
    BY <1>2, WebUnchanged, CntUnchanged DEF gatherCandidates, IceTypes, TypeOK
  <1>3. CASE gatheringDone(a)
    BY <1>3, WebUnchanged, CntUnchanged DEF gatheringDone, IceTypes, TypeOK
  <1>4. CASE pushCandidate(a)
    BY <1>4, WebUnchanged, CntUnchanged DEF pushCandidate, IceTypes, TypeOK
  <1>5. CASE quit(a)
    BY <1>5, WebUnchanged, CntUnchanged DEF quit, IceTypes, TypeOK
  <1>6. CASE countPacket(a)
    <2>1. copy[a] \in Nat \cup {Idle, Asking} /\ copy[a] >= 0
      BY <1>6 DEF countPacket, CntTypes, TypeOK
    <2>2. copy[a] \in Nat
      BY <2>1 DEF Idle, Asking
    <2>3. CntTypes'
      BY <1>6, <2>2 DEF countPacket, CntTypes, TypeOK
    <2>4. QED
      BY <1>6, <2>3, IceUnchanged, WebUnchanged DEF countPacket, TypeOK
  <1>7. CASE resetCounter(a)
    BY <1>7, IceUnchanged, WebUnchanged DEF resetCounter, CntTypes, TypeOK
  <1>8. QED
    BY <1>1, <1>2, <1>3, <1>4, <1>5, <1>6, <1>7 DEF ThreadOf

LEMMA CallbackTypes ==
  ASSUME NEW a \in Agents, TypeOK,
         gatherFails(a) \/ componentStateChanged(a) \/ receiveData(a)
  PROVE  TypeOK'
  <1>1. CASE gatherFails(a)
    BY <1>1, IceUnchanged, WebUnchanged, CntUnchanged DEF gatherFails, vars, TypeOK
  <1>2. CASE componentStateChanged(a)
    <2>1. PICK state \in {"CONNECTING", "READY", "FAILED"} :
            /\ agentState' = [agentState EXCEPT ![a] = state]
            /\ isReady' = [isReady EXCEPT ![a] = @ \/ state = "READY"]
      BY <1>2 DEF componentStateChanged, TypeOK
    <2>2. (isReady[a] \/ state = "READY") \in BOOLEAN
      OBVIOUS
    <2>3. isReady' \in [Agents -> BOOLEAN]
      BY <2>1, <2>2, Updated DEF IceTypes, TypeOK
    <2>4. agentState' \in [Agents -> {"DISCONNECTED", "CONNECTING", "READY", "FAILED"}]
      BY <2>1 DEF IceTypes, TypeOK
    <2>5. QED
      BY <1>2, <2>3, <2>4, WebUnchanged, CntUnchanged
      DEF componentStateChanged, IceTypes, TypeOK
  <1>3. CASE receiveData(a)
    <2>1. overlapped' \in BOOLEAN
      BY <1>3 DEF receiveData, TypeOK
    <2>2. CntTypes'
      BY <1>3, <2>1 DEF receiveData, CntTypes, TypeOK
    <2>3. QED
      BY <1>3, <2>2, IceUnchanged, WebUnchanged DEF receiveData, TypeOK
  <1>4. QED
    BY <1>1, <1>2, <1>3

\* What the signalling thread is in.
Handlers == [agent : Agents \cup {0}, step : {"none", "between", "sending"},
             round : Nat, seen : Nat]

LEMMA HandlerBegins ==
  ASSUME NEW a \in Agents, NEW r \in Nat
  PROVE  /\ NoHandler \in Handlers
         /\ [NoHandler EXCEPT !.agent = a, !.step = "between", !.round = r] \in Handlers
         /\ [NoHandler EXCEPT !.agent = a, !.step = "between", !.round = r]
              = [agent |-> a, step |-> "between", round |-> r, seen |-> 0]
  <1>1. [NoHandler EXCEPT !.agent = a, !.step = "between", !.round = r]
          = [agent |-> a, step |-> "between", round |-> r, seen |-> 0]
    <2>1. [NoHandler EXCEPT !.agent = a]
            = [agent |-> a, step |-> "none", round |-> 0, seen |-> 0]
      BY DEF NoHandler
    <2>2. [[agent |-> a, step |-> "none", round |-> 0, seen |-> 0] EXCEPT !.step = "between"]
            = [agent |-> a, step |-> "between", round |-> 0, seen |-> 0]
      OBVIOUS
    <2>3. [[agent |-> a, step |-> "between", round |-> 0, seen |-> 0] EXCEPT !.round = r]
            = [agent |-> a, step |-> "between", round |-> r, seen |-> 0]
      OBVIOUS
    <2>4. [NoHandler EXCEPT !.agent = a, !.step = "between", !.round = r]
            = [[[NoHandler EXCEPT !.agent = a] EXCEPT !.step = "between"] EXCEPT !.round = r]
      OBVIOUS
    <2>5. QED
      BY <2>1, <2>2, <2>3, <2>4, Zenon
  <1>2. [agent |-> a, step |-> "between", round |-> r, seen |-> 0] \in Handlers
    BY DEF Handlers
  <1>3. NoHandler \in Handlers
    BY DEF Handlers, NoHandler
  <1>4. QED
    BY <1>1, <1>2, <1>3

LEMMA RoundEnds ==
  ASSUME NEW h \in Handlers
  PROVE  [h EXCEPT !.step = "between", !.round = @ + 1] \in Handlers
  <1> DEFINE next == h.round + 1
  <1>1. next \in Nat
    BY DEF Handlers
  <1>2. [h EXCEPT !.step = "between", !.round = @ + 1]
          = [h EXCEPT !.step = "between", !.round = next]
    OBVIOUS
  <1> HIDE DEF next
  <1>3. [h EXCEPT !.step = "between", !.round = next] \in Handlers
    BY <1>1 DEF Handlers
  <1>4. QED
    BY <1>2, <1>3

\* What a handler changes.
LEMMA HandlerTypes ==
  ASSUME NEW a \in Agents, TypeOK, MessageOf(a) \/ HandlerOf(a)
  PROVE  TypeOK'
  <1> SUFFICES WebTypes' /\ UNCHANGED <<iceVars, cntVars>>
    BY IceUnchanged, CntUnchanged DEF TypeOK
  <1>0. WebTypes /\ signalling \in Handlers
    BY DEF TypeOK, WebTypes, Handlers
  <1> DEFINE Told == {"none", "empty", "browser", "freed"}
  <1> DEFINE Reasons == {"SDP", "candidates", "own credentials", "local candidates"}
  <1>1. ASSUME NEW before, NEW what \in Reasons, tooEarly(a, before, what)
        PROVE  early' \in [Agents -> SUBSET Reasons]
    <2>1. early \in [Agents -> SUBSET Reasons]
      BY <1>0 DEF WebTypes
    <2>2. early[a] \cup {what} \in SUBSET Reasons
      BY <2>1
    <2>3. [early EXCEPT ![a] = early[a] \cup {what}] \in [Agents -> SUBSET Reasons]
      BY <2>1, <2>2, Updated
    <2>4. QED
      BY <1>1, <2>1, <2>3 DEF tooEarly
  <1>2. ASSUME sendOfferOrAnswerToIMS(a)
        PROVE  remoteCandidates' \in [Agents -> Told] /\ crashed' \in BOOLEAN
    <2>1. remoteCandidates \in [Agents -> Told] /\ crashed \in BOOLEAN
      BY <1>0 DEF WebTypes
    <2>2. CASE UNCHANGED <<remoteCandidates, crashed>>
      BY <2>1, <2>2
    <2>3. ASSUME NEW h \in handed(a),
                 remoteCandidates' = [remoteCandidates EXCEPT ![a] = h],
                 UNCHANGED crashed \/ crashed' = TRUE
          PROVE  remoteCandidates' \in [Agents -> Told] /\ crashed' \in BOOLEAN
      <3>1. h \in Told
        BY <2>3 DEF handed
      <3>2. QED
        BY <2>1, <2>3, <3>1, Updated
    <2>4. QED
      BY <1>2, <2>2, <2>3 DEF sendOfferOrAnswerToIMS, setRemoteCandidates
  <1>3. ASSUME setCredentials(a)
        PROVE  /\ credentials' \in [Agents -> BOOLEAN]
               /\ sdpArrived' \in [Agents -> BOOLEAN]
    <2>1. (credentials[a] \/ streamID[a]) \in BOOLEAN
      OBVIOUS
    <2>2. credentials \in [Agents -> BOOLEAN] /\ sdpArrived \in [Agents -> BOOLEAN]
      BY <1>0 DEF WebTypes
    <2>3. credentials' \in [Agents -> BOOLEAN]
      BY <1>3, <2>1, <2>2, Updated DEF setCredentials
    <2>4. sdpArrived' \in [Agents -> BOOLEAN]
      BY <1>3, <2>2 DEF setCredentials
    <2>5. QED
      BY <2>3, <2>4
  <1>4. CASE offerFromWeb(a)
    <2>1. early' \in [Agents -> SUBSET Reasons]
      BY <1>1, <1>4 DEF offerFromWeb
    <2>2. remoteCandidates' \in [Agents -> Told] /\ crashed' \in BOOLEAN
      BY <1>2, <1>4 DEF offerFromWeb
    <2>3. credentials' \in [Agents -> BOOLEAN] /\ sdpArrived' \in [Agents -> BOOLEAN]
      BY <1>3, <1>4 DEF offerFromWeb
    <2>4. phase' \in [Agents -> {"fresh", "refused", "web offer", "ims offer sent", "up"}]
      BY <1>0, <1>4 DEF WebTypes, offerFromWeb, signalled
    <2>5. QED
      BY <1>0, <1>4, <2>1, <2>2, <2>3, <2>4 DEF WebTypes, offerFromWeb
  <1>5. CASE lastCandidateFromWeb(a)
    <2>1. early' \in [Agents -> SUBSET Reasons]
      BY <1>1, <1>5 DEF lastCandidateFromWeb
    <2>2. remoteCandidates' \in [Agents -> Told] /\ crashed' \in BOOLEAN
      BY <1>2, <1>5 DEF lastCandidateFromWeb
    <2>3. lastCandidateArrived' \in [Agents -> BOOLEAN]
      BY <1>0, <1>5 DEF WebTypes, lastCandidateFromWeb
    <2>4. QED
      BY <1>0, <1>5, <2>1, <2>2, <2>3 DEF WebTypes, lastCandidateFromWeb
  <1>6. CASE createSdpToWeb(a)
    <2>1. early' \in [Agents -> SUBSET Reasons]
      BY <1>1, <1>6 DEF createSdpToWeb
    <2>2. signalling' \in Handlers /\ crashed' \in BOOLEAN
      <3>1. CASE streamID[a]
        <4>1. /\ signalling' = [NoHandler EXCEPT !.agent = a, !.step = "between", !.round = 1]
              /\ crashed' = crashed
          BY <1>6, <3>1 DEF createSdpToWeb
        <4>2. QED
          BY <1>0, <4>1, HandlerBegins DEF WebTypes
      <3>2. CASE ~streamID[a]
        BY <1>0, <1>6, <3>2 DEF WebTypes, createSdpToWeb
      <3>3. QED
        BY <3>1, <3>2
    <2>3. QED
      BY <1>0, <1>6, <2>1, <2>2 DEF WebTypes, createSdpToWeb, Handlers
  <1>7. CASE answerFromWeb(a)
    <2>1. remoteCandidates' \in [Agents -> Told] /\ crashed' \in BOOLEAN
      BY <1>0, <1>2, <1>7 DEF answerFromWeb, WebTypes
    <2>2. credentials' \in [Agents -> BOOLEAN] /\ sdpArrived' \in [Agents -> BOOLEAN]
      BY <1>3, <1>7 DEF answerFromWeb
    <2>3. signalling' \in Handlers
      <3>1. CASE UNCHANGED signalling
        BY <1>0, <3>1
      <3>2. CASE signalling' = [NoHandler EXCEPT !.agent = a, !.step = "between",
                                                 !.round = 4]
        BY <3>2, HandlerBegins
      <3>3. QED
        BY <1>7, <3>1, <3>2 DEF answerFromWeb
    <2>4. QED
      BY <1>0, <1>7, <2>1, <2>2, <2>3 DEF WebTypes, answerFromWeb, Handlers
  <1>8. CASE startRound(a)
    <2>1. early' \in [Agents -> SUBSET Reasons]
      BY <1>1, <1>8 DEF startRound
    <2>2. localCandidates[a] \in Nat
      BY DEF TypeOK, IceTypes
    <2>3. signalling' \in Handlers
      BY <1>0, <1>8, <2>2 DEF startRound, Handlers
    <2>4. QED
      BY <1>0, <1>8, <2>1, <2>3 DEF WebTypes, startRound, Handlers
  <1>9. CASE endRound(a)
    <2>1. localCandidates[a] \in Nat
      BY DEF TypeOK, IceTypes
    <2>2. offered' \in [Agents -> Nat] /\ crashed' \in BOOLEAN
      BY <1>0, <1>9, <2>1 DEF WebTypes, endRound
    <2>3. signalling' \in Handlers
      BY <1>0, <1>9, RoundEnds DEF endRound
    <2>4. QED
      BY <1>0, <1>9, <2>2, <2>3 DEF WebTypes, endRound, Handlers
  <1>10. CASE handlerEnds(a)
    <2>1. (phase[a] # "fresh") \in BOOLEAN
      OBVIOUS
    <2>2. converterReady' \in [Agents -> BOOLEAN]
      BY <1>0, <1>10, <2>1, Updated DEF WebTypes, handlerEnds
    <2>3. phase' \in [Agents -> {"fresh", "refused", "web offer", "ims offer sent", "up"}]
      BY <1>0, <1>10 DEF WebTypes, handlerEnds, signalled
    <2>4. signalling' \in Handlers
      BY <1>10, HandlerBegins DEF handlerEnds
    <2>5. QED
      BY <1>0, <1>10, <2>2, <2>3, <2>4 DEF WebTypes, handlerEnds, Handlers
  <1>11. CASE hostCandidateFromWeb(a)
    BY <1>0, <1>11 DEF WebTypes, hostCandidateFromWeb
  <1>12. CASE unsupportedFromIMS(a)
    <2>1. phase' \in [Agents -> {"fresh", "refused", "web offer", "ims offer sent", "up"}]
      BY <1>0, <1>12 DEF WebTypes, unsupportedFromIMS, signalled
    <2>2. QED
      BY <1>0, <1>12, <2>1 DEF WebTypes, unsupportedFromIMS
  <1>13. QED
    BY <1>4, <1>5, <1>6, <1>7, <1>8, <1>9, <1>10, <1>11, <1>12 DEF MessageOf, HandlerOf,
       offerFromWeb, hostCandidateFromWeb, lastCandidateFromWeb, unsupportedFromIMS,
       createSdpToWeb, answerFromWeb, startRound, endRound, handlerEnds

\* Every step keeps the types.
LEMMA TypesKept == TypeOK /\ [Next]_vars => TypeOK'
  <1> SUFFICES ASSUME TypeOK, [Next]_vars PROVE TypeOK'
    OBVIOUS
  <1>1. CASE UNCHANGED vars
    BY <1>1, IceUnchanged, WebUnchanged, CntUnchanged DEF vars, TypeOK
  <1>2. CASE Next
    <2>1. PICK a \in Agents :
            \/ ThreadOf(a)
            \/ gatherFails(a) \/ componentStateChanged(a) \/ receiveData(a)
            \/ MessageOf(a) \/ HandlerOf(a)
      BY <1>2 DEF Next
    <2>2. CASE ThreadOf(a)
      BY <2>2, ThreadTypes
    <2>3. CASE gatherFails(a) \/ componentStateChanged(a) \/ receiveData(a)
      BY <2>3, CallbackTypes
    <2>4. CASE MessageOf(a) \/ HandlerOf(a)
      BY <2>4, HandlerTypes
    <2>5. QED
      BY <2>1, <2>2, <2>3, <2>4
  <1>3. QED
    BY <1>1, <1>2

LEMMA TypesInit == Init => TypeOK
  <1> SUFFICES ASSUME Init PROVE TypeOK
    OBVIOUS
  <1>1. IceTypes
    BY DEF Init, IceTypes
  <1>2. WebTypes
    <2>1. signalling \in Handlers
      BY DEF Init, Handlers, NoHandler
    <2>2. QED
      BY <2>1 DEF Init, WebTypes, Handlers
  <1>3. CntTypes
    BY DEF Init, CntTypes
  <1>4. QED
    BY <1>1, <1>2, <1>3 DEF TypeOK

(***************************************************************************)
(* The packet counter.                                                     *)
(***************************************************************************)

\* While no two threads have been at the counter at once: one at most has a copy of it
\* or sends a request, the copy is what the counter is, and the counter is behind the
\* interval or the request is being sent.
OneCounts == \A a, b \in Agents : copy[a] # Idle /\ copy[b] # Idle => a = b
CopyIsCount == \A a \in Agents : copy[a] >= 0 => copy[a] = cnt
CountInv == ~overlapped => /\ OneCounts /\ CopyIsCount
                           /\ \/ cnt < SEND_RTCP_INTERVAL
                              \/ \E a \in Agents : copy[a] = Asking

LEMMA CountUnchanged == CountInv /\ UNCHANGED cntVars => CountInv'
  BY DEF CountInv, OneCounts, CopyIsCount, cntVars

LEMMA ReceiveCounts ==
  ASSUME NEW a \in Agents, TypeOK, CountInv, receiveData(a)
  PROVE  CountInv'
  <1> SUFFICES ASSUME ~overlapped' PROVE (OneCounts /\ CopyIsCount)' /\ cnt' < SEND_RTCP_INTERVAL
    BY DEF CountInv
  <1>1. /\ ~overlapped /\ cnt' = cnt /\ copy[a] = Idle
        /\ copy' = [copy EXCEPT ![a] = cnt]
        /\ \A b \in Agents \ {a} : copy[b] = Idle
    BY DEF receiveData
  <1>2. \A b \in Agents : copy[b] = Idle
    BY <1>1
  <1>3. cnt \in Nat /\ copy \in [Agents -> Nat \cup {Idle, Asking}]
    BY DEF TypeOK, CntTypes
  <1>4. cnt < SEND_RTCP_INTERVAL
    BY <1>1, <1>2 DEF CountInv, Idle, Asking
  <1>5. \A b \in Agents : copy'[b] = IF b = a THEN cnt ELSE Idle
    BY <1>1, <1>2, <1>3
  <1>6. QED
    BY <1>1, <1>3, <1>4, <1>5 DEF OneCounts, CopyIsCount, Idle

LEMMA PacketCounts ==
  ASSUME NEW a \in Agents, TypeOK, CountInv, countPacket(a)
  PROVE  CountInv'
  <1> SUFFICES ASSUME ~overlapped' PROVE CountInv'
    BY DEF CountInv
  <1>1. copy \in [Agents -> Nat \cup {Idle, Asking}] /\ cnt \in Nat
    BY DEF TypeOK, CntTypes
  <1>2. ~overlapped /\ OneCounts /\ CopyIsCount
    BY DEF countPacket, CountInv
  <1>3. copy[a] >= 0 /\ copy[a] \in Nat /\ copy[a] = cnt
    <2>1. copy[a] >= 0 /\ copy[a] \in Nat \cup {Idle, Asking}
      BY <1>1 DEF countPacket
    <2>2. QED
      BY <1>2, <2>1 DEF CopyIsCount, Idle, Asking
  <1>4. \A b \in Agents \ {a} : copy[b] = Idle
    BY <1>2, <1>3 DEF OneCounts, Idle
  <1>5. cnt < SEND_RTCP_INTERVAL
    BY <1>2, <1>3, <1>4 DEF CountInv, Idle, Asking
  <1>6. cnt' = cnt + 1
    BY <1>3 DEF countPacket
  <1>7. /\ copy'[a] = IF cnt' = SEND_RTCP_INTERVAL THEN Asking ELSE Idle
        /\ \A b \in Agents \ {a} : copy'[b] = Idle
    BY <1>1, <1>4 DEF countPacket
  <1>8. (OneCounts /\ CopyIsCount)'
    <2>1. \A b \in Agents : copy'[b] # Idle => b = a
      BY <1>7
    <2>2. \A b \in Agents : ~(copy'[b] >= 0)
      BY <1>7 DEF Idle, Asking
    <2>3. QED
      BY <2>1, <2>2 DEF OneCounts, CopyIsCount
  <1>9. cnt' < SEND_RTCP_INTERVAL \/ copy'[a] = Asking
    BY <1>1, <1>5, <1>6, <1>7, IceAssumption
  <1>10. QED
    BY <1>8, <1>9 DEF CountInv

LEMMA ResetCounts ==
  ASSUME NEW a \in Agents, TypeOK, CountInv, resetCounter(a)
  PROVE  CountInv'
  <1> SUFFICES ASSUME ~overlapped' PROVE (OneCounts /\ CopyIsCount)' /\ cnt' < SEND_RTCP_INTERVAL
    BY DEF CountInv
  <1>1. copy \in [Agents -> Nat \cup {Idle, Asking}]
    BY DEF TypeOK, CntTypes
  <1>2. OneCounts /\ copy[a] # Idle
    BY DEF resetCounter, CountInv, Idle, Asking
  <1>3. \A b \in Agents : copy'[b] = Idle
    BY <1>1, <1>2 DEF OneCounts, resetCounter
  <1>4. cnt' = 0
    BY DEF resetCounter
  <1>5. QED
    BY <1>3, <1>4, IceAssumption DEF OneCounts, CopyIsCount, Idle

\* Every other step leaves the counter alone.
LEMMA OthersCountNot ==
  ASSUME NEW a \in Agents,
         \/ addStream(a) \/ gatherCandidates(a) \/ gatheringDone(a)
         \/ pushCandidate(a) \/ quit(a) \/ gatherFails(a) \/ componentStateChanged(a)
         \/ MessageOf(a) \/ HandlerOf(a)
  PROVE  UNCHANGED cntVars
  <1>1. CASE \/ addStream(a) \/ gatherCandidates(a) \/ gatheringDone(a)
             \/ pushCandidate(a) \/ quit(a)
    BY <1>1 DEF addStream, gatherCandidates, gatheringDone, pushCandidate, quit
  <1>2. CASE gatherFails(a) \/ componentStateChanged(a)
    BY <1>2 DEF gatherFails, vars, componentStateChanged
  <1>3. CASE MessageOf(a)
    BY <1>3 DEF MessageOf, offerFromWeb, hostCandidateFromWeb, lastCandidateFromWeb,
                unsupportedFromIMS, createSdpToWeb, answerFromWeb
  <1>4. CASE HandlerOf(a)
    BY <1>4 DEF HandlerOf, startRound, endRound, handlerEnds
  <1>5. QED
    BY <1>1, <1>2, <1>3, <1>4

LEMMA CountKept == TypeOK /\ CountInv /\ [Next]_vars => CountInv'
  <1> SUFFICES ASSUME TypeOK, CountInv, [Next]_vars PROVE CountInv'
    OBVIOUS
  <1>1. CASE UNCHANGED vars
    BY <1>1, CountUnchanged DEF vars
  <1>2. CASE Next
    <2>1. PICK a \in Agents :
            \/ receiveData(a) \/ countPacket(a) \/ resetCounter(a)
            \/ \/ addStream(a) \/ gatherCandidates(a) \/ gatheringDone(a)
               \/ pushCandidate(a) \/ quit(a) \/ gatherFails(a) \/ componentStateChanged(a)
               \/ MessageOf(a) \/ HandlerOf(a)
      BY <1>2 DEF Next, ThreadOf
    <2>2. QED
      BY <2>1, ReceiveCounts, PacketCounts, ResetCounts, OthersCountNot, CountUnchanged
  <1>3. QED
    BY <1>1, <1>2

\* Packets go on leading to requests for a full picture: the counter never steps over
\* the interval, unless two threads have been at it at once.
THEOREM PicturesGoOn == Spec => []PictureIsRequested
  <1>1. Init => TypeOK /\ CountInv
    <2>1. Init => CountInv
      BY IceAssumption DEF Init, CountInv, OneCounts, CopyIsCount, Idle
    <2>2. QED
      BY <2>1, TypesInit
  <1>2. TypeOK /\ CountInv /\ [Next]_vars => (TypeOK /\ CountInv)'
    BY TypesKept, CountKept
  <1>3. CountInv => PictureIsRequested
    BY DEF CountInv, PictureIsRequested
  <1>4. QED
    BY <1>1, <1>2, <1>3, PTL DEF Spec

\* Every variable keeps its type.
THEOREM TypeCorrect == Spec => []TypeOK
  BY TypesInit, TypesKept, PTL DEF Spec

(***************************************************************************)
(* What the browser is offered.                                            *)
(***************************************************************************)

\* The list is complete once the thread has left the first main loop; a round that was
\* not begun too early began with the complete list, and once it is over, the whole list
\* has been sent.
ListComplete(a) == ice[a] = "running" => localCandidates[a] = 2 * Locals

RoundComplete(a) ==
  (signalling.agent = a /\ signalling.step = "sending" /\ early[a] = {}) =>
    ice[a] = "running" /\ signalling.seen = 2 * Locals

RoundOver(a) ==
  (signalling.agent = a /\ signalling.step = "between" /\ signalling.round >= 2 /\ early[a] = {}) =>
    offered[a] = 2 * Locals

CallOffered(a) ==
  (phase[a] \in {"ims offer sent", "up"} /\ early[a] = {}) => offered[a] = 2 * Locals

OfferInv ==
  /\ \A a \in Agents : ListComplete(a) /\ RoundComplete(a) /\ RoundOver(a) /\ CallOffered(a)
  /\ crashed => \E a \in Agents : early[a] # {} \/ remoteCandidates[a] = "freed"

\* What came early is not forgotten.
LEMMA EarlyGrows ==
  ASSUME TypeOK, NEW a \in Agents, NEW before \in BOOLEAN, NEW what, tooEarly(a, before, what)
  PROVE  /\ \A b \in Agents : early'[b] = {} => early[b] = {}
         /\ before => early'[a] # {}
  <1>1. early \in [Agents -> SUBSET {"SDP", "candidates", "own credentials",
                                     "local candidates"}]
    BY DEF TypeOK, WebTypes
  <1>2. CASE before
    <2>1. \A b \in Agents : early'[b] = IF b = a THEN early[a] \cup {what} ELSE early[b]
      BY <1>1, <1>2 DEF tooEarly
    <2>2. QED
      BY <2>1
  <1>3. CASE ~before
    BY <1>3 DEF tooEarly
  <1>4. QED
    BY <1>2, <1>3

\* A thread does nothing to the handlers, and what it does to the list completes it.
LEMMA ThreadOffers ==
  ASSUME NEW a \in Agents, TypeOK, OfferInv, UNCHANGED webVars,
         \/ addStream(a) \/ gatherCandidates(a) \/ gatheringDone(a)
         \/ pushCandidate(a) \/ quit(a)
  PROVE  OfferInv'
  <1> USE DEF at, goto
  <1>1. /\ ice \in [Agents -> {"add", "gather", "gathering", "filling", "running"}]
        /\ localCandidates \in [Agents -> Nat]
    BY DEF TypeOK, IceTypes
  <1>2. \A b \in Agents : /\ ListComplete(b)'
                          /\ ice[b] = "running" => ice'[b] = "running"
    <2>1. CASE addStream(a) \/ gatherCandidates(a) \/ gatheringDone(a)
      BY <1>1, <2>1 DEF addStream, gatherCandidates, gatheringDone, OfferInv, ListComplete
    <2>2. CASE pushCandidate(a)
      BY <1>1, <2>2 DEF pushCandidate, OfferInv, ListComplete
    <2>3. CASE quit(a)
      BY <1>1, <2>3 DEF quit, AllLocals, OfferInv, ListComplete
    <2>4. QED
      BY <2>1, <2>2, <2>3
  <1>3. UNCHANGED <<phase, signalling, offered, early, remoteCandidates, crashed>>
    BY DEF webVars
  <1>4. \A b \in Agents : RoundComplete(b)'
    BY <1>2, <1>3 DEF OfferInv, RoundComplete
  <1>5. \A b \in Agents : RoundOver(b)' /\ CallOffered(b)'
    BY <1>3 DEF OfferInv, RoundOver, CallOffered
  <1>6. (crashed => \E b \in Agents : early[b] # {} \/ remoteCandidates[b] = "freed")'
    BY <1>3 DEF OfferInv
  <1>7. QED
    BY <1>2, <1>4, <1>5, <1>6 DEF OfferInv

\* A handler does nothing to the list.  So it is enough to look at the handlers, whose
\* steps forget nothing of what came early.
LEMMA HandlerOffers ==
  ASSUME TypeOK, OfferInv, UNCHANGED <<ice, localCandidates>>,
         \A b \in Agents : early'[b] = {} => early[b] = {},
         \A b \in Agents : early'[b] = {} =>
           /\ (signalling'.agent = b /\ signalling'.step = "sending") =>
                ice[b] = "running" /\ signalling'.seen = 2 * Locals
           /\ (signalling'.agent = b /\ signalling'.step = "between" /\ signalling'.round >= 2) =>
                offered'[b] = 2 * Locals
           /\ phase'[b] \in {"ims offer sent", "up"} => offered'[b] = 2 * Locals,
         crashed' => \E b \in Agents : early'[b] # {} \/ remoteCandidates'[b] = "freed"
  PROVE  OfferInv'
  BY DEF OfferInv, ListComplete, RoundComplete, RoundOver, CallOffered

\* When handing over the candidates of the browser ends the process, it is because
\* they have been freed.
LEMMA CrashedByFreed ==
  ASSUME TypeOK, ~crashed, NEW a \in Agents, sendOfferOrAnswerToIMS(a)
  PROVE  crashed' => \E b \in Agents : remoteCandidates'[b] = "freed"
  <1>1. remoteCandidates \in [Agents -> {"none", "empty", "browser", "freed"}]
    BY DEF TypeOK, WebTypes
  <1>2. QED
    BY <1>1 DEF sendOfferOrAnswerToIMS, setRemoteCandidates

\* The messages of the browser, and those of an IMS side without a codec, leave the
\* candidates of the gateway alone.
LEMMA WebOffers ==
  ASSUME NEW a \in Agents, TypeOK, OfferInv, ~crashed,
         \/ offerFromWeb(a) \/ hostCandidateFromWeb(a) \/ lastCandidateFromWeb(a)
         \/ unsupportedFromIMS(a)
  PROVE  OfferInv'
  <1> USE DEF offerFromWeb, hostCandidateFromWeb, lastCandidateFromWeb,
              unsupportedFromIMS
  <1>1. \A b \in Agents : early'[b] = {} => early[b] = {}
    BY EarlyGrows
  <1>2. UNCHANGED <<ice, localCandidates, signalling, offered>>
    BY DEF iceVars
  <1>0. crashed' => \E b \in Agents : early'[b] # {} \/ remoteCandidates'[b] = "freed"
    BY CrashedByFreed
  <1>3. \A b \in Agents : phase'[b] \in {"ims offer sent", "up"} => phase'[b] = phase[b]
    <2>1. phase \in [Agents -> {"fresh", "refused", "web offer", "ims offer sent", "up"}]
      BY DEF TypeOK, WebTypes
    <2>2. QED
      BY <2>1 DEF signalled
  <1>4. \A b \in Agents : early'[b] = {} =>
          /\ (signalling'.agent = b /\ signalling'.step = "sending") =>
               ice[b] = "running" /\ signalling'.seen = 2 * Locals
          /\ (signalling'.agent = b /\ signalling'.step = "between" /\ signalling'.round >= 2) =>
               offered'[b] = 2 * Locals
          /\ phase'[b] \in {"ims offer sent", "up"} => offered'[b] = 2 * Locals
    BY <1>1, <1>2, <1>3 DEF OfferInv, RoundComplete, RoundOver, CallOffered
  <1>5. QED
    BY <1>0, <1>1, <1>2, <1>4, HandlerOffers

\* A handler begins: its rounds have yet to come, or none.
LEMMA BeginOffers ==
  ASSUME NEW a \in Agents, TypeOK, OfferInv, ~crashed,
         createSdpToWeb(a) \/ answerFromWeb(a)
  PROVE  OfferInv'
  <1>1. \A b \in Agents : early'[b] = {} => early[b] = {}
    BY EarlyGrows DEF createSdpToWeb, answerFromWeb
  <1>2. UNCHANGED <<ice, localCandidates, phase, offered>>
    BY DEF createSdpToWeb, answerFromWeb, iceVars
  <1>3. crashed' => \E b \in Agents : early'[b] # {} \/ remoteCandidates'[b] = "freed"
    <2>1. CASE createSdpToWeb(a)
      <3>1. streamID[a] \in BOOLEAN
        BY DEF TypeOK, IceTypes
      <3>2. crashed' => ~streamID[a]
        BY <2>1 DEF createSdpToWeb
      <3>3. ~streamID[a] => early'[a] # {}
        BY <2>1, <3>1, EarlyGrows DEF createSdpToWeb
      <3>4. QED
        BY <3>2, <3>3
    <2>2. CASE answerFromWeb(a)
      BY <2>2, CrashedByFreed DEF answerFromWeb
    <2>3. QED
      BY <2>1, <2>2
  <1>4. \/ signalling' = [agent |-> a, step |-> "between", round |-> 1, seen |-> 0]
        \/ signalling' = signalling /\ signalling = NoHandler
        \/ /\ signalling' = [agent |-> a, step |-> "between", round |-> 4, seen |-> 0]
           /\ phase[a] = "ims offer sent"
    <2>1. CASE createSdpToWeb(a)
      <3>1. CASE streamID[a]
        <4>1. signalling' = [NoHandler EXCEPT !.agent = a, !.step = "between", !.round = 1]
          BY <2>1, <3>1 DEF createSdpToWeb
        <4>2. QED
          BY <4>1, HandlerBegins
      <3>2. CASE ~streamID[a]
        BY <2>1, <3>2 DEF createSdpToWeb, sdpFromIMS, free
      <3>3. QED
        BY <3>1, <3>2
    <2>2. CASE answerFromWeb(a)
      <3>1. /\ \/ signalling' = [NoHandler EXCEPT !.agent = a, !.step = "between",
                                                  !.round = 4]
               \/ signalling' = signalling /\ signalling = NoHandler
            /\ phase[a] = "ims offer sent"
        BY <2>2 DEF answerFromWeb, free
      <3>2. QED
        BY <3>1, HandlerBegins
    <2>3. QED
      BY <2>1, <2>2
  <1>5. \A b \in Agents : early'[b] = {} /\ phase'[b] \in {"ims offer sent", "up"}
          => offered'[b] = 2 * Locals
    BY <1>1, <1>2 DEF OfferInv, CallOffered
  <1>6. signalling'.step # "sending"
    <2>1. NoHandler.step = "none"
      BY DEF NoHandler
    <2>2. CASE signalling' = signalling /\ signalling = NoHandler
      BY <2>1, <2>2
    <2>3. CASE signalling' = [agent |-> a, step |-> "between", round |-> 1, seen |-> 0]
      BY <2>3
    <2>4. CASE signalling' = [agent |-> a, step |-> "between", round |-> 4, seen |-> 0]
      BY <2>4
    <2>5. QED
      BY <1>4, <2>2, <2>3, <2>4
  <1>7. \A b \in Agents :
          (early'[b] = {} /\ signalling'.agent = b /\ signalling'.step = "between"
             /\ signalling'.round >= 2) => offered'[b] = 2 * Locals
    <2>1. NoHandler.step = "none"
      BY DEF NoHandler
    <2>2. CASE signalling' = [agent |-> a, step |-> "between", round |-> 1, seen |-> 0]
      BY <2>2
    <2>3. CASE signalling' = signalling /\ signalling = NoHandler
      BY <2>1, <2>3
    <2>4. CASE /\ signalling' = [agent |-> a, step |-> "between", round |-> 4, seen |-> 0]
               /\ phase[a] = "ims offer sent"
      BY <1>2, <1>5, <2>4
    <2>5. QED
      BY <1>4, <2>2, <2>3, <2>4
  <1>8. QED
    BY <1>1, <1>2, <1>3, <1>5, <1>6, <1>7, HandlerOffers

\* A round begins.
LEMMA StartOffers ==
  ASSUME NEW a \in Agents, TypeOK, OfferInv, ~crashed, startRound(a)
  PROVE  OfferInv'
  <1>1. /\ \A b \in Agents : early'[b] = {} => early[b] = {}
        /\ ice[a] # "running" => early'[a] # {}
    <2>1. tooEarly(a, ice[a] # "running", "local candidates")
      BY DEF startRound
    <2>2. (ice[a] # "running") \in BOOLEAN
      OBVIOUS
    <2>3. QED
      BY <2>1, <2>2, EarlyGrows
  <1>2. UNCHANGED <<ice, localCandidates, phase, offered>> /\ ~crashed'
    BY DEF startRound, iceVars
  <1>3. signalling'.agent = a /\ signalling'.step = "sending"
        /\ signalling'.seen = localCandidates[a]
    <2>1. signalling \in Handlers
      BY DEF TypeOK, WebTypes, Handlers
    <2>2. signalling' = [signalling EXCEPT !.step = "sending", !.seen = localCandidates[a]]
          /\ signalling.agent = a
      BY DEF startRound
    <2>3. QED
      BY <2>1, <2>2 DEF Handlers
  <1>4. \A b \in Agents : early'[b] = {} =>
          /\ (signalling'.agent = b /\ signalling'.step = "sending") =>
               ice[b] = "running" /\ signalling'.seen = 2 * Locals
          /\ (signalling'.agent = b /\ signalling'.step = "between" /\ signalling'.round >= 2) =>
               offered'[b] = 2 * Locals
          /\ phase'[b] \in {"ims offer sent", "up"} => offered'[b] = 2 * Locals
    BY <1>1, <1>2, <1>3 DEF OfferInv, ListComplete, CallOffered
  <1>5. QED
    BY <1>1, <1>2, <1>4, HandlerOffers

\* A round ends: what was not begun early has sent the whole list, which has not grown.
LEMMA EndOffers ==
  ASSUME NEW a \in Agents, TypeOK, OfferInv, ~crashed, endRound(a)
  PROVE  OfferInv'
  <1>1. UNCHANGED <<ice, localCandidates, phase, early>>
    BY DEF endRound, iceVars
  <1>2. early[a] = {} => localCandidates[a] = 2 * Locals /\ signalling.seen = 2 * Locals
    BY DEF endRound, OfferInv, RoundComplete, ListComplete
  <1>3. crashed' => early'[a] # {}
    BY <1>1, <1>2 DEF endRound
  <1>4. signalling'.agent = a /\ signalling'.step = "between"
    <2>1. signalling \in Handlers /\ signalling.agent = a
      BY DEF TypeOK, WebTypes, Handlers, endRound
    <2>2. signalling' = [signalling EXCEPT !.step = "between", !.round = @ + 1]
      BY DEF endRound
    <2> DEFINE next == signalling.round + 1
    <2>3. signalling' = [signalling EXCEPT !.step = "between", !.round = next]
      BY <2>2
    <2> HIDE DEF next
    <2>4. QED
      BY <2>1, <2>3 DEF Handlers
  <1>5. /\ early[a] = {} => offered'[a] = 2 * Locals
        /\ \A b \in Agents \ {a} : offered'[b] = offered[b]
    <2>1. offered \in [Agents -> Nat]
      BY DEF TypeOK, WebTypes
    <2>2. CASE offered' = [offered EXCEPT ![a] = localCandidates[a]]
      BY <1>2, <2>1, <2>2
    <2>3. CASE UNCHANGED offered /\ signalling.seen # localCandidates[a]
      BY <1>2, <2>3
    <2>4. QED
      BY <2>2, <2>3 DEF endRound
  <1>6. \A b \in Agents : early'[b] = {} =>
          /\ (signalling'.agent = b /\ signalling'.step = "sending") =>
               ice[b] = "running" /\ signalling'.seen = 2 * Locals
          /\ (signalling'.agent = b /\ signalling'.step = "between" /\ signalling'.round >= 2) =>
               offered'[b] = 2 * Locals
          /\ phase'[b] \in {"ims offer sent", "up"} => offered'[b] = 2 * Locals
    BY <1>1, <1>4, <1>5 DEF OfferInv, CallOffered
  <1>7. QED
    BY <1>1, <1>3, <1>6, HandlerOffers

\* The handler ends, after three rounds, or after the answer to an offer that was sent.
LEMMA FinishOffers ==
  ASSUME NEW a \in Agents, TypeOK, OfferInv, ~crashed, handlerEnds(a)
  PROVE  OfferInv'
  <1>1. UNCHANGED <<ice, localCandidates, offered, early, crashed>>
    BY DEF handlerEnds, iceVars
  <1>2. early[a] = {} => offered[a] = 2 * Locals
    <2>1. signalling.round \in Nat /\ signalling.round > 3
      BY DEF handlerEnds, TypeOK, WebTypes
    <2>2. signalling.round >= 2
      BY <2>1
    <2>3. QED
      BY <2>2 DEF handlerEnds, OfferInv, RoundOver
  <1>3. \A b \in Agents \ {a} : phase'[b] = phase[b]
    <2>1. phase \in [Agents -> {"fresh", "refused", "web offer", "ims offer sent", "up"}]
      BY DEF TypeOK, WebTypes
    <2>2. QED
      BY <2>1 DEF handlerEnds, signalled
  <1>4. \A b \in Agents : early'[b] = {} =>
          /\ (signalling'.agent = b /\ signalling'.step = "sending") =>
               ice[b] = "running" /\ signalling'.seen = 2 * Locals
          /\ (signalling'.agent = b /\ signalling'.step = "between" /\ signalling'.round >= 2) =>
               offered'[b] = 2 * Locals
          /\ phase'[b] \in {"ims offer sent", "up"} => offered'[b] = 2 * Locals
    <2>1. signalling' = NoHandler
      BY DEF handlerEnds
    <2>2. QED
      BY <1>1, <1>2, <1>3, <2>1 DEF NoHandler, OfferInv, CallOffered
  <1>5. QED
    BY <1>1, <1>4, HandlerOffers

LEMMA OffersKept == TypeOK /\ OfferInv /\ [Next]_vars => OfferInv'
  <1> SUFFICES ASSUME TypeOK, OfferInv, [Next]_vars PROVE OfferInv'
    OBVIOUS
  <1>1. ASSUME UNCHANGED <<ice, localCandidates, phase, signalling, offered, early,
                          remoteCandidates, crashed>>
        PROVE  OfferInv'
    BY <1>1 DEF OfferInv, ListComplete, RoundComplete, RoundOver, CallOffered
  <1>2. CASE UNCHANGED vars
    BY <1>1, <1>2 DEF vars, iceVars, webVars
  <1>3. CASE Next
    <2>1. ~crashed
      BY <1>3 DEF Next
    <2>2. PICK a \in Agents :
            \/ \/ addStream(a) \/ gatherCandidates(a) \/ gatheringDone(a)
               \/ pushCandidate(a) \/ quit(a)
            \/ \/ gatherFails(a) \/ componentStateChanged(a) \/ receiveData(a)
               \/ countPacket(a) \/ resetCounter(a)
            \/ \/ offerFromWeb(a) \/ hostCandidateFromWeb(a) \/ lastCandidateFromWeb(a)
               \/ unsupportedFromIMS(a)
            \/ createSdpToWeb(a) \/ answerFromWeb(a)
            \/ startRound(a) \/ endRound(a) \/ handlerEnds(a)
      BY <1>3 DEF Next, ThreadOf, MessageOf, HandlerOf
    <2>3. CASE \/ addStream(a) \/ gatherCandidates(a) \/ gatheringDone(a)
               \/ pushCandidate(a) \/ quit(a)
      <3>1. UNCHANGED webVars
        BY <2>3 DEF addStream, gatherCandidates, gatheringDone, pushCandidate, quit
      <3>2. QED
        BY <2>3, <3>1, ThreadOffers
    <2>4. CASE \/ gatherFails(a) \/ componentStateChanged(a) \/ receiveData(a)
               \/ countPacket(a) \/ resetCounter(a)
      BY <1>1, <2>4 DEF gatherFails, componentStateChanged, receiveData, countPacket,
         resetCounter, vars, iceVars, webVars
    <2>5. QED
      BY <2>1, <2>2, <2>3, <2>4, WebOffers, BeginOffers, StartOffers, EndOffers, FinishOffers
  <1>4. QED
    BY <1>2, <1>3

\* The browser is offered every local candidate, and the process goes on, unless a
\* message came before what it uses.
THEOREM AllOffered == Spec => []OfferedAll
  <1>1. Init => TypeOK /\ OfferInv
    <2>1. Init => OfferInv
      BY DEF Init, OfferInv, ListComplete, RoundComplete, RoundOver, CallOffered, NoHandler
    <2>2. QED
      BY <2>1, TypesInit
  <1>2. TypeOK /\ OfferInv /\ [Next]_vars => (TypeOK /\ OfferInv)'
    BY TypesKept, OffersKept
  <1>3. OfferInv => OfferedAll
    BY DEF OfferInv, CallOffered, OfferedAll
  <1>4. QED
    BY <1>1, <1>2, <1>3, PTL DEF Spec
(***************************************************************************)
(* What libnice is told of the browser.                                    *)
(***************************************************************************)

Busy(a) == signalling.agent = a /\ signalling.step # "none"

\* Both have arrived, and the handler of the later one has got so far.
TellingDue(a) == /\ sdpArrived[a] /\ lastCandidateArrived[a]
                 /\ phase[a] # "ims offer sent" \/ Busy(a)

\* How far the call is tells what has arrived; and what has arrived libnice knows, but
\* for the last candidate of a browser whose answer had no codec.
ToldFor(a) ==
  /\ phase[a] = "ims offer sent" \/ Busy(a) => streamID[a]
  /\ Busy(a) => phase[a] # "refused"
  /\ phase[a] \in {"web offer", "up"} \/ (Busy(a) /\ phase[a] = "ims offer sent")
       => sdpArrived[a]
  /\ phase[a] \in {"fresh", "refused"} => ~sdpArrived[a] /\ ~lastCandidateArrived[a]
  /\ phase[a] = "up" => converterReady[a]
  /\ early[a] = {} /\ sdpArrived[a] => credentials[a]
  /\ early[a] = {} /\ TellingDue(a) => remoteCandidates[a] \in handed(a)

ToldInv == \A a \in Agents : ToldFor(a)

\* A step leaves alone the agents that it is not about.
LEMMA OthersTold ==
  ASSUME NEW b \in Agents, ToldFor(b), early'[b] = {} => early[b] = {},
         streamID[b] => streamID'[b], Busy(b)' => Busy(b),
         phase'[b] = phase[b], sdpArrived'[b] = sdpArrived[b],
         lastCandidateArrived'[b] = lastCandidateArrived[b],
         converterReady'[b] = converterReady[b], credentials'[b] = credentials[b],
         hostCandidate'[b] = hostCandidate[b],
         remoteCandidates'[b] = remoteCandidates[b]
  PROVE  ToldFor(b)'
  <1>1. handed(b)' = handed(b)
    BY DEF handed
  <1>2. Busy(b)' => Busy(b)
    OBVIOUS
  <1>3. /\ phase'[b] = "ims offer sent" \/ Busy(b)' => streamID'[b]
        /\ Busy(b)' => phase'[b] # "refused"
        /\ phase'[b] = "up" => converterReady'[b]
    BY <1>2 DEF ToldFor
  <1>4. phase'[b] \in {"web offer", "up"} \/ (Busy(b)' /\ phase'[b] = "ims offer sent")
          => sdpArrived'[b]
    BY <1>2 DEF ToldFor
  <1>5. phase'[b] \in {"fresh", "refused"} => ~sdpArrived'[b] /\ ~lastCandidateArrived'[b]
    BY DEF ToldFor
  <1>6. early'[b] = {} /\ sdpArrived'[b] => credentials'[b]
    BY DEF ToldFor
  <1>7. early'[b] = {} /\ TellingDue(b)' => remoteCandidates'[b] \in handed(b)'
    BY <1>1, <1>2 DEF ToldFor, TellingDue
  <1>8. QED
    BY <1>3, <1>4, <1>5, <1>6, <1>7 DEF ToldFor

\* A message is handled while no handler is at work, and changes what is known of its
\* own agent only.
LEMMA MessageTells ==
  ASSUME NEW a \in Agents, TypeOK, ToldInv, MessageOf(a)
  PROVE  ToldInv'
  <1>1. /\ signalling = NoHandler /\ UNCHANGED <<streamID, converterReady>>
        /\ \A b \in Agents : ~Busy(b)
    <2>1. signalling = NoHandler
      BY DEF MessageOf, offerFromWeb, answerFromWeb, hostCandidateFromWeb,
             lastCandidateFromWeb, candidatesCome, unsupportedFromIMS, sdpFromIMS,
             createSdpToWeb, free
    <2>2. UNCHANGED <<streamID, converterReady>>
      BY DEF MessageOf, offerFromWeb, answerFromWeb, hostCandidateFromWeb,
             lastCandidateFromWeb, unsupportedFromIMS, createSdpToWeb, iceVars
    <2>3. QED
      BY <2>1, <2>2 DEF Busy, NoHandler
  <1>2. \A b \in Agents : early'[b] = {} => early[b] = {}
    BY EarlyGrows DEF MessageOf, offerFromWeb, answerFromWeb, hostCandidateFromWeb,
           lastCandidateFromWeb, unsupportedFromIMS, createSdpToWeb
  <1>3. \/ UNCHANGED signalling
        \/ \E r \in Nat : signalling' = [agent |-> a, step |-> "between",
                                         round |-> r, seen |-> 0]
    BY HandlerBegins DEF MessageOf, offerFromWeb, answerFromWeb,
           hostCandidateFromWeb, lastCandidateFromWeb, unsupportedFromIMS,
           createSdpToWeb
  <1>4. \A b \in Agents \ {a} : ~Busy(b)'
    BY <1>1, <1>3 DEF Busy, NoHandler
  <1>5. WebTypes
    BY DEF TypeOK
  <1>6. ASSUME NEW b \in Agents, b # a PROVE ToldFor(b)'
    <2>1. /\ phase'[b] = phase[b] /\ sdpArrived'[b] = sdpArrived[b]
          /\ lastCandidateArrived'[b] = lastCandidateArrived[b]
          /\ credentials'[b] = credentials[b] /\ hostCandidate'[b] = hostCandidate[b]
      BY <1>5, <1>6 DEF MessageOf, offerFromWeb, answerFromWeb, hostCandidateFromWeb,
           lastCandidateFromWeb, unsupportedFromIMS, createSdpToWeb, signalled,
           setCredentials, WebTypes
    <2>2. remoteCandidates'[b] = remoteCandidates[b]
      BY <1>5, <1>6 DEF MessageOf, offerFromWeb, answerFromWeb, hostCandidateFromWeb,
           lastCandidateFromWeb, unsupportedFromIMS, createSdpToWeb,
           sendOfferOrAnswerToIMS, setRemoteCandidates, WebTypes
    <2>3. QED
      BY <1>1, <1>2, <1>4, <1>6, <2>1, <2>2, OthersTold DEF ToldInv
  <1>7. ToldFor(a)
    BY DEF ToldInv
  <1>8. ASSUME sendOfferOrAnswerToIMS(a), sdpArrived'[a], lastCandidateArrived'[a],
               streamID[a], UNCHANGED hostCandidate
        PROVE  remoteCandidates'[a] \in handed(a)'
    BY <1>5, <1>8 DEF sendOfferOrAnswerToIMS, setRemoteCandidates, handed, WebTypes
  <1>9. CASE offerFromWeb(a)
    <2>1. /\ ~streamID[a] => early'[a] # {}
          /\ phase'[a] = "web offer" /\ sdpArrived'[a]
          /\ credentials'[a] = (credentials[a] \/ streamID[a])
          /\ ~lastCandidateArrived'[a] /\ ~Busy(a)'
      <3>1. (~streamID[a]) \in BOOLEAN
        OBVIOUS
      <3>2. ~streamID[a] => early'[a] # {}
        BY <1>9, <3>1, EarlyGrows DEF offerFromWeb
      <3>3. QED
        BY <1>1, <1>5, <1>7, <1>9, <3>2 DEF offerFromWeb, signalled, setCredentials,
           ToldFor, TellingDue, WebTypes, Busy, NoHandler
    <2>2. QED
      BY <1>6, <2>1 DEF ToldFor, TellingDue, ToldInv
  <1>10. CASE hostCandidateFromWeb(a)
    <2>1. /\ UNCHANGED <<phase, sdpArrived, lastCandidateArrived, credentials, early,
                         signalling>>
          /\ ~lastCandidateArrived[a]
      BY <1>10 DEF hostCandidateFromWeb, candidatesCome
    <2>2. ToldFor(a)'
      BY <1>1, <1>7, <2>1 DEF ToldFor, TellingDue, Busy
    <2>3. QED
      BY <1>6, <2>2 DEF ToldInv
  <1>11. CASE lastCandidateFromWeb(a)
    <2>1. /\ UNCHANGED <<phase, sdpArrived, credentials, signalling, hostCandidate>>
          /\ phase[a] \in {"web offer", "ims offer sent", "up"}
          /\ sendOfferOrAnswerToIMS(a) /\ lastCandidateArrived'[a]
      BY <1>5, <1>11 DEF lastCandidateFromWeb, candidatesCome, WebTypes
    <2>2. ~streamID[a] => early'[a] # {}
      <3>1. (~streamID[a]) \in BOOLEAN
        OBVIOUS
      <3>2. QED
        BY <1>11, <3>1, EarlyGrows DEF lastCandidateFromWeb
    <2>3. ~Busy(a)'
      BY <1>1, <2>1 DEF Busy, NoHandler
    <2>4. early'[a] = {} /\ sdpArrived'[a] => remoteCandidates'[a] \in handed(a)'
      BY <1>8, <2>1, <2>2
    <2>5. ToldFor(a)'
      BY <1>1, <1>2, <1>7, <2>1, <2>3, <2>4 DEF ToldFor, TellingDue
    <2>6. QED
      BY <1>6, <2>5 DEF ToldInv
  <1>12. CASE unsupportedFromIMS(a)
    <2>1. /\ UNCHANGED <<sdpArrived, lastCandidateArrived, credentials, hostCandidate,
                         remoteCandidates, early, signalling>>
          /\ phase'[a] = IF phase[a] = "fresh" THEN "refused" ELSE phase[a]
      BY <1>5, <1>12 DEF unsupportedFromIMS, signalled, WebTypes
    <2>2. ToldFor(a)'
      BY <1>1, <1>7, <2>1 DEF ToldFor, TellingDue, handed, Busy
    <2>3. QED
      BY <1>6, <2>2 DEF ToldInv
  <1>13. CASE createSdpToWeb(a)
    <2>1. /\ UNCHANGED <<phase, sdpArrived, lastCandidateArrived, credentials,
                         hostCandidate, remoteCandidates>>
          /\ phase[a] \in {"fresh", "web offer"}
          /\ Busy(a)' => streamID[a]
      BY <1>1, <1>13 DEF createSdpToWeb, sdpFromIMS, Busy, NoHandler
    <2>2. handed(a)' = handed(a)
      BY <2>1 DEF handed
    <2>3. ToldFor(a)'
      BY <1>1, <1>2, <1>7, <2>1, <2>2 DEF ToldFor, TellingDue
    <2>4. QED
      BY <1>6, <2>3 DEF ToldInv
  <1>14. CASE answerFromWeb(a)
    <2>1. /\ UNCHANGED <<phase, lastCandidateArrived, early, hostCandidate>>
          /\ phase[a] = "ims offer sent" /\ streamID[a]
          /\ sdpArrived'[a] /\ credentials'[a]
      BY <1>5, <1>7, <1>14 DEF answerFromWeb, setCredentials, ToldFor, TellingDue, WebTypes
    <2>2. Busy(a)' => sendOfferOrAnswerToIMS(a)
      BY <1>1, <1>14 DEF answerFromWeb, Busy, NoHandler
    <2>3. Busy(a)' /\ lastCandidateArrived'[a] => remoteCandidates'[a] \in handed(a)'
      BY <1>8, <2>1, <2>2
    <2>4. ToldFor(a)'
      BY <1>1, <2>1, <2>3 DEF ToldFor, TellingDue
    <2>5. QED
      BY <1>6, <2>4 DEF ToldInv
  <1>15. QED
    BY <1>9, <1>10, <1>11, <1>12, <1>13, <1>14 DEF MessageOf

\* A handler that has begun keeps what it has found.
LEMMA HandlerTells ==
  ASSUME NEW a \in Agents, TypeOK, ToldInv, HandlerOf(a)
  PROVE  ToldInv'
  <1>1. /\ UNCHANGED <<streamID, sdpArrived, lastCandidateArrived, credentials,
                       hostCandidate, remoteCandidates>>
        /\ Busy(a)
    BY DEF HandlerOf, startRound, endRound, handlerEnds, iceVars, Busy
  <1>2. \A b \in Agents : early'[b] = {} => early[b] = {}
    BY EarlyGrows DEF HandlerOf, startRound, endRound, handlerEnds
  <1>3. \A b \in Agents : handed(b)' = handed(b)
    BY <1>1 DEF handed
  <1>4. WebTypes
    BY DEF TypeOK
  <1>5. signalling'.agent = a \/ signalling' = NoHandler
    <2>1. signalling \in [agent : Agents \cup {0}, step : {"none", "between", "sending"},
                          round : Nat, seen : Nat]
      BY <1>4 DEF WebTypes
    <2>2. CASE startRound(a)
      BY <2>1, <2>2 DEF startRound
    <2>3. CASE endRound(a)
      BY <2>1, <2>3 DEF endRound
    <2>4. CASE handlerEnds(a)
      BY <2>4 DEF handlerEnds
    <2>5. QED
      BY <2>2, <2>3, <2>4 DEF HandlerOf
  <1>6. ASSUME NEW b \in Agents PROVE Busy(b)' => Busy(b)
    BY <1>1, <1>5 DEF Busy, NoHandler
  <1>7. CASE startRound(a) \/ endRound(a)
    <2>1. UNCHANGED <<phase, converterReady>>
      BY <1>7 DEF startRound, endRound
    <2>2. QED
      BY <1>1, <1>2, <1>6, <2>1, OthersTold DEF ToldInv
  <1>8. CASE handlerEnds(a)
    <2>1. /\ phase' = [phase EXCEPT ![a] = IF phase[a] = "fresh" THEN "ims offer sent"
                                                               ELSE "up"]
          /\ converterReady' = [converterReady EXCEPT ![a] = phase[a] # "fresh"]
          /\ signalling' = NoHandler
      BY <1>8 DEF handlerEnds, signalled
    <2>2. ASSUME NEW b \in Agents, b # a PROVE ToldFor(b)'
      <3>1. phase'[b] = phase[b] /\ converterReady'[b] = converterReady[b]
        BY <1>4, <2>1, <2>2 DEF WebTypes
      <3>2. QED
        BY <1>1, <1>2, <1>6, <2>2, <3>1, OthersTold DEF ToldInv
    <2>3. ToldFor(a)'
      <3>1. ToldFor(a) /\ ~Busy(a)'
        BY <2>1 DEF ToldInv, Busy, NoHandler
      <3>2. phase[a] \in {"fresh", "refused", "web offer", "ims offer sent", "up"}
        BY <1>4 DEF WebTypes
      <3>3. CASE phase[a] = "fresh"
        <4>1. phase'[a] = "ims offer sent"
          BY <1>4, <2>1, <3>3 DEF WebTypes
        <4>2. QED
          BY <1>1, <1>2, <3>1, <3>3, <4>1 DEF ToldFor, TellingDue
      <3>4. CASE phase[a] # "fresh"
        <4>1. phase'[a] = "up" /\ converterReady'[a]
          BY <1>4, <2>1, <3>4 DEF WebTypes
        <4>2. sdpArrived[a]
          BY <1>1, <3>1, <3>2, <3>4 DEF ToldFor, TellingDue
        <4>3. QED
          BY <1>1, <1>2, <1>3, <3>1, <4>1, <4>2 DEF ToldFor, TellingDue
      <3>5. QED
        BY <3>3, <3>4
    <2>4. QED
      BY <2>2, <2>3 DEF ToldInv
  <1>9. QED
    BY <1>7, <1>8 DEF HandlerOf

LEMMA ToldKept == TypeOK /\ ToldInv /\ [Next]_vars => ToldInv'
  <1> SUFFICES ASSUME TypeOK, ToldInv, [Next]_vars PROVE ToldInv'
    OBVIOUS
  <1>1. ASSUME UNCHANGED webVars, \A b \in Agents : streamID[b] => streamID'[b]
        PROVE  ToldInv'
    <2>1. \A b \in Agents : Busy(b)' => Busy(b)
      BY <1>1 DEF webVars, Busy
    <2>2. QED
      BY <1>1, <2>1, OthersTold DEF webVars, ToldInv
  <1>2. CASE UNCHANGED vars
    BY <1>1, <1>2 DEF vars, iceVars
  <1>3. CASE Next
    <2>1. PICK a \in Agents :
            \/ ThreadOf(a)
            \/ gatherFails(a) \/ componentStateChanged(a) \/ receiveData(a)
            \/ MessageOf(a) \/ HandlerOf(a)
      BY <1>3 DEF Next
    <2>2. CASE \/ ThreadOf(a)
               \/ gatherFails(a) \/ componentStateChanged(a) \/ receiveData(a)
      <3>1. UNCHANGED webVars
        BY <2>2 DEF ThreadOf, addStream, gatherCandidates, gatheringDone, pushCandidate,
           quit, countPacket, resetCounter, gatherFails, componentStateChanged,
           receiveData, vars
      <3>2. UNCHANGED streamID \/ streamID' = [streamID EXCEPT ![a] = TRUE]
        BY <2>2 DEF ThreadOf, addStream, gatherCandidates, gatheringDone, pushCandidate,
           quit, countPacket, resetCounter, gatherFails, componentStateChanged,
           receiveData, vars, iceVars
      <3>3. \A b \in Agents : streamID[b] => streamID'[b]
        BY <3>2 DEF TypeOK, IceTypes
      <3>4. QED
        BY <1>1, <3>1, <3>3
    <2>3. QED
      BY <2>1, <2>2, MessageTells, HandlerTells
  <1>4. QED
    BY <1>2, <1>3

\* Whichever of the SDP and the last candidate comes last, libnice is told of the
\* browser before the call is up, unless a message came before the stream.
THEOREM EitherOrder == Spec => []BrowserTold
  <1>1. Init => TypeOK /\ ToldInv
    <2>1. Init => ToldInv
      BY DEF Init, ToldInv, ToldFor, TellingDue, Busy, NoHandler
    <2>2. QED
      BY <2>1, TypesInit
  <1>2. TypeOK /\ ToldInv /\ [Next]_vars => (TypeOK /\ ToldInv)'
    BY TypesKept, ToldKept
  <1>3. ToldInv => BrowserTold
    BY DEF ToldInv, ToldFor, TellingDue, BrowserTold
  <1>4. QED
    BY <1>1, <1>2, <1>3, PTL DEF Spec
=============================================================================
