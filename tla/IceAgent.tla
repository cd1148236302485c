------------------------------ MODULE IceAgent ------------------------------
(***************************************************************************)
(* The web agents of the sessions (webagent.cpp): each has a thread that    *)
(* runs libnice (startICE and the callbacks), and the signalling thread     *)
(* (the handlers of mediasession.cpp, one message at a time) calls the same *)
(* objects without a lock.  An ICE stream exists only once its thread has   *)
(* added it, candidates are gathered later still, and nothing makes the     *)
(* first message wait for either.                                          *)
(*                                                                         *)
(* libnice and the browser are external: gathering fails any number of      *)
(* times and ends, and the state of the component changes as it likes once  *)
(* libnice has the browser's credentials, for it may find the browser by    *)
(* the browser's own checks.                                               *)
(*                                                                         *)
(* The candidates of the browser that libnice is given have been freed by   *)
(* then (webagent.cpp:377, 389).  What it reads is what was there, or       *)
(* something else, and the process may end of it.                          *)
(***************************************************************************)
EXTENDS Integers, FiniteSets

CONSTANTS Agents,
          Locals,              \* local candidates of each component
          SEND_RTCP_INTERVAL,  \* 188 in the code
          MaxCnt               \* bound: no packet after this count

ASSUME IceAssumption == /\ Locals \in Nat \ {0}
                        /\ SEND_RTCP_INTERVAL \in Nat \ {0}

VARIABLES
  ice,               \* where the thread of each agent is
  streamID,          \* the stream has been added
  isCandidateGatheringDone, localCandidates,
  agentState, isReady,
  credentials,       \* libnice has those of the browser
  hostCandidate,     \* remoteRTPCandidates has one of type host
  remoteCandidates,  \* what libnice has been told of remoteRTPCandidates
  converterReady, lastCandidateArrived, sdpArrived,
  phase,             \* how far the call has been signalled
  signalling,        \* the handler that the signalling thread is in
  offered,           \* local candidates in the last round that was sent
  early,             \* handlers that came before what they use
  crashed,
  \* the packet counter that all threads share, each thread's copy of it and
  \* whether two of them have been at it at once
  cnt, copy, overlapped

iceVars == <<ice, streamID, isCandidateGatheringDone, localCandidates,
             agentState, isReady>>
webVars == <<credentials, hostCandidate, remoteCandidates, converterReady,
             lastCandidateArrived, sdpArrived, phase, signalling, offered,
             early, crashed>>
cntVars == <<cnt, copy, overlapped>>
vars == <<iceVars, webVars, cntVars>>

NoHandler == [agent |-> 0, step |-> "none", round |-> 0, seen |-> 0]

\* A thread's copy of the counter while it has none, and while it sends a request.
Idle == -1
Asking == -2

Init ==
  /\ ice = [a \in Agents |-> "add"]
  /\ streamID = [a \in Agents |-> FALSE]
  /\ isCandidateGatheringDone = [a \in Agents |-> FALSE]
  /\ localCandidates = [a \in Agents |-> 0]
  /\ agentState = [a \in Agents |-> "DISCONNECTED"]
  /\ isReady = [a \in Agents |-> FALSE]
  /\ credentials = [a \in Agents |-> FALSE]
  /\ hostCandidate = [a \in Agents |-> FALSE]
  /\ remoteCandidates = [a \in Agents |-> "none"]
  /\ converterReady = [a \in Agents |-> FALSE]
  /\ lastCandidateArrived = [a \in Agents |-> FALSE]
  /\ sdpArrived = [a \in Agents |-> FALSE]
  /\ phase = [a \in Agents |-> "fresh"]
  /\ signalling = NoHandler
  /\ offered = [a \in Agents |-> 0]
  /\ early = [a \in Agents |-> {}]
  /\ crashed = FALSE
  /\ cnt = 0 /\ copy = [a \in Agents |-> Idle] /\ overlapped = FALSE

-----------------------------------------------------------------------------
(* The thread of an agent: startICE.                                       *)

at(a, here) == ice[a] = here
goto(a, there) == ice' = [ice EXCEPT ![a] = there]

addStream(a) ==
  /\ at(a, "add") /\ goto(a, "gather")
  /\ streamID' = [streamID EXCEPT ![a] = TRUE]
  /\ UNCHANGED <<isCandidateGatheringDone, localCandidates, agentState, isReady,
                 webVars, cntVars>>

\* nice_agent_gather_candidates is called until it works, then the receivers are
\* attached and the first main loop runs: gathering ends in it.
gatherCandidates(a) ==
  /\ at(a, "gather") /\ goto(a, "gathering")
  /\ UNCHANGED <<streamID, isCandidateGatheringDone, localCandidates, agentState,
                 isReady, webVars, cntVars>>

gatherFails(a) ==
  /\ at(a, "gather")
  /\ UNCHANGED vars

\* candidateGatheringDoneCallback: the flag first,
gatheringDone(a) ==
  /\ at(a, "gathering") /\ goto(a, "filling")
  /\ isCandidateGatheringDone' = [isCandidateGatheringDone EXCEPT ![a] = TRUE]
  /\ UNCHANGED <<streamID, localCandidates, agentState, isReady, webVars, cntVars>>

\* Plausible bug: the candidates of one component only.
AllLocalsOne == Locals

\* The components are 1 and 2.
AllLocals == 2 * Locals

\* then the list, one by one,
pushCandidate(a) ==
  /\ at(a, "filling") /\ localCandidates[a] < AllLocals
  /\ localCandidates' = [localCandidates EXCEPT ![a] = @ + 1]
  /\ UNCHANGED <<ice, streamID, isCandidateGatheringDone, agentState, isReady,
                 webVars, cntVars>>

\* then the main loop is left, and startICE enters the second one.
quit(a) ==
  /\ at(a, "filling") /\ localCandidates[a] = AllLocals
  /\ goto(a, "running")
  /\ UNCHANGED <<streamID, isCandidateGatheringDone, localCandidates, agentState,
                 isReady, webVars, cntVars>>

\* componentStateChangedCallback for the RTP component.
componentStateChanged(a) ==
  /\ at(a, "running") /\ copy[a] = Idle
  /\ credentials[a]
  /\ \E state \in {"CONNECTING", "READY", "FAILED"} \ {agentState[a]} :
       /\ agentState' = [agentState EXCEPT ![a] = state]
       /\ isReady' = [isReady EXCEPT ![a] = @ \/ state = "READY"]
  /\ UNCHANGED <<ice, streamID, isCandidateGatheringDone, localCandidates,
                 webVars, cntVars>>

\* receiveDataCallback for a packet of video, which is carried on only with the
\* keys and a component that has been ready.  The counter of all agents is read,
receiveData(a) ==
  /\ at(a, "running") /\ copy[a] = Idle
  /\ isReady[a] /\ converterReady[a]
  /\ cnt <= MaxCnt
  /\ copy' = [copy EXCEPT ![a] = cnt]
  /\ overlapped' = (overlapped \/ \E b \in Agents \ {a} : copy[b] # Idle)
  /\ UNCHANGED <<iceVars, webVars, cnt>>

\* written, and if it is the interval, sendrtcp asks for a full picture before
countPacket(a) ==
  /\ copy[a] >= 0
  /\ cnt' = copy[a] + 1
  /\ copy' = [copy EXCEPT ![a] = IF cnt' = SEND_RTCP_INTERVAL THEN Asking ELSE Idle]
  /\ UNCHANGED <<iceVars, webVars, overlapped>>

\* Plausible bug: it is not set to 0.
resetCounterNot(a) ==
  /\ copy[a] = Asking
  /\ copy' = [copy EXCEPT ![a] = Idle]
  /\ UNCHANGED <<iceVars, webVars, overlapped, cnt>>

\* it is set to 0.
resetCounter(a) ==
  /\ copy[a] = Asking
  /\ cnt' = 0
  /\ copy' = [copy EXCEPT ![a] = Idle]
  /\ UNCHANGED <<iceVars, webVars, overlapped>>

-----------------------------------------------------------------------------
(* The signalling thread.  What a handler tells libnice of a stream that is *)
(* not there is lost, and asking for its credentials ends the process.      *)

free == signalling = NoHandler /\ ~crashed

signalled(a, p) == phase' = [phase EXCEPT ![a] = p]

tooEarly(a, before, what) ==
  early' = IF before THEN [early EXCEPT ![a] = @ \cup {what}] ELSE early

\* handleSdpFromWeb, as far as libnice is told of it.
setCredentials(a) ==
  /\ credentials' = [credentials EXCEPT ![a] = @ \/ streamID[a]]
  /\ sdpArrived' = [sdpArrived EXCEPT ![a] = TRUE]

\* What libnice may find where it is given the candidates of type host.
handed(a) == IF hostCandidate[a] THEN {"browser", "freed"} ELSE {"empty"}

\* Each candidate is deleted when it has been put in the list, before libnice is
\* given the list; with a stream that is not there libnice does not look at it.
setRemoteCandidates(a) ==
  \/ ~streamID[a] /\ UNCHANGED <<remoteCandidates, crashed>>
  \/ /\ streamID[a]
     /\ \E h \in handed(a) :
          /\ remoteCandidates' = [remoteCandidates EXCEPT ![a] = h]
          /\ \/ UNCHANGED crashed
             \/ h = "freed" /\ crashed' = TRUE

\* Once the SDP and the last candidate have both arrived.
sendOfferOrAnswerToIMS(a) ==
  IF sdpArrived'[a] /\ lastCandidateArrived'[a]
  THEN setRemoteCandidates(a)
  ELSE UNCHANGED <<remoteCandidates, crashed>>

\* handleOfferFromWeb.  What depends on the codecs is whether the last candidate
\* is looked at, and it is not there yet.
offerFromWeb(a) ==
  /\ free /\ phase[a] = "fresh" /\ signalled(a, "web offer")
  /\ setCredentials(a)
  /\ UNCHANGED lastCandidateArrived
  /\ sendOfferOrAnswerToIMS(a)
  /\ tooEarly(a, ~streamID[a], "SDP")
  /\ UNCHANGED <<iceVars, cntVars, hostCandidate, converterReady, signalling,
                 offered>>

\* Candidates come after an offer of either side.
candidatesCome(a) ==
  /\ free /\ phase[a] \in {"web offer", "ims offer sent", "up"}
  /\ ~lastCandidateArrived[a]

\* handleCandidateFromWeb for the first candidate of type host; others are kept
\* too, and never passed on.
hostCandidateFromWeb(a) ==
  /\ candidatesCome(a) /\ ~hostCandidate[a]
  /\ hostCandidate' = [hostCandidate EXCEPT ![a] = TRUE]
  /\ UNCHANGED <<iceVars, cntVars, credentials, remoteCandidates, converterReady,
                 lastCandidateArrived, sdpArrived, phase, signalling, offered,
                 early, crashed>>

\* Plausible bug: the last candidate does not see that the SDP has come.
lastCandidateFromWebKept(a) ==
  /\ candidatesCome(a)
  /\ lastCandidateArrived' = [lastCandidateArrived EXCEPT ![a] = TRUE]
  /\ UNCHANGED <<iceVars, cntVars, credentials, hostCandidate, remoteCandidates,
                 converterReady, sdpArrived, phase, signalling, offered, early,
                 crashed>>

\* handleCandidateFromWeb for the last candidate, whatever became of the SDP.
lastCandidateFromWeb(a) ==
  /\ candidatesCome(a)
  /\ lastCandidateArrived' = [lastCandidateArrived EXCEPT ![a] = TRUE]
  /\ UNCHANGED sdpArrived
  /\ sendOfferOrAnswerToIMS(a)
  /\ tooEarly(a, ~streamID[a], "candidates")
  /\ UNCHANGED <<iceVars, cntVars, credentials, hostCandidate, converterReady,
                 phase, signalling, offered>>

\* handleOfferFromIMS and handleAnswerFromIMS come ...
sdpFromIMS(a) ==
  /\ free
  /\ \/ phase[a] = "fresh"
     \/ phase[a] = "web offer" /\ sdpArrived[a] /\ lastCandidateArrived[a]

\* ... and return at once if the gateway has none of the codecs.
unsupportedFromIMS(a) ==
  /\ sdpFromIMS(a)
  /\ signalled(a, IF phase[a] = "fresh" THEN "refused" ELSE phase[a])
  /\ UNCHANGED <<iceVars, cntVars, credentials, hostCandidate, remoteCandidates,
                 converterReady, lastCandidateArrived, sdpArrived, signalling,
                 offered, early, crashed>>

\* createSdpToWeb, the next thing that they do.
createSdpToWeb(a) ==
  /\ sdpFromIMS(a)
  /\ IF streamID[a]
     THEN /\ signalling' = [NoHandler EXCEPT !.agent = a, !.step = "between",
                                             !.round = 1]
          /\ UNCHANGED crashed
     ELSE crashed' = TRUE /\ UNCHANGED signalling
  /\ tooEarly(a, ~streamID[a], "own credentials")
  /\ UNCHANGED <<iceVars, cntVars, credentials, hostCandidate, remoteCandidates,
                 converterReady, lastCandidateArrived, sdpArrived, phase, offered>>

\* sendCandidatesToWeb goes through the list, three times: when it starts,
startRound(a) ==
  /\ signalling.agent = a /\ signalling.step = "between" /\ signalling.round <= 3
  /\ signalling' = [signalling EXCEPT !.step = "sending",
                                      !.seen = localCandidates[a]]
  /\ tooEarly(a, ice[a] # "running", "local candidates")
  /\ UNCHANGED <<iceVars, cntVars, credentials, hostCandidate, remoteCandidates,
                 converterReady, lastCandidateArrived, sdpArrived, phase, offered, crashed>>

\* and when it ends.  If the list has grown, its elements may have moved.
endRound(a) ==
  /\ signalling.agent = a /\ signalling.step = "sending"
  /\ signalling' = [signalling EXCEPT !.step = "between", !.round = @ + 1]
  /\ \/ offered' = [offered EXCEPT ![a] = localCandidates[a]] /\ UNCHANGED crashed
     \/ /\ signalling.seen # localCandidates[a]
        /\ crashed' = TRUE
        /\ UNCHANGED offered
  /\ UNCHANGED <<iceVars, cntVars, credentials, hostCandidate, remoteCandidates,
                 converterReady, lastCandidateArrived, sdpArrived, phase, early>>

\* The end of the handler: doTailingJobs makes the keys after an answer.
handlerEnds(a) ==
  /\ signalling.agent = a /\ signalling.step = "between" /\ signalling.round > 3
  /\ signalling' = NoHandler
  /\ signalled(a, IF phase[a] = "fresh" THEN "ims offer sent" ELSE "up")
  /\ converterReady' = [converterReady EXCEPT ![a] = phase[a] # "fresh"]
  /\ UNCHANGED <<iceVars, cntVars, credentials, hostCandidate, remoteCandidates,
                 lastCandidateArrived, sdpArrived, offered, early, crashed>>

\* handleAnswerFromWeb, up to doTailingJobs, which it does not come to if the
\* gateway has none of the codecs.
answerFromWeb(a) ==
  /\ free /\ phase[a] = "ims offer sent" /\ ~sdpArrived[a]
  /\ setCredentials(a)
  /\ UNCHANGED lastCandidateArrived
  /\ \/ /\ sendOfferOrAnswerToIMS(a)
        /\ signalling' = [NoHandler EXCEPT !.agent = a, !.step = "between",
                                           !.round = 4]
     \/ UNCHANGED <<remoteCandidates, crashed, signalling>>
  /\ UNCHANGED <<iceVars, cntVars, hostCandidate, converterReady, phase, offered,
                 early>>

-----------------------------------------------------------------------------
ThreadOf(a) == \/ addStream(a) \/ gatherCandidates(a) \/ gatheringDone(a)
               \/ pushCandidate(a) \/ quit(a)
               \/ countPacket(a) \/ resetCounter(a)

MessageOf(a) == \/ offerFromWeb(a) \/ answerFromWeb(a)
                \/ hostCandidateFromWeb(a) \/ lastCandidateFromWeb(a)
                \/ unsupportedFromIMS(a) \/ createSdpToWeb(a)

HandlerOf(a) == startRound(a) \/ endRound(a) \/ handlerEnds(a)

Next == /\ ~crashed
        /\ \E a \in Agents :
             \/ ThreadOf(a) \/ gatherFails(a)
             \/ componentStateChanged(a) \/ receiveData(a)
             \/ MessageOf(a) \/ HandlerOf(a)

Spec == Init /\ [][Next]_vars

-----------------------------------------------------------------------------
(* Properties.                                                             *)

\* Every variable has its type: those of the ICE threads, those of the signalling
\* thread, and those of the packet counter.
IceTypes ==
  /\ ice \in [Agents -> {"add", "gather", "gathering", "filling", "running"}]
  /\ streamID \in [Agents -> BOOLEAN]
  /\ isCandidateGatheringDone \in [Agents -> BOOLEAN]
  /\ localCandidates \in [Agents -> Nat]
  /\ agentState \in [Agents -> {"DISCONNECTED", "CONNECTING", "READY", "FAILED"}]
  /\ isReady \in [Agents -> BOOLEAN]

WebTypes ==
  /\ credentials \in [Agents -> BOOLEAN]
  /\ hostCandidate \in [Agents -> BOOLEAN]
  /\ remoteCandidates \in [Agents -> {"none", "empty", "browser", "freed"}]
  /\ converterReady \in [Agents -> BOOLEAN]
  /\ lastCandidateArrived \in [Agents -> BOOLEAN]
  /\ sdpArrived \in [Agents -> BOOLEAN]
  /\ phase \in [Agents -> {"fresh", "refused", "web offer", "ims offer sent", "up"}]
  /\ signalling \in [agent : Agents \cup {0}, step : {"none", "between", "sending"},
                     round : Nat, seen : Nat]
  /\ offered \in [Agents -> Nat]
  /\ early \in [Agents -> SUBSET {"SDP", "candidates", "own credentials",
                                  "local candidates"}]
  /\ crashed \in BOOLEAN

CntTypes ==
  /\ cnt \in Nat
  /\ copy \in [Agents -> Nat \cup {Idle, Asking}]
  /\ overlapped \in BOOLEAN

TypeOK == IceTypes /\ WebTypes /\ CntTypes

\* The browser is offered every local candidate, in spite of a flag that is set
\* before the list is filled, unless the first message came before the thread had
\* left the first main loop.  Two things end the process, and nothing else does: such
\* a message, by asking a stream for credentials that it does not have or by walking
\* a list that another thread extends; and what libnice reads in place of candidates
\* of the browser that have been freed.
OfferedAll ==
  /\ \A a \in Agents :
       phase[a] \in {"ims offer sent", "up"} /\ early[a] = {}
         => offered[a] = 2 * Locals
  /\ crashed => \E a \in Agents : early[a] # {} \/ remoteCandidates[a] = "freed"

\* Once the call is signalled and the last candidate is there, in either order, the
\* keys are made and libnice has been given the browser's credentials and its
\* candidates of type host, unless a message came before the stream.  That it has got
\* the candidates that the browser sent does not follow: they have been freed.
BrowserTold ==
  \A a \in Agents :
    phase[a] = "up" /\ lastCandidateArrived[a] /\ early[a] = {} =>
      /\ credentials[a] /\ converterReady[a]
      /\ remoteCandidates[a] \in handed(a)

\* Packets go on leading to requests for a full picture: the counter that has
\* passed the interval never meets it again.  It does only if the threads of two
\* sessions were at it at once.
PictureIsRequested ==
  ~overlapped => cnt < SEND_RTCP_INTERVAL \/ \E a \in Agents : copy[a] = Asking

=============================================================================
