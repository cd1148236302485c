------------------------------- MODULE Gateway -------------------------------
(***************************************************************************)
(* The signalling of the media gateway: the loop that takes messages from  *)
(* the signalling gateway (SG) and dispatches them to sessions (class       *)
(* MediaGateway, mediagateway.cpp), what a session does with them (class    *)
(* MediaSession, mediasession.cpp), and the part of WebAgent and ImsAgent   *)
(* that the handlers read: codec support, the last candidate, the packet    *)
(* counters.                                                               *)
(*                                                                         *)
(* The signalling thread handles one message at a time.  The other actor   *)
(* is the timer thread, which runs checkMediaFlow.  Here each runs a        *)
(* handler as one step; module Teardown takes apart what happens when they  *)
(* overlap, and module SubMG the startFFmpeg that blocks inside a handler.  *)
(***************************************************************************)
EXTENDS Integers, Sequences, SequencesExt

CONSTANTS
  Ids,           \* offerSessionIDs
  MaxSessions,   \* bound: MediaSession objects ever created
  Repeats,       \* bound: how often the SG delivers the answer of a session,
                 \* or its last candidate
  ReOffers       \* whether the SG may repeat an offer

ASSUME GatewayAssumption ==
  /\ MaxSessions \in Nat \ {0}
  /\ Repeats \in Nat \ {0}
  /\ ReOffers \in BOOLEAN

Objects == 1 .. MaxSessions
None    == 0

\* The sides of a call that send media through the gateway.
Sides == {"web", "ims"}

VARIABLES
  process,    \* running; aborted by an assertion, crashed, ended
  sessions,   \* MediaGateway::sessions, None where there is no entry
  fresh,      \* the session created ahead, which the next offer will use
  object      \* every MediaSession object, by order of creation

vars == <<process, sessions, fresh, object>>

\* A MediaSession, with its agents.  life is stopped once the timer has run
\* deleteSession, deleted once the object itself is gone.  A timer is
\* represented by the sides that have sent since it was set; timers run out in
\* the order in which they were set, and timerID names the last one.  The last
\* seven fields are history: what handleSdpFromWeb returned last, whether the
\* called side was sent the offer, how often the SDP of the web side was sent to
\* IMS, what the SG has delivered, the sides that have stopped sending for good,
\* and the sides that had sent nothing when the session was stopped.
Session ==
  [life : {"live", "stopped", "deleted"},
   webCallerFlag : BOOLEAN,
   webOfferOrAnswerArrived : BOOLEAN,
   lastCandidateArrived : BOOLEAN,
   ready : BOOLEAN,             \* doTailingJobs has run: keys, converters
   flow : SUBSET Sides,         \* curcnt # precnt in the agent of that side
   timers : Seq(SUBSET Sides),
   supported : BOOLEAN, offered : BOOLEAN, toIMS : Nat,
   answers : Nat, lasts : Nat,
   quiet : SUBSET Sides, missed : SUBSET Sides]

\* MediaSession::MediaSession, and the constructors of its agents.
NewSession ==
  [life |-> "live", webCallerFlag |-> TRUE, webOfferOrAnswerArrived |-> FALSE,
   lastCandidateArrived |-> FALSE, ready |-> FALSE, flow |-> {},
   timers |-> <<>>, supported |-> FALSE, offered |-> FALSE, toIMS |-> 0,
   answers |-> 0, lasts |-> 0, quiet |-> {}, missed |-> {}]

-----------------------------------------------------------------------------
(* What the methods of MediaSession do to a session s.                     *)

\* sendOfferOrAnswerToIMS: when both the SDP of the web side and its last
\* candidate have arrived, the SDP is rewritten and sent on.
sendOfferOrAnswerToIMS(s) ==
  IF s.webOfferOrAnswerArrived /\ s.lastCandidateArrived
  THEN [s EXCEPT !.toIMS = @ + 1, !.offered = @ \/ s.webCallerFlag]
  ELSE s

\* Timer::setTimer, and the assignment of its result to timerID.
setTimer(s) == [s EXCEPT !.timers = Append(@, {})]

\* Plausible bug: a timer for each of the two converters.
doTailingJobsTwoTimers(s) == setTimer(setTimer([s EXCEPT !.ready = TRUE]))

doTailingJobs(s) == setTimer([s EXCEPT !.ready = TRUE])

\* The part handleOfferFromWeb and handleAnswerFromWeb share: handleSdpFromWeb
\* and the assignment that follows it.
webSdpArrived(s, isSupported) ==
  [s EXCEPT !.supported = isSupported, !.webOfferOrAnswerArrived = TRUE]

handleOfferFromWeb(s, isSupported) ==
  LET t == [webSdpArrived(s, isSupported) EXCEPT !.webCallerFlag = TRUE]
  IN  IF isSupported THEN sendOfferOrAnswerToIMS(t) ELSE t

\* The offer goes to the browser, with the local candidates, three times.
handleOfferFromIMS(s, isSupported) ==
  [s EXCEPT !.webCallerFlag = FALSE, !.offered = isSupported]

\* The answer goes to the browser, with the local candidates, three times.
handleAnswerFromIMS(s, isSupported) ==
  LET t == [s EXCEPT !.answers = @ + 1]
  IN  IF isSupported THEN doTailingJobs(t) ELSE t

handleAnswerFromWeb(s, isSupported) ==
  LET t == [webSdpArrived(s, isSupported) EXCEPT !.answers = @ + 1]
  IN  IF isSupported THEN doTailingJobs(sendOfferOrAnswerToIMS(t)) ELSE t

\* handleCandidateFromWeb for the last candidate, the one with an empty sdp.
\* Earlier candidates are only kept for setRemoteCandidates.
handleLastCandidateFromWeb(s) ==
  sendOfferOrAnswerToIMS([s EXCEPT !.lastCandidateArrived = TRUE,
                                   !.lasts = @ + 1])

\* ~MediaSession: the agents are deleted, then the timer that timerID names is
\* stopped, if it is still running.
destroy(s) ==
  [NewSession EXCEPT !.life = "deleted",
     !.timers = IF s.timers = <<>> THEN <<>> ELSE Front(s.timers)]

\* MediaSession::deleteSession, run by the timer: the agents go, with all that
\* is theirs.
deleteSession(s, sides) ==
  [s EXCEPT !.life = "stopped", !.missed = sides, !.ready = FALSE,
            !.flow = {}, !.lastCandidateArrived = FALSE]

\* Plausible bug: the session is stopped only when both sides have gone quiet.
checkMediaFlowBoth(s) ==
  LET t == [s EXCEPT !.timers = Tail(@), !.flow = {}]
  IN  IF s.flow = {} THEN deleteSession(t, Sides \ Head(s.timers)) ELSE setTimer(t)

\* checkMediaFlow, run when the first timer of s runs out.  gotPeriodData takes
\* note of the counter it compares, and the IMS side is asked only if the web
\* side has moved; in the end either the session is stopped, or it is watched
\* for another period.
checkMediaFlow(s) ==
  LET t == [s EXCEPT !.timers = Tail(@), !.flow = {}]
  IN  IF s.flow = Sides THEN setTimer(t)
                        ELSE deleteSession(t, Sides \ Head(s.timers))

-----------------------------------------------------------------------------
(* The signalling thread: one message from the SG, or the loss of the SG.  *)

Running == process = "running"
Entry(id) == sessions[id] # None
Live(id)  == Entry(id) /\ object[sessions[id]].life = "live"

\* Messages for a session that exists and whose agents do.
Handle(id, s) ==
  /\ object' = [object EXCEPT ![sessions[id]] = s]
  /\ UNCHANGED <<process, sessions, fresh>>

\* Plausible bug: no new session is created ahead for the next offer.
OfferReused(id, s) ==
  /\ sessions[id] = None
  /\ fresh < MaxSessions
  /\ sessions' = [sessions EXCEPT ![id] = fresh]
  /\ object' = [object EXCEPT ![fresh] = s]
  /\ UNCHANGED <<process, fresh>>

\* An offer for a new id is given the session created ahead, and the loop then
\* creates another one.
Offer(id, s) ==
  /\ sessions[id] = None
  /\ fresh < MaxSessions
  /\ sessions' = [sessions EXCEPT ![id] = fresh]
  /\ object' = [object EXCEPT ![fresh] = s]
  /\ fresh' = fresh + 1
  /\ UNCHANGED process

OfferFromWeb(id) ==
  \E isSupported \in BOOLEAN :
    Offer(id, handleOfferFromWeb(object[fresh], isSupported))

OfferFromIMS(id) ==
  \E isSupported \in BOOLEAN :
    Offer(id, handleOfferFromIMS(object[fresh], isSupported))

\* assert(used == true): an offer for an id that has an entry.
ReOffer(id) ==
  /\ ReOffers
  /\ Entry(id)
  /\ process' = "aborted"
  /\ UNCHANGED <<sessions, fresh, object>>

\* Plausible bug: the handler is called on the session created ahead instead
\* of the one that was looked up.
LastCandidateToFresh(id) ==
  LET s == object[sessions[id]] IN
  /\ Live(id)
  /\ s.webCallerFlag \/ s.offered
  /\ s.lasts < Repeats
  /\ object' = [object EXCEPT ![fresh] = handleLastCandidateFromWeb(@)]
  /\ UNCHANGED <<process, sessions, fresh>>

\* The browser sends its candidates once it has sent or received an offer.
LastCandidate(id) ==
  LET s == object[sessions[id]] IN
  /\ Live(id)
  /\ s.webCallerFlag \/ s.offered
  /\ s.lasts < Repeats
  /\ Handle(id, handleLastCandidateFromWeb(s))

\* The answer comes from the called side, which has been sent the offer.
AnswerFromIMS(id) ==
  LET s == object[sessions[id]] IN
  /\ Live(id)
  /\ s.webCallerFlag /\ s.offered
  /\ s.answers < Repeats
  /\ \E isSupported \in BOOLEAN : Handle(id, handleAnswerFromIMS(s, isSupported))

AnswerFromWeb(id) ==
  LET s == object[sessions[id]] IN
  /\ Live(id)
  /\ ~s.webCallerFlag /\ s.offered
  /\ s.answers < Repeats
  /\ \E isSupported \in BOOLEAN : Handle(id, handleAnswerFromWeb(s, isSupported))

\* The SG closes a call.  A session that never ran doTailingJobs holds
\* converters whose Helper has no thread, and ~Helper cancels thread 0:
\* undefined, and in practice either a crash or ESRCH.
Shutdown(id) ==
  /\ Live(id)
  /\ \/ /\ object' = [object EXCEPT ![sessions[id]] = destroy(@)]
        /\ sessions' = [sessions EXCEPT ![id] = None]
        /\ UNCHANGED process
     \/ /\ ~object[sessions[id]].ready
        /\ process' = "crashed"
        /\ UNCHANGED <<sessions, object>>
  /\ UNCHANGED fresh

\* Any message but an offer, for a session that the timer has stopped: the
\* entry is erased, the object is not deleted.
Reap(id) ==
  /\ Entry(id)
  /\ object[sessions[id]].life = "stopped"
  /\ sessions' = [sessions EXCEPT ![id] = None]
  /\ UNCHANGED <<process, fresh, object>>

\* readPacket reports the end of the connection: the program ends.
Disconnect ==
  /\ process' = "ended"
  /\ UNCHANGED <<sessions, fresh, object>>

Signalling ==
  \/ \E id \in Ids :
       \/ OfferFromWeb(id) \/ OfferFromIMS(id) \/ ReOffer(id)
       \/ LastCandidate(id) \/ AnswerFromIMS(id) \/ AnswerFromWeb(id)
       \/ Shutdown(id) \/ Reap(id)
  \/ Disconnect

-----------------------------------------------------------------------------
(* Media, and the timer thread.                                            *)

\* A packet from one side is counted: from the browser once the keys are set,
\* from IMS as soon as the agent runs.  The threads of IMS count a read that
\* fails as well (imsagent.cpp:266, 288); the sockets are bound before a thread
\* reads from them and nothing is sent from them (helper.cpp:29-51), so that a
\* read fails when an interruption or the end of the session makes it, and such
\* a read is no step of its own here.
Media(o, side) ==
  /\ o < fresh
  /\ object[o].life = "live"
  /\ side \notin object[o].quiet
  /\ side = "web" => object[o].ready
  /\ object' = [object EXCEPT
       ![o].flow = @ \cup {side},
       ![o].timers = [n \in DOMAIN @ |-> @[n] \cup {side}]]
  /\ UNCHANGED <<process, sessions, fresh>>

\* One side stops sending for good.
GoQuiet(o, side) ==
  /\ o < fresh
  /\ object[o].life = "live"
  /\ object' = [object EXCEPT ![o].quiet = @ \cup {side}]
  /\ UNCHANGED <<process, sessions, fresh>>

\* A timer of o runs out.  On a session that is stopped or deleted,
\* checkMediaFlow follows a null or a dangling pointer.
TimerFires(o) ==
  /\ object[o].timers # <<>>
  /\ IF object[o].life = "live"
     THEN /\ object' = [object EXCEPT ![o] = checkMediaFlow(@)]
          /\ UNCHANGED process
     ELSE /\ process' = "crashed"
          /\ UNCHANGED object
  /\ UNCHANGED <<sessions, fresh>>

-----------------------------------------------------------------------------

Init ==
  /\ process = "running"
  /\ sessions = [id \in Ids |-> None]
  /\ fresh = 1
  /\ object = [o \in Objects |-> NewSession]

Next ==
  /\ Running
  /\ \/ Signalling
     \/ \E o \in Objects : TimerFires(o)
     \/ \E o \in Objects, side \in Sides : Media(o, side) \/ GoQuiet(o, side)

Spec == Init /\ [][Next]_vars

\* A timer that is not stopped runs out.
FairSpec == Spec /\ \A o \in Objects : WF_vars(Running /\ TimerFires(o))

-----------------------------------------------------------------------------
(* Properties.                                                             *)

\* Every variable has its type, and the keys of a session go with its agents.
TypeOK ==
  /\ process \in {"running", "aborted", "crashed", "ended"}
  /\ sessions \in [Ids -> Objects \cup {None}]
  /\ fresh \in Objects
  /\ object \in [Objects -> Session]
  /\ \A o \in Objects : object[o].ready => object[o].life = "live"

\* The map never leads to a wrong session: two ids have two sessions, none of
\* them is deleted, and none is the session that waits for the next offer.
OwnSession ==
  \A id \in Ids : Entry(id) =>
    /\ sessions[id] < fresh
    /\ object[sessions[id]].life # "deleted"
    /\ \A other \in Ids : sessions[other] = sessions[id] => other = id

\* Whatever is delivered to the sessions in use, the session that waits for the
\* next offer is as its constructor left it.
FreshUntouched == \A o \in Objects : o >= fresh => object[o] = NewSession

\* The SDP of a browser whose codecs are supported goes to IMS exactly once,
\* in whichever order the SDP and the last candidate come.
JoinedOnce ==
  \A o \in Objects : (object[o].life = "live" /\ object[o].supported) =>
    object[o].toIMS = IF object[o].lastCandidateArrived THEN 1 ELSE 0

\* No timer is left behind by a session that is stopped or deleted: its
\* checkMediaFlow would run on what is no longer there.
NoTimerOutlives ==
  \A o \in Objects : object[o].life # "live" => object[o].timers = <<>>

\* A session that is stopped has had no packet from one of the sides for the
\* whole period of a timer.
SilentBeforeStop ==
  \A o \in Objects : object[o].life = "stopped" => object[o].missed # {}

\* An established session one of whose sides goes quiet for good does not stay.
QuietSessionStops ==
  \A o \in Objects :
    (object[o].timers # <<>> /\ object[o].quiet # {})
      ~> (object[o].life # "live" \/ ~Running)

\* The calls as the SG sees them.
CallOf(id) ==
  IF ~Entry(id) THEN "none"
  ELSE LET s == object[sessions[id]] IN
       IF s.life = "stopped" THEN "stopped"
       ELSE IF s.ready THEN "established" ELSE "ringing"

Abstract == INSTANCE Calls WITH
  call <- [id \in Ids |-> CallOf(id)],
  gateway <- IF Running THEN "up" ELSE "down"

\* The sessions implement the abstract life of a call.
ImplementsCalls == Abstract!Spec

\* mediagateway.cpp:86: an offer is always for an id that has no session.
OfferIsNew == process # "aborted"
==============================================================================
