---------------------------- MODULE GatewayProofs ----------------------------
(***************************************************************************)
(* Safety of the signalling, for every set of session ids and every number *)
(* of sessions: first what holds whatever the SG repeats, with the          *)
(* implementation of Calls, then what holds when it delivers everything     *)
(* once.                                                                   *)
(***************************************************************************)
EXTENDS Gateway, SequenceTheorems, TLAPS

(***************************************************************************)
(* What every method of MediaSession preserves.                            *)
(***************************************************************************)
GoodSession(s) ==
  /\ s \in Session
  /\ s.ready => s.life = "live"
  /\ (s.life = "live" /\ s.timers # <<>>) => s.ready

LiveSession(s) == GoodSession(s) /\ s.life = "live"

\* The sequences that the operators on timers build.
LEMMA TimerSeq ==
  ASSUME NEW T, NEW s \in Seq(T), NEW e \in T
  PROVE  /\ Append(s, e) \in Seq(T)
         /\ Append(s, e) # <<>>
         /\ s # <<>> => Tail(s) \in Seq(T) /\ Head(s) \in T
         /\ s # <<>> => Front(s) \in Seq(T)
<1>1. Append(s, e) \in Seq(T) /\ Append(s, e) # <<>>
  BY AppendProperties
<1>2. s # <<>> => Tail(s) \in Seq(T) /\ Head(s) \in T
  BY HeadTailProperties
<1>3. s # <<>> => Front(s) \in Seq(T)
  <2>1. Len(s) - 1 \in Int /\ \A n \in 1 .. Len(s) - 1 : s[n] \in T
    BY ElementOfSeq, LenProperties
  <2>2. SubSeq(s, 1, Len(s) - 1) \in Seq(T)
    BY <2>1, SubSeqProperties
  <2>3. QED
    BY <2>2 DEF Front
<1>4. QED
  BY <1>1, <1>2, <1>3

LEMMA NewSessionLive == LiveSession(NewSession) /\ ~NewSession.ready
  BY DEF LiveSession, GoodSession, NewSession, Session, Sides

\* sendOfferOrAnswerToIMS touches neither the agents nor the timers.
LEMMA SendLive ==
  ASSUME NEW s, LiveSession(s)
  PROVE  /\ LiveSession(sendOfferOrAnswerToIMS(s))
         /\ sendOfferOrAnswerToIMS(s).ready = s.ready
  <1> DEFINE b == s.offered \/ s.webCallerFlag
             n == s.toIMS + 1
             t == [s EXCEPT !.toIMS = n, !.offered = b]
  <1>1. t \in Session /\ t.ready = s.ready /\ t.life = s.life /\ t.timers = s.timers
    <2>1. s \in Session /\ b \in BOOLEAN /\ n \in Nat
      BY DEF LiveSession, GoodSession, Session
    <2> HIDE DEF b, n
    <2>2. QED
      BY <2>1 DEF Session
  <1>2. sendOfferOrAnswerToIMS(s) \in {s, t}
    BY DEF sendOfferOrAnswerToIMS
  <1> HIDE DEF t
  <1>3. QED
    BY <1>1, <1>2 DEF LiveSession, GoodSession

\* doTailingJobs leaves the session ready and watched by one timer more.
LEMMA TailingLive ==
  ASSUME NEW s, LiveSession(s)
  PROVE  LiveSession(doTailingJobs(s)) /\ doTailingJobs(s).ready
  <1> DEFINE u == Append(s.timers, {})
  <1>1. s \in Session /\ s.timers \in Seq(SUBSET Sides)
    BY DEF LiveSession, GoodSession, Session
  <1>2. u \in Seq(SUBSET Sides) /\ u # <<>>
    <2>1. {} \in SUBSET Sides
      OBVIOUS
    <2>2. QED
      BY <1>1, <2>1, AppendProperties
  <1>3. doTailingJobs(s) = [s EXCEPT !.ready = TRUE, !.timers = u]
    BY <1>1 DEF doTailingJobs, setTimer, Session
  <1> HIDE DEF u
  <1>4. QED
    BY <1>1, <1>2, <1>3 DEF LiveSession, GoodSession, Session

\* What arrives from the browser, before anything is sent on.
LEMMA WebSdpLive ==
  ASSUME NEW s, LiveSession(s), NEW b \in BOOLEAN
  PROVE  /\ LiveSession(webSdpArrived(s, b))
         /\ webSdpArrived(s, b).ready = s.ready
  BY DEF LiveSession, GoodSession, Session, webSdpArrived

LEMMA OfferFromWebLive ==
  ASSUME NEW s, LiveSession(s), NEW b \in BOOLEAN
  PROVE  /\ LiveSession(handleOfferFromWeb(s, b))
         /\ handleOfferFromWeb(s, b).ready = s.ready
  <1> DEFINE t == [webSdpArrived(s, b) EXCEPT !.webCallerFlag = TRUE]
  <1>1. LiveSession(t) /\ t.ready = s.ready
    BY DEF LiveSession, GoodSession, Session, webSdpArrived
  <1>2. /\ LiveSession(sendOfferOrAnswerToIMS(t))
        /\ sendOfferOrAnswerToIMS(t).ready = t.ready
    BY <1>1, SendLive
  <1>3. handleOfferFromWeb(s, b) \in {t, sendOfferOrAnswerToIMS(t)}
    BY DEF handleOfferFromWeb
  <1> HIDE DEF t
  <1>4. QED
    BY <1>1, <1>2, <1>3

LEMMA OfferFromIMSLive ==
  ASSUME NEW s, LiveSession(s), NEW b \in BOOLEAN
  PROVE  /\ LiveSession(handleOfferFromIMS(s, b))
         /\ handleOfferFromIMS(s, b).ready = s.ready
  BY DEF LiveSession, GoodSession, Session, handleOfferFromIMS

LEMMA AnswerFromIMSLive ==
  ASSUME NEW s, LiveSession(s), NEW b \in BOOLEAN
  PROVE  /\ LiveSession(handleAnswerFromIMS(s, b))
         /\ handleAnswerFromIMS(s, b).ready \in {s.ready, TRUE}
  <1> DEFINE n == s.answers + 1
             t == [s EXCEPT !.answers = n]
  <1>1. LiveSession(t) /\ t.ready = s.ready
    <2>1. n \in Nat
      BY DEF LiveSession, GoodSession, Session
    <2> HIDE DEF n
    <2>2. QED
      BY <2>1 DEF LiveSession, GoodSession, Session
  <1>2. LiveSession(doTailingJobs(t)) /\ doTailingJobs(t).ready = TRUE
    <2>1. LiveSession(doTailingJobs(t)) /\ doTailingJobs(t).ready
      BY <1>1, TailingLive
    <2>2. doTailingJobs(t).ready \in BOOLEAN
      BY <2>1 DEF LiveSession, GoodSession, Session
    <2>3. QED
      BY <2>1, <2>2
  <1>3. handleAnswerFromIMS(s, b) \in {t, doTailingJobs(t)}
    BY DEF handleAnswerFromIMS
  <1> HIDE DEF t
  <1>4. QED
    BY <1>1, <1>2, <1>3

LEMMA AnswerFromWebLive ==
  ASSUME NEW s, LiveSession(s), NEW b \in BOOLEAN
  PROVE  /\ LiveSession(handleAnswerFromWeb(s, b))
         /\ handleAnswerFromWeb(s, b).ready \in {s.ready, TRUE}
  <1> DEFINE v == webSdpArrived(s, b)
             n == v.answers + 1
             t == [v EXCEPT !.answers = n]
             u == sendOfferOrAnswerToIMS(t)
  <1>1. LiveSession(t) /\ t.ready = s.ready
    <2>1. LiveSession(v) /\ v.ready = s.ready
      BY WebSdpLive
    <2> HIDE DEF v
    <2>2. n \in Nat
      BY <2>1 DEF LiveSession, GoodSession, Session
    <2> HIDE DEF n
    <2>3. QED
      BY <2>1, <2>2 DEF LiveSession, GoodSession, Session
  <1>2. LiveSession(u)
    BY <1>1, SendLive
  <1>3. LiveSession(doTailingJobs(u)) /\ doTailingJobs(u).ready = TRUE
    <2> HIDE DEF u
    <2>1. LiveSession(doTailingJobs(u)) /\ doTailingJobs(u).ready
      BY <1>2, TailingLive
    <2>2. doTailingJobs(u).ready \in BOOLEAN
      BY <2>1 DEF LiveSession, GoodSession, Session
    <2>3. QED
      BY <2>1, <2>2
  <1>4. handleAnswerFromWeb(s, b) \in {t, doTailingJobs(u)}
    BY DEF handleAnswerFromWeb
  <1> HIDE DEF t, u
  <1>5. QED
    BY <1>1, <1>3, <1>4

LEMMA LastCandidateLive ==
  ASSUME NEW s, LiveSession(s)
  PROVE  /\ LiveSession(handleLastCandidateFromWeb(s))
         /\ handleLastCandidateFromWeb(s).ready = s.ready
  <1> DEFINE n == s.lasts + 1
             t == [s EXCEPT !.lastCandidateArrived = TRUE, !.lasts = n]
  <1>1. LiveSession(t) /\ t.ready = s.ready
    <2>1. n \in Nat
      BY DEF LiveSession, GoodSession, Session
    <2> HIDE DEF n
    <2>2. QED
      BY <2>1 DEF LiveSession, GoodSession, Session
  <1>2. QED
    BY <1>1, SendLive DEF handleLastCandidateFromWeb

\* A session that has been deleted.
LEMMA DestroyGood ==
  ASSUME NEW s, GoodSession(s)
  PROVE  GoodSession(destroy(s)) /\ destroy(s).life = "deleted"
  <1> DEFINE ts == IF s.timers = <<>> THEN <<>> ELSE Front(s.timers)
  <1>1. ts \in Seq(SUBSET Sides)
    <2>1. s.timers \in Seq(SUBSET Sides)
      BY DEF GoodSession, Session
    <2>2. <<>> \in Seq(SUBSET Sides)
      BY EmptySeq
    <2>3. {} \in SUBSET Sides
      OBVIOUS
    <2>4. s.timers # <<>> => Front(s.timers) \in Seq(SUBSET Sides)
      BY <2>1, <2>3, TimerSeq
    <2>5. QED
      BY <2>2, <2>4
  <1>2. destroy(s) = [NewSession EXCEPT !.life = "deleted", !.timers = ts]
    BY DEF destroy
  <1>3. NewSession \in Session /\ NewSession.ready = FALSE
    BY NewSessionLive DEF LiveSession, GoodSession, NewSession
  <1> HIDE DEF ts
  <1>4. destroy(s) \in Session
    BY <1>1, <1>2, <1>3 DEF Session
  <1>5. destroy(s).life = "deleted" /\ destroy(s).ready = FALSE
    BY <1>2, <1>3 DEF Session
  <1>6. QED
    BY <1>4, <1>5 DEF GoodSession

\* checkMediaFlow stops the session or goes on watching it.
LEMMA CheckGood ==
  ASSUME NEW s, LiveSession(s), s.timers # <<>>
  PROVE  /\ GoodSession(checkMediaFlow(s))
         /\ \/ checkMediaFlow(s).life = "stopped"
            \/ LiveSession(checkMediaFlow(s)) /\ checkMediaFlow(s).ready = s.ready
  <1> DEFINE ts == Tail(s.timers)
             missed == Sides \ Head(s.timers)
             t == [s EXCEPT !.timers = ts, !.flow = {}]
  <1>1. ts \in Seq(SUBSET Sides) /\ Append(ts, {}) \in Seq(SUBSET Sides)
        /\ missed \in SUBSET Sides
    <2>1. s.timers \in Seq(SUBSET Sides)
      BY DEF LiveSession, GoodSession, Session
    <2>2. ts \in Seq(SUBSET Sides) /\ {} \in SUBSET Sides
      BY <2>1, HeadTailProperties
    <2>3. QED
      BY <2>2, AppendProperties
  <1>2. s \in Session /\ s.ready
    BY DEF LiveSession, GoodSession
  <1>3. t \in Session /\ t.life = "live" /\ t.ready = s.ready /\ t.timers = ts
    <2> HIDE DEF ts
    <2>1. QED
      BY <1>1, <1>2 DEF LiveSession, Session
  <1>4. CASE s.flow = Sides
    <2>1. checkMediaFlow(s) = [t EXCEPT !.timers = Append(ts, {})]
      BY <1>3, <1>4 DEF checkMediaFlow, setTimer
    <2> DEFINE us == Append(ts, {})
    <2> HIDE DEF t, ts, us
    <2>2. us \in Seq(SUBSET Sides) /\ checkMediaFlow(s) = [t EXCEPT !.timers = us]
      BY <1>1, <2>1 DEF us
    <2>3. QED
      BY <1>2, <1>3, <2>2 DEF LiveSession, GoodSession, Session
  <1>5. CASE s.flow # Sides
    <2>1. checkMediaFlow(s) = [t EXCEPT !.life = "stopped", !.missed = missed,
             !.ready = FALSE, !.flow = {}, !.lastCandidateArrived = FALSE]
      BY <1>5 DEF checkMediaFlow, deleteSession
    <2> HIDE DEF t, ts, missed
    <2>2. QED
      BY <1>1, <1>3, <2>1 DEF GoodSession, Session
  <1>6. QED
    BY <1>4, <1>5

\* A packet, and the end of the packets, of one side.
LEMMA MediaLive ==
  ASSUME NEW s, LiveSession(s), NEW side \in Sides
  PROVE  LET t == [s EXCEPT !.flow = @ \cup {side},
                            !.timers = [n \in DOMAIN @ |-> @[n] \cup {side}]]
             u == [s EXCEPT !.quiet = @ \cup {side}]
         IN  LiveSession(t) /\ t.ready = s.ready /\ LiveSession(u) /\ u.ready = s.ready
  <1> DEFINE ts == [n \in DOMAIN s.timers |-> s.timers[n] \cup {side}]
             f == s.flow \cup {side}
             q == s.quiet \cup {side}
             t == [s EXCEPT !.flow = f, !.timers = ts]
             u == [s EXCEPT !.quiet = q]
  <1>1. s \in Session /\ s.timers \in Seq(SUBSET Sides)
    BY DEF LiveSession, GoodSession, Session
  <1>2. ts \in Seq(SUBSET Sides) /\ (s.timers = <<>> => ts = <<>>)
    <2>1. PICK len \in Nat : s.timers \in [1 .. len -> SUBSET Sides]
      BY <1>1, SeqDef
    <2>2. ts \in [1 .. len -> SUBSET Sides]
      BY <2>1
    <2>3. ts \in Seq(SUBSET Sides)
      BY <2>2, SeqDef
    <2>4. DOMAIN ts = DOMAIN s.timers
      OBVIOUS
    <2>5. Len(ts) = Len(s.timers)
      BY <1>1, <2>3, <2>4, LenProperties
    <2>6. s.timers = <<>> => ts = <<>>
      BY <1>1, <2>5, EmptySeq
    <2>7. QED
      BY <2>3, <2>6
  <1>3. f \in SUBSET Sides /\ q \in SUBSET Sides
    BY <1>1 DEF Session
  <1>4. LiveSession(t) /\ t.ready = s.ready
    <2> HIDE DEF ts, f
    <2>1. QED
      BY <1>1, <1>2, <1>3 DEF LiveSession, GoodSession, Session
  <1>5. LiveSession(u) /\ u.ready = s.ready
    <2> HIDE DEF q
    <2>1. QED
      BY <1>1, <1>3 DEF LiveSession, GoodSession, Session
  <1>6. QED
    BY <1>4, <1>5

-----------------------------------------------------------------------------
(* What holds whatever the SG repeats.                                     *)

GInv ==
  /\ TypeOK
  /\ OwnSession
  /\ FreshUntouched
  /\ \A o \in Objects : GoodSession(object[o])

Processes == {"running", "aborted", "crashed", "ended"}

LEMMA GInvInit == Init => GInv
  <1> SUFFICES ASSUME Init PROVE GInv
    OBVIOUS
  <1>1. LiveSession(NewSession)
    BY NewSessionLive
  <1>2. \A o \in Objects : object[o] = NewSession
    BY DEF Init
  <1>3. 1 \in Objects
    BY GatewayAssumption DEF Objects
  <1>4. object \in [Objects -> Session]
    BY <1>1 DEF Init, LiveSession, GoodSession
  <1>5. TypeOK
    BY <1>1, <1>2, <1>3, <1>4 DEF Init, TypeOK, LiveSession, GoodSession
  <1>6. QED
    BY <1>1, <1>2, <1>5
       DEF GInv, Init, OwnSession, Entry, FreshUntouched, LiveSession

\* A session in use changes.
LEMMA GInvUpdate ==
  ASSUME GInv, NEW o \in Objects, o < fresh, NEW s,
         GoodSession(s), s.life # "deleted",
         object' = [object EXCEPT ![o] = s],
         UNCHANGED <<sessions, fresh>>, process' \in Processes
  PROVE  GInv'
  <1>1. s \in Session /\ (s.ready => s.life = "live")
    BY DEF GoodSession
  <1>2. object' \in [Objects -> Session] /\ object'[o] = s
    BY <1>1 DEF GInv, TypeOK
  <1>3. \A p \in Objects : p # o => object'[p] = object[p]
    BY DEF GInv, TypeOK
  <1>4. TypeOK'
    BY <1>1, <1>2, <1>3 DEF GInv, TypeOK, Processes
  <1>5. OwnSession'
    <2>1. \A id \in Ids : Entry(id) => sessions[id] \in Objects
      BY DEF GInv, TypeOK, Entry
    <2>2. QED
      BY <1>2, <1>3, <2>1 DEF GInv, OwnSession, Entry
  <1>6. FreshUntouched'
    <2>1. \A p \in Objects : p >= fresh => p # o
      BY DEF GInv, TypeOK, Objects
    <2>2. QED
      BY <1>3, <2>1 DEF GInv, FreshUntouched
  <1>7. QED
    BY <1>2, <1>3, <1>4, <1>5, <1>6 DEF GInv, GoodSession

\* An entry is erased, and its session stays or is deleted.
LEMMA GInvErase ==
  ASSUME GInv, NEW id \in Ids, Entry(id), NEW s, GoodSession(s),
         sessions' = [sessions EXCEPT ![id] = None],
         object' = [object EXCEPT ![sessions[id]] = s],
         UNCHANGED <<process, fresh>>
  PROVE  GInv'
  <1> DEFINE o == sessions[id]
  <1>0. o \in Objects /\ o < fresh
    BY DEF GInv, TypeOK, OwnSession, Entry
  <1>1. s \in Session /\ (s.ready => s.life = "live")
    BY DEF GoodSession
  <1>2. object' \in [Objects -> Session] /\ object'[o] = s
    BY <1>0, <1>1 DEF GInv, TypeOK
  <1>3. \A p \in Objects : p # o => object'[p] = object[p]
    BY <1>0 DEF GInv, TypeOK
  <1>4. TypeOK'
    BY <1>1, <1>2, <1>3 DEF GInv, TypeOK
  <1>5. OwnSession'
    <2>1. \A other \in Ids : Entry(other)' =>
            /\ Entry(other) /\ other # id
            /\ sessions'[other] = sessions[other]
            /\ sessions[other] \in Objects
      BY DEF GInv, TypeOK, Entry
    <2>2. \A other \in Ids : Entry(other)' => sessions[other] # o
      BY <2>1 DEF GInv, OwnSession
    <2>3. \A other, another \in Ids :
            Entry(other)' /\ sessions'[another] = sessions'[other]
              => another = other
      <3> SUFFICES ASSUME NEW other \in Ids, NEW another \in Ids, Entry(other)',
                          sessions'[another] = sessions'[other]
                   PROVE  another = other
        OBVIOUS
      <3>1. Entry(another)'
        BY DEF Entry
      <3>2. QED
        BY <2>1, <3>1 DEF GInv, OwnSession
    <2>4. \A other \in Ids : Entry(other)' =>
            sessions'[other] < fresh' /\ object'[sessions'[other]].life # "deleted"
      BY <1>3, <2>1, <2>2 DEF GInv, OwnSession
    <2>5. QED
      BY <2>3, <2>4 DEF OwnSession
  <1>6. FreshUntouched'
    <2>1. \A p \in Objects : p >= fresh => p # o
      BY <1>0 DEF GInv, TypeOK, Objects
    <2>2. QED
      BY <1>3, <2>1 DEF GInv, FreshUntouched
  <1>7. QED
    BY <1>2, <1>3, <1>4, <1>5, <1>6 DEF GInv, GoodSession

\* An offer uses up the session created ahead.
LEMMA GInvOffer ==
  ASSUME GInv, NEW id \in Ids, NEW s, LiveSession(s), Offer(id, s)
  PROVE  GInv'
  <1>0. fresh \in Objects /\ fresh + 1 \in Objects
    BY GatewayAssumption DEF GInv, TypeOK, Objects, Offer
  <1>1. s \in Session /\ (s.ready => s.life = "live")
    BY DEF LiveSession, GoodSession
  <1>2. object' \in [Objects -> Session] /\ object'[fresh] = s
    BY <1>0, <1>1 DEF GInv, TypeOK, Offer
  <1>3. \A p \in Objects : p # fresh => object'[p] = object[p]
    BY <1>0 DEF GInv, TypeOK, Offer
  <1>4. TypeOK'
    BY <1>0, <1>1, <1>2, <1>3 DEF GInv, TypeOK, Offer
  <1>5. OwnSession'
    <2>1. sessions'[id] = fresh
      BY DEF GInv, TypeOK, Offer
    <2>2. \A other \in Ids : other # id =>
            /\ sessions'[other] = sessions[other]
            /\ sessions[other] # None =>
                 sessions[other] \in Objects /\ sessions[other] < fresh
      BY DEF GInv, TypeOK, OwnSession, Entry, Offer
    <2>3. fresh # None /\ fresh < fresh' /\ \A p \in Objects : p < fresh => p < fresh'
      BY <1>0 DEF Offer, Objects, None
    <2>4. \A other \in Ids : other # id => sessions'[other] # fresh
      BY <2>2, <2>3, <1>0 DEF Objects
    <2>5. \A other \in Ids : Entry(other)' =>
            /\ sessions'[other] < fresh'
            /\ object'[sessions'[other]].life # "deleted"
      <3> SUFFICES ASSUME NEW other \in Ids, Entry(other)'
                   PROVE  /\ sessions'[other] < fresh'
                          /\ object'[sessions'[other]].life # "deleted"
        OBVIOUS
      <3>1. CASE other = id
        BY <3>1, <2>1, <2>3, <1>2 DEF LiveSession
      <3>2. CASE other # id
        <4>1. Entry(other) /\ sessions'[other] = sessions[other]
          BY <3>2, <2>2 DEF Entry
        <4>2. QED
          BY <4>1, <3>2, <2>2, <2>3, <2>4, <1>3 DEF GInv, OwnSession, Entry
      <3>3. QED
        BY <3>1, <3>2
    <2>6. \A other, another \in Ids :
            Entry(other)' /\ sessions'[another] = sessions'[other]
              => another = other
      <3> SUFFICES ASSUME NEW other \in Ids, NEW another \in Ids, Entry(other)',
                          sessions'[another] = sessions'[other]
                   PROVE  another = other
        OBVIOUS
      <3>1. CASE other = id \/ another = id
        BY <3>1, <2>1, <2>4
      <3>2. CASE other # id /\ another # id
        <4>1. Entry(other) /\ sessions[another] = sessions[other]
          BY <3>2, <2>2 DEF Entry
        <4>2. QED
          BY <4>1 DEF GInv, OwnSession
      <3>3. QED
        BY <3>1, <3>2
    <2>7. QED
      BY <2>5, <2>6 DEF OwnSession
  <1>6. FreshUntouched'
    <2>1. \A p \in Objects : p >= fresh' => p >= fresh /\ p # fresh
      BY <1>0 DEF Offer, Objects
    <2>2. QED
      BY <1>3, <2>1 DEF GInv, FreshUntouched
  <1>7. QED
    BY <1>2, <1>3, <1>4, <1>5, <1>6 DEF GInv, LiveSession, GoodSession

\* The process stops, or nothing happens.
LEMMA GInvDown ==
  ASSUME GInv, UNCHANGED <<sessions, fresh, object>>, process' \in Processes
  PROVE  GInv'
  BY DEF GInv, TypeOK, OwnSession, Entry, FreshUntouched, GoodSession, Processes

(***************************************************************************)
(* Every step is of one of four shapes.                                    *)
(***************************************************************************)

\* The process stops.
Down == process' \in Processes \ {"running"} /\ UNCHANGED <<sessions, fresh, object>>

\* A live session in use goes on, perhaps ready by now, or is stopped after it
\* was ready.
Update(o, s) ==
  /\ o < fresh
  /\ object[o].life = "live"
  /\ GoodSession(s)
  /\ \/ s.life = "live" /\ s.ready \in {object[o].ready, TRUE}
     \/ s.life = "stopped" /\ object[o].ready
  /\ object' = [object EXCEPT ![o] = s]
  /\ UNCHANGED <<process, sessions, fresh>>

\* An entry is erased.
Erase(id, s) ==
  /\ Entry(id)
  /\ GoodSession(s)
  /\ sessions' = [sessions EXCEPT ![id] = None]
  /\ object' = [object EXCEPT ![sessions[id]] = s]
  /\ UNCHANGED <<process, fresh>>

StepShape ==
  \/ Down
  \/ \E id \in Ids, s \in Session : LiveSession(s) /\ ~s.ready /\ Offer(id, s)
  \/ \E o \in Objects, s \in Session : Update(o, s)
  \/ \E id \in Ids, s \in Session : Erase(id, s)

\* The session of an entry is in use.
LEMMA EntryInUse ==
  ASSUME GInv, NEW id \in Ids, Entry(id)
  PROVE  /\ sessions[id] \in Objects
         /\ sessions[id] < fresh
         /\ GoodSession(object[sessions[id]])
         /\ object[sessions[id]] \in Session
  BY DEF GInv, TypeOK, OwnSession, Entry

\* A message handled by a live session.
LEMMA HandleShape ==
  ASSUME GInv, NEW id \in Ids, Live(id), NEW s, LiveSession(s),
         s.ready \in {object[sessions[id]].ready, TRUE}, Handle(id, s)
  PROVE  StepShape
  <1>1. s \in Session /\ s.life = "live" /\ GoodSession(s)
    BY DEF LiveSession, GoodSession
  <1>2. sessions[id] \in Objects /\ sessions[id] < fresh
    BY EntryInUse DEF Live
  <1>3. Update(sessions[id], s)
    BY <1>1, <1>2 DEF Live, Handle, Update
  <1>4. QED
    BY <1>1, <1>2, <1>3 DEF StepShape

LEMMA StepShapes == GInv /\ Next => StepShape
  <1> SUFFICES ASSUME GInv, Next PROVE StepShape
    OBVIOUS
  <1>f. fresh \in Objects /\ LiveSession(object[fresh]) /\ ~object[fresh].ready
    <2>1. fresh \in Objects /\ object[fresh] = NewSession
      BY DEF GInv, TypeOK, FreshUntouched, Objects
    <2>2. QED
      BY <2>1, NewSessionLive
  <1>1. ASSUME NEW id \in Ids, OfferFromWeb(id) PROVE StepShape
    <2>1. PICK b \in BOOLEAN : Offer(id, handleOfferFromWeb(object[fresh], b))
      BY <1>1 DEF OfferFromWeb
    <2> DEFINE s == handleOfferFromWeb(object[fresh], b)
    <2>2. LiveSession(s) /\ s.ready = object[fresh].ready
      BY <1>f, OfferFromWebLive
    <2> HIDE DEF s
    <2>3. QED
      BY <1>f, <2>1, <2>2 DEF StepShape, s, LiveSession, GoodSession
  <1>2. ASSUME NEW id \in Ids, OfferFromIMS(id) PROVE StepShape
    <2>1. PICK b \in BOOLEAN : Offer(id, handleOfferFromIMS(object[fresh], b))
      BY <1>2 DEF OfferFromIMS
    <2> DEFINE s == handleOfferFromIMS(object[fresh], b)
    <2>2. LiveSession(s) /\ s.ready = object[fresh].ready
      BY <1>f, OfferFromIMSLive
    <2> HIDE DEF s
    <2>3. QED
      BY <1>f, <2>1, <2>2 DEF StepShape, s, LiveSession, GoodSession
  <1>3. ASSUME NEW id \in Ids, ReOffer(id) PROVE StepShape
    BY <1>3 DEF ReOffer, StepShape, Down, Processes
  <1>4. ASSUME NEW id \in Ids, LastCandidate(id) PROVE StepShape
    <2>1. LiveSession(object[sessions[id]])
      BY <1>4, EntryInUse DEF LastCandidate, Live, LiveSession
    <2>2. LiveSession(handleLastCandidateFromWeb(object[sessions[id]]))
          /\ handleLastCandidateFromWeb(object[sessions[id]]).ready
               = object[sessions[id]].ready
      BY <2>1, LastCandidateLive
    <2>3. QED
      BY <1>4, <2>2, HandleShape DEF LastCandidate
  <1>5. ASSUME NEW id \in Ids, AnswerFromIMS(id) PROVE StepShape
    <2>1. LiveSession(object[sessions[id]])
      BY <1>5, EntryInUse DEF AnswerFromIMS, Live, LiveSession
    <2>2. PICK b \in BOOLEAN :
            Handle(id, handleAnswerFromIMS(object[sessions[id]], b))
      BY <1>5 DEF AnswerFromIMS
    <2>3. LiveSession(handleAnswerFromIMS(object[sessions[id]], b))
          /\ handleAnswerFromIMS(object[sessions[id]], b).ready
               \in {object[sessions[id]].ready, TRUE}
      BY <2>1, AnswerFromIMSLive
    <2>4. QED
      BY <1>5, <2>2, <2>3, HandleShape DEF AnswerFromIMS
  <1>6. ASSUME NEW id \in Ids, AnswerFromWeb(id) PROVE StepShape
    <2>1. LiveSession(object[sessions[id]])
      BY <1>6, EntryInUse DEF AnswerFromWeb, Live, LiveSession
    <2>2. PICK b \in BOOLEAN :
            Handle(id, handleAnswerFromWeb(object[sessions[id]], b))
      BY <1>6 DEF AnswerFromWeb
    <2>3. LiveSession(handleAnswerFromWeb(object[sessions[id]], b))
          /\ handleAnswerFromWeb(object[sessions[id]], b).ready
               \in {object[sessions[id]].ready, TRUE}
      BY <2>1, AnswerFromWebLive
    <2>4. QED
      BY <1>6, <2>2, <2>3, HandleShape DEF AnswerFromWeb
  <1>7. ASSUME NEW id \in Ids, Shutdown(id) PROVE StepShape
    <2> DEFINE s == destroy(object[sessions[id]])
    <2>1. Entry(id) /\ GoodSession(s) /\ s \in Session
      BY <1>7, EntryInUse, DestroyGood DEF Shutdown, Live, GoodSession
    <2>2. CASE /\ object' = [object EXCEPT ![sessions[id]] = s]
               /\ sessions' = [sessions EXCEPT ![id] = None]
               /\ UNCHANGED <<process, fresh>>
      <3> HIDE DEF s
      <3>1. Erase(id, s)
        BY <2>1, <2>2 DEF Erase
      <3>2. QED
        BY <2>1, <3>1 DEF StepShape
    <2>3. CASE process' = "crashed" /\ UNCHANGED <<sessions, fresh, object>>
      BY <2>3 DEF StepShape, Down, Processes
    <2>4. QED
      BY <1>7, <2>2, <2>3 DEF Shutdown
  <1>8. ASSUME NEW id \in Ids, Reap(id) PROVE StepShape
    <2> DEFINE s == object[sessions[id]]
    <2>1. Entry(id) /\ GoodSession(s) /\ s \in Session
      BY <1>8, EntryInUse DEF Reap
    <2>2. object = [object EXCEPT ![sessions[id]] = s]
      BY DEF GInv, TypeOK
    <2> HIDE DEF s
    <2>3. Erase(id, s)
      BY <1>8, <2>1, <2>2 DEF Reap, Erase
    <2>4. QED
      BY <2>1, <2>3 DEF StepShape
  <1>9. ASSUME Disconnect PROVE StepShape
    BY <1>9 DEF Disconnect, StepShape, Down, Processes
  <1>10. ASSUME NEW o \in Objects, TimerFires(o) PROVE StepShape
    <2>1. CASE object[o].life = "live"
      <3>1. o < fresh
        BY <1>10 DEF TimerFires, GInv, TypeOK, FreshUntouched, NewSession, Objects
      <3>2. LiveSession(object[o]) /\ object[o].ready
        BY <1>10, <2>1 DEF TimerFires, GInv, LiveSession, GoodSession
      <3> DEFINE s == checkMediaFlow(object[o])
      <3>3. /\ GoodSession(s)
            /\ \/ s.life = "stopped"
               \/ LiveSession(s) /\ s.ready = object[o].ready
        <4>1. object[o].timers # <<>>
          BY <1>10 DEF TimerFires
        <4>2. QED
          BY <4>1, <3>2, CheckGood
      <3>4. object' = [object EXCEPT ![o] = s] /\ UNCHANGED <<process, sessions, fresh>>
        BY <1>10, <2>1 DEF TimerFires
      <3> HIDE DEF s
      <3>5. s \in Session /\ Update(o, s)
        BY <2>1, <3>1, <3>2, <3>3, <3>4 DEF Update, LiveSession, GoodSession
      <3>6. QED
        BY <3>5 DEF StepShape
    <2>2. CASE object[o].life # "live"
      BY <1>10, <2>2 DEF TimerFires, StepShape, Down, Processes
    <2>3. QED
      BY <2>1, <2>2
  <1>11. ASSUME NEW o \in Objects, NEW side \in Sides,
                Media(o, side) \/ GoQuiet(o, side)
         PROVE  StepShape
    <2> DEFINE x == object[o]
               t == [x EXCEPT !.flow = @ \cup {side},
                              !.timers = [n \in DOMAIN @ |-> @[n] \cup {side}]]
               u == [x EXCEPT !.quiet = @ \cup {side}]
    <2>1. o < fresh /\ x.life = "live" /\ LiveSession(x)
      BY <1>11 DEF Media, GoQuiet, GInv, LiveSession
    <2>2. LiveSession(t) /\ t.ready = x.ready /\ LiveSession(u) /\ u.ready = x.ready
      BY <2>1, MediaLive
    <2>3. /\ UNCHANGED <<process, sessions, fresh>>
          /\ \/ object' = [object EXCEPT ![o] = t]
             \/ object' = [object EXCEPT ![o] = u]
      BY <1>11 DEF Media, GoQuiet, GInv, TypeOK, Session
    <2>4. PICK s \in {t, u} : object' = [object EXCEPT ![o] = s]
      BY <2>3
    <2>5. LiveSession(s) /\ s.ready = object[o].ready
      BY <2>2, <2>4
    <2>6. s \in Session /\ Update(o, s)
      BY <2>1, <2>3, <2>4, <2>5 DEF Update, LiveSession, GoodSession
    <2>7. QED
      BY <2>6 DEF StepShape
  <1>12. QED
    BY <1>1, <1>2, <1>3, <1>4, <1>5, <1>6, <1>7, <1>8, <1>9, <1>10, <1>11
       DEF Next, Signalling

LEMMA GInvNext == GInv /\ [Next]_vars => GInv'
  <1> SUFFICES ASSUME GInv, [Next]_vars PROVE GInv'
    OBVIOUS
  <1>p. process \in Processes
    BY DEF GInv, TypeOK, Processes
  <1>1. CASE Down
    BY <1>1, GInvDown DEF Down
  <1>2. ASSUME NEW id \in Ids, NEW s \in Session, LiveSession(s), Offer(id, s)
        PROVE  GInv'
    BY <1>2, GInvOffer
  <1>3. ASSUME NEW o \in Objects, NEW s \in Session, Update(o, s)
        PROVE  GInv'
    <2>1. s.life # "deleted" /\ process' \in Processes
      BY <1>p, <1>3 DEF Update
    <2>2. QED
      BY <1>3, <2>1, GInvUpdate DEF Update
  <1>4. ASSUME NEW id \in Ids, NEW s \in Session, Erase(id, s)
        PROVE  GInv'
    BY <1>4, GInvErase DEF Erase
  <1>5. CASE UNCHANGED vars
    BY <1>5, <1>p, GInvDown DEF vars
  <1>6. QED
    BY <1>1, <1>2, <1>3, <1>4, <1>5, StepShapes DEF StepShape

LEMMA GInvHolds == Spec => []GInv
  BY GInvInit, GInvNext, PTL DEF Spec

\* Every variable keeps its type, and no session keeps its keys and converters
\* without its agents, however often the SG repeats an answer or a candidate.
THEOREM TypeCorrect == Spec => []TypeOK
  <1>1. GInv => TypeOK
    BY DEF GInv
  <1>2. QED
    BY <1>1, GInvHolds, PTL

\* MediaGateway::sessions never leads a message to the wrong session: not to
\* the session of another id, not to a deleted one, not to the one that waits
\* for the next offer.
THEOREM OwnSessions == Spec => []OwnSession
  <1>1. GInv => OwnSession
    BY DEF GInv
  <1>2. QED
    BY <1>1, GInvHolds, PTL

\* The session that the loop creates ahead has had no message, no media and no
\* timer when an offer is given to it.
THEOREM FreshIsUntouched == Spec => []FreshUntouched
  <1>1. GInv => FreshUntouched
    BY DEF GInv
  <1>2. QED
    BY <1>1, GInvHolds, PTL

-----------------------------------------------------------------------------
(* The sessions implement the abstract life of a call.                     *)

\* The state of the call that a session carries.
StateOf(s) ==
  IF s.life = "stopped" THEN "stopped"
  ELSE IF s.ready THEN "established" ELSE "ringing"

calls == [id \in Ids |-> CallOf(id)]
service == IF Running THEN "up" ELSE "down"

\* A session in use changes: at most one call does, the one it carries.
LEMMA UpdateCalls ==
  ASSUME GInv, NEW o \in Objects, NEW s \in Session, Update(o, s)
  PROVE  \/ calls' = calls
         \/ \E id \in Ids :
              /\ calls[id] = StateOf(object[o])
              /\ calls' = [calls EXCEPT ![id] = StateOf(s)]
  <1>0. object'[o] = s /\ \A p \in Objects : p # o => object'[p] = object[p]
    BY DEF GInv, TypeOK, Update
  <1>1. \A id \in Ids : sessions[id] # o => CallOf(id)' = CallOf(id)
    <2> SUFFICES ASSUME NEW id \in Ids, sessions[id] # o
                 PROVE  CallOf(id)' = CallOf(id)
      OBVIOUS
    <2>1. Entry(id)' <=> Entry(id)
      BY DEF Update, Entry
    <2>2. Entry(id) => object'[sessions'[id]] = object[sessions[id]]
      BY <1>0 DEF GInv, TypeOK, Update, Entry
    <2>3. QED
      BY <2>1, <2>2 DEF CallOf
  <1>2. CASE \A id \in Ids : sessions[id] # o
    BY <1>1, <1>2 DEF calls
  <1>3. ASSUME NEW id \in Ids, sessions[id] = o
        PROVE  /\ calls[id] = StateOf(object[o])
               /\ calls' = [calls EXCEPT ![id] = StateOf(s)]
    <2>1. Entry(id) /\ Entry(id)' /\ sessions'[id] = o
      BY <1>3 DEF Update, Entry, Objects, None
    <2>2. CallOf(id) = StateOf(object[o]) /\ CallOf(id)' = StateOf(s)
      BY <1>0, <1>3, <2>1 DEF CallOf, StateOf
    <2>3. \A other \in Ids : other # id => sessions[other] # o
      BY <1>3, <2>1 DEF GInv, OwnSession
    <2>4. \A other \in Ids : other # id => CallOf(other)' = CallOf(other)
      BY <1>1, <2>3
    <2>5. calls' = [other \in Ids |-> CallOf(other)']
      BY DEF calls
    <2>6. [calls EXCEPT ![id] = StateOf(s)]
            = [other \in Ids |-> IF other = id THEN StateOf(s) ELSE CallOf(other)]
      BY DEF calls
    <2>7. QED
      BY <2>2, <2>4, <2>5, <2>6 DEF calls
  <1>4. QED
    BY <1>2, <1>3

\* An entry comes or goes: that call changes and no other.
LEMMA EntryCalls ==
  ASSUME GInv, NEW id \in Ids,
         sessions'[id] # sessions[id],
         \A other \in Ids \ {id} :
           /\ sessions'[other] = sessions[other]
           /\ Entry(other) => object'[sessions[other]] = object[sessions[other]]
  PROVE  calls' = [calls EXCEPT ![id] = CallOf(id)']
  <1>1. \A other \in Ids \ {id} : CallOf(other)' = CallOf(other)
    BY DEF CallOf, Entry
  <1>2. calls' = [other \in Ids |-> CallOf(other)']
    BY DEF calls
  <1>3. [calls EXCEPT ![id] = CallOf(id)']
          = [other \in Ids |-> IF other = id THEN CallOf(id)' ELSE CallOf(other)]
    BY DEF calls
  <1>4. QED
    BY <1>1, <1>2, <1>3

LEMMA CallsInit == Init => Abstract!Init
  BY DEF Init, Abstract!Init, CallOf, Entry, None, Running

\* Every step of the gateway is a step of the calls, or none.
LEMMA CallsNext == GInv /\ [Next]_vars => [Abstract!Next]_<<calls, service>>
  <1> SUFFICES ASSUME GInv, [Next]_vars
               PROVE  Abstract!Next \/ UNCHANGED <<calls, service>>
    OBVIOUS
  <1>u. CASE UNCHANGED vars
    BY <1>u DEF vars, calls, service, CallOf, Entry, Running
  <1>r. CASE Next
    <2>r. Running
      BY <1>r DEF Next
    <2>1. CASE Down
      <3>1. calls' = calls
        BY <2>1 DEF Down, calls, CallOf, Entry
      <3>2. service = "up" /\ service' = "down"
        BY <2>r, <2>1 DEF Down, service, Running
      <3>3. QED
        BY <3>1, <3>2 DEF Abstract!Next, Abstract!GoDown, calls, service
    <2>2. ASSUME NEW id \in Ids, NEW s \in Session,
                 LiveSession(s), ~s.ready, Offer(id, s)
          PROVE  Abstract!Next
      <3>1. sessions'[id] = fresh /\ ~Entry(id) /\ sessions'[id] # None
        BY <2>2 DEF GInv, TypeOK, Offer, Entry, Objects, None
      <3>2. \A other \in Ids \ {id} :
              /\ sessions'[other] = sessions[other]
              /\ Entry(other) => object'[sessions[other]] = object[sessions[other]]
        <4>1. \A p \in Objects : p < fresh => object'[p] = object[p]
          BY <2>2 DEF GInv, TypeOK, Offer, Objects
        <4>2. \A other \in Ids \ {id} : sessions'[other] = sessions[other]
          BY <2>2 DEF GInv, TypeOK, Offer
        <4>3. QED
          BY <4>1, <4>2, EntryInUse
      <3>3. CallOf(id) = "none" /\ CallOf(id)' = "ringing"
        <4>1. object'[fresh] = s
          BY <2>2 DEF GInv, TypeOK, Offer
        <4>2. QED
          BY <2>2, <3>1, <4>1 DEF CallOf, LiveSession, Entry
      <3>4. calls' = [calls EXCEPT ![id] = "ringing"] /\ calls[id] = "none"
        <4>1. calls' = [calls EXCEPT ![id] = CallOf(id)']
          BY <3>1, <3>2, EntryCalls DEF Entry
        <4>2. QED
          BY <3>3, <4>1 DEF calls
      <3>5. service = "up" /\ service' = service
        BY <2>r, <2>2 DEF service, Running, Offer
      <3>6. QED
        BY <3>4, <3>5
           DEF Abstract!Next, Abstract!Offer, Abstract!Move, calls, service
    <2>3. ASSUME NEW o \in Objects, NEW s \in Session, Update(o, s)
          PROVE  Abstract!Next \/ UNCHANGED <<calls, service>>
      <3>1. service = "up" /\ service' = service
        BY <2>r, <2>3 DEF service, Running, Update
      <3>2. CASE calls' = calls
        BY <3>1, <3>2
      <3>3. ASSUME NEW id \in Ids,
                   calls[id] = StateOf(object[o]),
                   calls' = [calls EXCEPT ![id] = StateOf(s)]
            PROVE  Abstract!Next \/ UNCHANGED <<calls, service>>
        <4>1. \/ StateOf(s) = StateOf(object[o])
              \/ StateOf(object[o]) = "ringing" /\ StateOf(s) = "established"
              \/ StateOf(object[o]) = "established" /\ StateOf(s) = "stopped"
          <5>1. object[o].ready \in BOOLEAN
            BY DEF GInv, TypeOK, Session
          <5>2. QED
            BY <2>3, <5>1 DEF Update, StateOf
        <4>2. CASE StateOf(s) = StateOf(object[o])
          <5>1. calls' = calls
            BY <3>3, <4>2 DEF calls
          <5>2. QED
            BY <3>1, <5>1
        <4>3. CASE /\ StateOf(object[o]) = "ringing"
                   /\ StateOf(s) = "established"
          BY <3>1, <3>3, <4>3
             DEF Abstract!Next, Abstract!Establish, Abstract!Move, calls, service
        <4>4. CASE /\ StateOf(object[o]) = "established"
                   /\ StateOf(s) = "stopped"
          BY <3>1, <3>3, <4>4
             DEF Abstract!Next, Abstract!Stop, Abstract!Move, calls, service
        <4>5. QED
          BY <4>1, <4>2, <4>3, <4>4
      <3>4. QED
        BY <2>3, <3>2, <3>3, UpdateCalls
    <2>4. ASSUME NEW id \in Ids, NEW s \in Session, Erase(id, s)
          PROVE  Abstract!Next
      <3>1. sessions'[id] = None /\ Entry(id)
        BY <2>4 DEF GInv, TypeOK, Erase
      <3>2. \A other \in Ids \ {id} :
              /\ sessions'[other] = sessions[other]
              /\ Entry(other) => object'[sessions[other]] = object[sessions[other]]
        <4>1. \A other \in Ids \ {id} : sessions'[other] = sessions[other]
          BY <2>4 DEF GInv, TypeOK, Erase
        <4>2. \A other \in Ids \ {id} : Entry(other) => sessions[other] # sessions[id]
          BY DEF GInv, OwnSession
        <4>3. \A p \in Objects : p # sessions[id] => object'[p] = object[p]
          BY <2>4 DEF GInv, TypeOK, Erase
        <4>4. QED
          BY <4>1, <4>2, <4>3, EntryInUse
      <3>3. CallOf(id)' = "none"
        BY <3>1 DEF CallOf, Entry
      <3>4. calls' = [calls EXCEPT ![id] = "none"]
        <4>1. calls' = [calls EXCEPT ![id] = CallOf(id)']
          BY <3>1, <3>2, EntryCalls DEF Entry
        <4>2. QED
          BY <3>3, <4>1
      <3>5. calls[id] \in {"ringing", "established", "stopped"}
        BY <3>1 DEF calls, CallOf
      <3>6. service = "up" /\ service' = service
        BY <2>r, <2>4 DEF service, Running, Erase
      <3>7. QED
        BY <3>4, <3>5, <3>6
           DEF Abstract!Next, Abstract!Close, Abstract!Move, calls, service
    <2>5. QED
      BY <1>r, <2>1, <2>2, <2>3, <2>4, StepShapes DEF StepShape
  <1>q. QED
    BY <1>u, <1>r

\* Seen from the SG the sessions behave as calls: a call rings once its offer
\* is taken, is established once, is stopped only after that, and its id is
\* free again only when the entry has been erased.
THEOREM SessionsAreCalls == Spec => ImplementsCalls
  <1>1. GInv /\ [Next]_vars => [Abstract!Next]_(Abstract!vars)
    BY CallsNext DEF Abstract!vars, calls, service
  <1>2. QED
    BY CallsInit, GInvHolds, <1>1, PTL DEF Spec, ImplementsCalls, Abstract!Spec

-----------------------------------------------------------------------------
(* What holds when the SG delivers every answer, and every last candidate, *)
(* once.                                                                   *)

\* The SDP of the browser has been sent as often as it should have been.
Joined(s) ==
  s.life = "live" =>
    /\ s.lastCandidateArrived <=> s.lasts # 0
    /\ s.supported => s.webOfferOrAnswerArrived
    /\ s.webOfferOrAnswerArrived => s.webCallerFlag \/ s.answers # 0
    /\ ~(s.webOfferOrAnswerArrived /\ s.lastCandidateArrived) => s.toIMS = 0
    /\ s.supported /\ s.lastCandidateArrived => s.toIMS = 1

\* At most one timer watches a session, set after its only answer, and what it
\* has seen is in the counters that checkMediaFlow compares.
Watched(s) ==
  /\ s.life # "live" => s.timers = <<>>
  /\ s.life = "stopped" => s.missed # {}
  /\ s.life = "live" =>
       \/ s.timers = <<>>
       \/ s.answers # 0 /\ \E seen \in SUBSET s.flow : s.timers = <<seen>>

OnceSession(s) == Joined(s) /\ Watched(s)

LEMMA NewSessionOnce == OnceSession(NewSession)
  BY DEF OnceSession, Joined, Watched, NewSession

\* The sequence of one timer.
LEMMA OneTimer ==
  ASSUME NEW p
  PROVE  /\ Append(<<>>, p) = <<p>>
         /\ Tail(<<p>>) = <<>>
         /\ Head(<<p>>) = p
         /\ Front(<<p>>) = <<>>
         /\ <<p>> # <<>>
  BY DEF Front

\* sendOfferOrAnswerToIMS, called on a session that has sent nothing yet.
LEMMA SendJoined ==
  ASSUME NEW s, LiveSession(s), s.toIMS = 0,
         s.lastCandidateArrived <=> s.lasts # 0,
         s.supported => s.webOfferOrAnswerArrived,
         s.webOfferOrAnswerArrived => s.webCallerFlag \/ s.answers # 0
  PROVE  /\ Joined(sendOfferOrAnswerToIMS(s))
         /\ Watched(s) => Watched(sendOfferOrAnswerToIMS(s))
         /\ sendOfferOrAnswerToIMS(s).answers = s.answers
         /\ sendOfferOrAnswerToIMS(s).timers = s.timers
  <1> DEFINE b == s.offered \/ s.webCallerFlag
             n == s.toIMS + 1
             t == [s EXCEPT !.toIMS = n, !.offered = b]
  <1>1. n = 1 /\ s \in Session
    BY DEF LiveSession, GoodSession
  <1>2. s.webOfferOrAnswerArrived /\ s.lastCandidateArrived
          => sendOfferOrAnswerToIMS(s) = t
    BY DEF sendOfferOrAnswerToIMS
  <1>3. ~(s.webOfferOrAnswerArrived /\ s.lastCandidateArrived)
          => sendOfferOrAnswerToIMS(s) = s
    BY DEF sendOfferOrAnswerToIMS
  <1> HIDE DEF n, b
  <1>4. CASE s.webOfferOrAnswerArrived /\ s.lastCandidateArrived
    <2>1. /\ t.toIMS = 1 /\ t.life = s.life /\ t.lasts = s.lasts
          /\ t.lastCandidateArrived = s.lastCandidateArrived
          /\ t.supported = s.supported /\ t.answers = s.answers
          /\ t.webOfferOrAnswerArrived = s.webOfferOrAnswerArrived
          /\ t.webCallerFlag = s.webCallerFlag
          /\ t.timers = s.timers /\ t.flow = s.flow /\ t.missed = s.missed
      BY <1>1 DEF Session
    <2>2. sendOfferOrAnswerToIMS(s) = t
      BY <1>2, <1>4
    <2> HIDE DEF t
    <2>3. QED
      BY <1>4, <2>1, <2>2 DEF Joined, Watched
  <1>5. CASE ~(s.webOfferOrAnswerArrived /\ s.lastCandidateArrived)
    BY <1>3, <1>5 DEF Joined, Watched
  <1>6. QED
    BY <1>4, <1>5

\* doTailingJobs, called on a session that no timer watches.
LEMMA TailingOnce ==
  ASSUME NEW s, LiveSession(s), s.timers = <<>>, s.answers # 0, Joined(s)
  PROVE  OnceSession(doTailingJobs(s))
  <1>1. doTailingJobs(s) = [s EXCEPT !.ready = TRUE, !.timers = <<{}>>]
    BY OneTimer DEF doTailingJobs, setTimer, LiveSession, GoodSession, Session
  <1>2. QED
    BY <1>1 DEF OnceSession, Joined, Watched, LiveSession, GoodSession, Session

\* A session that has no answer is not watched.
LEMMA Unanswered ==
  ASSUME NEW s, LiveSession(s), OnceSession(s), s.answers = 0
  PROVE  s.timers = <<>>
  BY DEF OnceSession, Watched, LiveSession

LEMMA OfferFromWebOnce ==
  ASSUME NEW b \in BOOLEAN
  PROVE  OnceSession(handleOfferFromWeb(NewSession, b))
  BY DEF OnceSession, Joined, Watched, NewSession, handleOfferFromWeb,
         webSdpArrived, sendOfferOrAnswerToIMS

LEMMA OfferFromIMSOnce ==
  ASSUME NEW b \in BOOLEAN
  PROVE  OnceSession(handleOfferFromIMS(NewSession, b))
  BY DEF OnceSession, Joined, Watched, NewSession, handleOfferFromIMS

LEMMA AnswerFromIMSOnce ==
  ASSUME NEW s, LiveSession(s), OnceSession(s), s.answers = 0, s.webCallerFlag,
         NEW b \in BOOLEAN
  PROVE  OnceSession(handleAnswerFromIMS(s, b))
  <1> DEFINE n == s.answers + 1
             t == [s EXCEPT !.answers = n]
  <1>1. n = 1 /\ s.timers = <<>> /\ s \in Session
    BY Unanswered DEF LiveSession, GoodSession
  <1>2. handleAnswerFromIMS(s, b) \in {t, doTailingJobs(t)}
    BY DEF handleAnswerFromIMS
  <1> HIDE DEF n
  <1>3. /\ LiveSession(t) /\ t.timers = <<>> /\ t.answers # 0
        /\ Joined(t) /\ Watched(t)
    BY <1>1 DEF LiveSession, GoodSession, Session, OnceSession, Joined, Watched
  <1> HIDE DEF t
  <1>4. QED
    BY <1>2, <1>3, TailingOnce DEF OnceSession

LEMMA AnswerFromWebOnce ==
  ASSUME NEW s, LiveSession(s), OnceSession(s), s.answers = 0, ~s.webCallerFlag,
         NEW b \in BOOLEAN
  PROVE  OnceSession(handleAnswerFromWeb(s, b))
  <1> DEFINE v == webSdpArrived(s, b)
             n == v.answers + 1
             t == [v EXCEPT !.answers = n]
             u == sendOfferOrAnswerToIMS(t)
  <1>1. /\ s.timers = <<>> /\ s \in Session /\ s.toIMS = 0
        /\ s.lastCandidateArrived <=> s.lasts # 0
    BY Unanswered DEF LiveSession, GoodSession, OnceSession, Joined
  <1>2. v = [s EXCEPT !.supported = b, !.webOfferOrAnswerArrived = TRUE]
    BY DEF webSdpArrived
  <1>3. n = 1
    BY <1>1, <1>2 DEF Session
  <1>4. b => handleAnswerFromWeb(s, b) = doTailingJobs(u)
    BY DEF handleAnswerFromWeb
  <1>5. ~b => handleAnswerFromWeb(s, b) = t
    BY DEF handleAnswerFromWeb
  <1> HIDE DEF n, v
  <1>6. /\ LiveSession(t) /\ t.timers = <<>> /\ t.answers = 1 /\ t.toIMS = 0
        /\ t.supported = b /\ t.webOfferOrAnswerArrived
        /\ (t.lastCandidateArrived <=> t.lasts # 0)
    BY <1>1, <1>2, <1>3 DEF LiveSession, GoodSession, Session
  <1> HIDE DEF t
  <1>7. LiveSession(u) /\ u.timers = <<>> /\ u.answers # 0 /\ Joined(u)
    BY <1>6, SendLive, SendJoined
  <1>8. ~b => OnceSession(t)
    BY <1>6 DEF OnceSession, Joined, Watched, LiveSession
  <1> HIDE DEF u
  <1>9. QED
    BY <1>4, <1>5, <1>7, <1>8, TailingOnce

LEMMA LastCandidateOnce ==
  ASSUME NEW s, LiveSession(s), OnceSession(s), s.lasts = 0
  PROVE  OnceSession(handleLastCandidateFromWeb(s))
  <1> DEFINE n == s.lasts + 1
             t == [s EXCEPT !.lastCandidateArrived = TRUE, !.lasts = n]
  <1>1. n = 1 /\ s \in Session
    BY DEF LiveSession, GoodSession
  <1> HIDE DEF n
  <1>2. /\ LiveSession(t) /\ t.toIMS = 0 /\ (t.lastCandidateArrived <=> t.lasts # 0)
        /\ t.supported => t.webOfferOrAnswerArrived
        /\ t.webOfferOrAnswerArrived => t.webCallerFlag \/ t.answers # 0
        /\ Watched(t)
    <2>1. /\ s.toIMS = 0
          /\ s.supported => s.webOfferOrAnswerArrived
          /\ s.webOfferOrAnswerArrived => s.webCallerFlag \/ s.answers # 0
      BY DEF OnceSession, Joined, LiveSession
    <2>2. LiveSession(t)
      BY <1>1 DEF LiveSession, GoodSession, Session
    <2>3. /\ t.toIMS = s.toIMS /\ t.lasts = 1 /\ t.lastCandidateArrived
          /\ t.supported = s.supported /\ t.answers = s.answers
          /\ t.webOfferOrAnswerArrived = s.webOfferOrAnswerArrived
          /\ t.webCallerFlag = s.webCallerFlag /\ t.life = s.life
          /\ t.timers = s.timers /\ t.flow = s.flow /\ t.missed = s.missed
      BY <1>1 DEF Session
    <2> HIDE DEF t
    <2>4. Watched(t)
      BY <2>3 DEF OnceSession, Watched
    <2>5. QED
      BY <2>1, <2>2, <2>3, <2>4
  <1>3. handleLastCandidateFromWeb(s) = sendOfferOrAnswerToIMS(t)
    BY DEF handleLastCandidateFromWeb, n
  <1> HIDE DEF t
  <1>4. QED
    BY <1>2, <1>3, SendJoined DEF OnceSession

LEMMA DestroyOnce ==
  ASSUME NEW s, LiveSession(s), OnceSession(s)
  PROVE  OnceSession(destroy(s))
  <1> DEFINE ts == IF s.timers = <<>> THEN <<>> ELSE Front(s.timers)
  <1>1. ts = <<>>
    BY OneTimer DEF OnceSession, Watched, LiveSession
  <1>2. destroy(s) = [NewSession EXCEPT !.life = "deleted", !.timers = ts]
    BY DEF destroy
  <1> HIDE DEF ts
  <1>3. QED
    BY <1>1, <1>2 DEF OnceSession, Joined, Watched, NewSession

LEMMA CheckOnce ==
  ASSUME NEW s, LiveSession(s), OnceSession(s), s.timers # <<>>
  PROVE  OnceSession(checkMediaFlow(s))
  <1>1. PICK seen \in SUBSET s.flow : s.answers # 0 /\ s.timers = <<seen>>
    BY DEF OnceSession, Watched, LiveSession
  <1>2. Tail(s.timers) = <<>> /\ Head(s.timers) = seen
    BY <1>1, OneTimer
  <1> DEFINE missed == Sides \ seen
             t == [s EXCEPT !.timers = <<>>, !.flow = {}]
  <1>3. s \in Session /\ s.life = "live"
    BY DEF LiveSession, GoodSession
  <1>4. CASE s.flow = Sides
    <2>1. checkMediaFlow(s) = [s EXCEPT !.timers = <<{}>>, !.flow = {}]
      BY <1>2, <1>3, <1>4, OneTimer DEF checkMediaFlow, setTimer, Session
    <2>2. QED
      BY <1>1, <1>3, <2>1 DEF OnceSession, Joined, Watched, Session
  <1>5. CASE s.flow # Sides
    <2>1. checkMediaFlow(s) = [t EXCEPT !.life = "stopped", !.missed = missed,
             !.ready = FALSE, !.flow = {}, !.lastCandidateArrived = FALSE]
      BY <1>2, <1>5 DEF checkMediaFlow, deleteSession
    <2>2. missed # {}
      BY <1>3, <1>5 DEF Session
    <2> HIDE DEF missed
    <2>3. QED
      BY <1>3, <2>1, <2>2 DEF OnceSession, Joined, Watched, Session
  <1>6. QED
    BY <1>4, <1>5

LEMMA MediaOnce ==
  ASSUME NEW s, LiveSession(s), OnceSession(s), NEW side \in Sides
  PROVE  LET t == [s EXCEPT !.flow = @ \cup {side},
                            !.timers = [n \in DOMAIN @ |-> @[n] \cup {side}]]
             u == [s EXCEPT !.quiet = @ \cup {side}]
         IN  OnceSession(t) /\ OnceSession(u)
  <1> DEFINE ts == [n \in DOMAIN s.timers |-> s.timers[n] \cup {side}]
             f == s.flow \cup {side}
             q == s.quiet \cup {side}
             t == [s EXCEPT !.flow = f, !.timers = ts]
             u == [s EXCEPT !.quiet = q]
  <1>1. s \in Session /\ s.life = "live"
    BY DEF LiveSession, GoodSession
  <1>2. \/ ts = <<>>
        \/ s.answers # 0 /\ \E seen \in SUBSET f : ts = <<seen>>
    <2>1. CASE s.timers = <<>>
      BY <2>1
    <2>2. ASSUME NEW seen \in SUBSET s.flow, s.answers # 0, s.timers = <<seen>>
          PROVE  s.answers # 0 /\ \E other \in SUBSET f : ts = <<other>>
      <3>1. ts = <<seen \cup {side}>>
        BY <2>2
      <3>2. seen \cup {side} \in SUBSET f
        OBVIOUS
      <3>3. QED
        BY <2>2, <3>1, <3>2
    <2>3. QED
      BY <1>1, <2>1, <2>2 DEF OnceSession, Watched
  <1>3. OnceSession(t)
    <2> HIDE DEF ts, f
    <2>1. QED
      BY <1>1, <1>2 DEF OnceSession, Joined, Watched, Session
  <1>4. OnceSession(u)
    <2> HIDE DEF q
    <2>1. QED
      BY <1>1 DEF OnceSession, Joined, Watched, Session
  <1>5. QED
    BY <1>3, <1>4

OInv == GInv /\ \A o \in Objects : OnceSession(object[o])

LEMMA OInvInit == Init => OInv
  BY GInvInit, NewSessionOnce DEF OInv, Init

LEMMA OInvNext == Repeats = 1 /\ OInv /\ [Next]_vars => OInv'
  <1> SUFFICES ASSUME Repeats = 1, OInv, [Next]_vars PROVE OInv'
    OBVIOUS
  <1>g. GInv /\ GInv'
    BY GInvNext DEF OInv
  <1>s. \A o \in Objects :
          /\ object[o] \in Session /\ OnceSession(object[o])
          /\ object[o].life = "live" => LiveSession(object[o])
    BY DEF OInv, GInv, TypeOK, LiveSession
  <1>f. fresh \in Objects /\ object[fresh] = NewSession
    BY <1>g DEF GInv, TypeOK, FreshUntouched, Objects
  <1>o. ASSUME NEW o \in Objects, NEW s, OnceSession(s),
               object' = [object EXCEPT ![o] = s]
        PROVE  OInv'
    <2>1. \A p \in Objects : object'[p] = IF p = o THEN s ELSE object[p]
      BY <1>o, <1>g DEF GInv, TypeOK
    <2>2. QED
      BY <1>o, <1>g, <1>s, <2>1 DEF OInv
  <1>n. CASE UNCHANGED object
    BY <1>n, <1>g DEF OInv
  <1>e. ASSUME NEW id \in Ids, Live(id)
        PROVE  LET s == object[sessions[id]] IN
               sessions[id] \in Objects /\ LiveSession(s) /\ OnceSession(s)
    BY <1>e, <1>g, <1>s, EntryInUse DEF Live
  <1>1. ASSUME NEW id \in Ids, OfferFromWeb(id) PROVE OInv'
    <2>1. PICK b \in BOOLEAN : Offer(id, handleOfferFromWeb(object[fresh], b))
      BY <1>1 DEF OfferFromWeb
    <2>2. OnceSession(handleOfferFromWeb(object[fresh], b))
      BY <1>f, OfferFromWebOnce
    <2>3. QED
      BY <1>f, <1>o, <2>1, <2>2 DEF Offer
  <1>2. ASSUME NEW id \in Ids, OfferFromIMS(id) PROVE OInv'
    <2>1. PICK b \in BOOLEAN : Offer(id, handleOfferFromIMS(object[fresh], b))
      BY <1>2 DEF OfferFromIMS
    <2>2. OnceSession(handleOfferFromIMS(object[fresh], b))
      BY <1>f, OfferFromIMSOnce
    <2>3. QED
      BY <1>f, <1>o, <2>1, <2>2 DEF Offer
  <1>3. ASSUME NEW id \in Ids, ReOffer(id) \/ Reap(id) PROVE OInv'
    BY <1>3, <1>n DEF ReOffer, Reap
  <1>4. ASSUME NEW id \in Ids, LastCandidate(id) PROVE OInv'
    <2> DEFINE s == object[sessions[id]]
    <2>1. sessions[id] \in Objects /\ LiveSession(s) /\ OnceSession(s)
      BY <1>4, <1>e DEF LastCandidate
    <2>2. s.lasts = 0
      BY <1>4, <2>1 DEF LastCandidate, LiveSession, GoodSession, Session
    <2>3. OnceSession(handleLastCandidateFromWeb(s))
      BY <2>1, <2>2, LastCandidateOnce
    <2>4. QED
      BY <1>4, <1>o, <2>1, <2>3 DEF LastCandidate, Handle
  <1>5. ASSUME NEW id \in Ids, AnswerFromIMS(id) PROVE OInv'
    <2> DEFINE s == object[sessions[id]]
    <2>1. sessions[id] \in Objects /\ LiveSession(s) /\ OnceSession(s)
      BY <1>5, <1>e DEF AnswerFromIMS
    <2>2. s.answers = 0 /\ s.webCallerFlag
      BY <1>5, <2>1 DEF AnswerFromIMS, LiveSession, GoodSession, Session
    <2>3. PICK b \in BOOLEAN : Handle(id, handleAnswerFromIMS(s, b))
      BY <1>5 DEF AnswerFromIMS
    <2>4. OnceSession(handleAnswerFromIMS(s, b))
      BY <2>1, <2>2, AnswerFromIMSOnce
    <2>5. QED
      BY <1>o, <2>1, <2>3, <2>4 DEF Handle
  <1>6. ASSUME NEW id \in Ids, AnswerFromWeb(id) PROVE OInv'
    <2> DEFINE s == object[sessions[id]]
    <2>1. sessions[id] \in Objects /\ LiveSession(s) /\ OnceSession(s)
      BY <1>6, <1>e DEF AnswerFromWeb
    <2>2. s.answers = 0 /\ ~s.webCallerFlag
      BY <1>6, <2>1 DEF AnswerFromWeb, LiveSession, GoodSession, Session
    <2>3. PICK b \in BOOLEAN : Handle(id, handleAnswerFromWeb(s, b))
      BY <1>6 DEF AnswerFromWeb
    <2>4. OnceSession(handleAnswerFromWeb(s, b))
      BY <2>1, <2>2, AnswerFromWebOnce
    <2>5. QED
      BY <1>o, <2>1, <2>3, <2>4 DEF Handle
  <1>7. ASSUME NEW id \in Ids, Shutdown(id) PROVE OInv'
    <2> DEFINE s == object[sessions[id]]
    <2>1. sessions[id] \in Objects /\ OnceSession(destroy(s))
      BY <1>7, <1>e, DestroyOnce DEF Shutdown
    <2>2. CASE object' = [object EXCEPT ![sessions[id]] = destroy(s)]
      BY <1>o, <2>1, <2>2
    <2>3. QED
      BY <1>7, <1>n, <2>2 DEF Shutdown
  <1>8. ASSUME NEW o \in Objects, TimerFires(o) PROVE OInv'
    <2>1. CASE object[o].life = "live"
      <3>1. LiveSession(object[o]) /\ OnceSession(object[o]) /\ object[o].timers # <<>>
        BY <1>8, <1>s, <2>1 DEF TimerFires
      <3>2. OnceSession(checkMediaFlow(object[o]))
        BY <3>1, CheckOnce
      <3>3. QED
        BY <1>8, <1>o, <2>1, <3>2 DEF TimerFires
    <2>2. CASE object[o].life # "live"
      BY <1>8, <1>n, <2>2 DEF TimerFires
    <2>3. QED
      BY <2>1, <2>2
  <1>9. ASSUME NEW o \in Objects, NEW side \in Sides,
               Media(o, side) \/ GoQuiet(o, side)
        PROVE  OInv'
    <2> DEFINE x == object[o]
               t == [x EXCEPT !.flow = @ \cup {side},
                              !.timers = [n \in DOMAIN @ |-> @[n] \cup {side}]]
               u == [x EXCEPT !.quiet = @ \cup {side}]
    <2>1. LiveSession(x) /\ OnceSession(x)
      BY <1>9, <1>s DEF Media, GoQuiet
    <2>2. OnceSession(t) /\ OnceSession(u)
      BY <2>1, MediaOnce
    <2>3. object' = [object EXCEPT ![o] = t] \/ object' = [object EXCEPT ![o] = u]
      BY <1>9, <1>g DEF Media, GoQuiet, GInv, TypeOK, Session
    <2> HIDE DEF t, u
    <2>4. QED
      BY <1>o, <2>2, <2>3
  <1>10. CASE Disconnect
    BY <1>10, <1>n DEF Disconnect
  <1>11. QED
    BY <1>n, <1>1, <1>2, <1>3, <1>4, <1>5, <1>6, <1>7, <1>8, <1>9, <1>10
       DEF Next, Signalling, vars

LEMMA OInvHolds ==
  ASSUME Repeats = 1
  PROVE  Spec => []OInv
  <1>1. OInv /\ [Next]_vars => OInv'
    BY OInvNext
  <1>2. QED
    BY <1>1, OInvInit, PTL DEF Spec

\* sendOfferOrAnswerToIMS is called from three places and sends the SDP of a
\* browser exactly once, in whichever order the SDP and the last candidate
\* arrive, as long as neither is repeated.
THEOREM SentOnce ==
  ASSUME Repeats = 1
  PROVE  Spec => []JoinedOnce
  <1>1. OInv => JoinedOnce
    <2> SUFFICES ASSUME OInv, NEW o \in Objects,
                        object[o].life = "live", object[o].supported
                 PROVE  object[o].toIMS
                          = IF object[o].lastCandidateArrived THEN 1 ELSE 0
      BY DEF JoinedOnce
    <2>1. Joined(object[o])
      BY DEF OInv, OnceSession
    <2>2. QED
      BY <2>1 DEF Joined
  <1>2. QED
    BY <1>1, OInvHolds, PTL

\* checkMediaFlow never runs on a session that is stopped or deleted: with one
\* answer there is one timer, and the destructor or the timer itself ends it.
THEOREM TimersEnd ==
  ASSUME Repeats = 1
  PROVE  Spec => []NoTimerOutlives
  <1>1. OInv => NoTimerOutlives
    BY DEF OInv, OnceSession, Watched, NoTimerOutlives
  <1>2. QED
    BY <1>1, OInvHolds, PTL

\* A session that checkMediaFlow stops has had no packet from one of its sides
\* since the timer was set.
THEOREM OnlySilentStopped ==
  ASSUME Repeats = 1
  PROVE  Spec => []SilentBeforeStop
  <1>1. OInv => SilentBeforeStop
    BY DEF OInv, OnceSession, Watched, SilentBeforeStop
  <1>2. QED
    BY <1>1, OInvHolds, PTL

=============================================================================
