------------------------------ MODULE Teardown ------------------------------
(***************************************************************************)
(* The end of one session, step by step.  Three kinds of threads meet in    *)
(* it, without a lock between them:                                        *)
(*   - the signalling thread, which looks the session up, uses its agents,  *)
(*     or deletes it when the SG says so (handleSessionMessage,             *)
(*     ~MediaSession, Timer::stopTimer);                                   *)
(*   - the timer threads (Timer::callback, Timer::onTimeout), which run     *)
(*     checkMediaFlow, and through it deleteSession or setTimer;            *)
(*   - the workers, which carry packets from one part of the session to     *)
(*     another: the loop of the WebAgent and the threads of the Helpers.    *)
(* Each step is one access to what the threads share.  The first step whose *)
(* behaviour is undefined is recorded in ub, and the model ends there.      *)
(***************************************************************************)
EXTENDS Integers, FiniteSets, Sequences, Functions

CONSTANTS
  MaxTimers,   \* bound: timers set in the life of the session
  MaxBusy      \* bound: workers that have a packet in hand at one time

ASSUME TeardownAssumption == MaxTimers \in Nat \ {0} /\ MaxBusy \in Nat

\* The members of a MediaSession that deleteSession deletes, in its order.
Parts == <<"webAgent", "imsAgent", "imsToWebCC", "webToImsCC">>

\* Plausible bug: ~ImsAgent deletes one of its two helpers.
OwnerOneHelper ==
  [ice |-> "webAgent", video |-> "imsAgent", audio |-> "none",
   toWeb |-> "imsToWebCC", toIms |-> "webToImsCC"]

\* The threads of a session, and the part whose destructor cancels each.
Owner ==
  [ice |-> "webAgent", video |-> "imsAgent", audio |-> "imsAgent",
   toWeb |-> "imsToWebCC", toIms |-> "webToImsCC"]

Workers    == DOMAIN Owner
Converters == {"toWeb", "toIms"}

\* The parts a packet takes a worker through, after its recvfrom has returned:
\* receiveDataCallback for audio and for video, cbFuncVideo, cbFuncAudio,
\* cbImsToWeb, cbWebToIms.
Routes ==
  [ice   |-> {<<"webAgent", "imsAgent">>, <<"webAgent", "webToImsCC">>},
   video |-> {<<"imsAgent", "imsToWebCC">>},
   audio |-> {<<"imsAgent", "webAgent">>},
   toWeb |-> {<<"webAgent">>},
   toIms |-> {<<"imsAgent">>}]

Timers == 1 .. MaxTimers

VARIABLES
  mpc,      \* the signalling thread
  mk,       \* how far its deleteSession has come
  stopId,   \* the id its stopTimer was called with
  part,     \* each pointer of the session: live, dangling, null
  self,     \* whether the MediaSession itself is still allocated
  timerID,  \* MediaSession::timerID
  cnt,      \* Timer::cnt
  timer,    \* the thread, the Ts and the tpool entry of each timer
  worker,   \* each worker: unstarted, running, cancelled, gone
  pending,  \* the parts that a worker's packet has yet to go through
  ub,       \* the first undefined step
  blame     \* history: which races there have been

mainVars   == <<mpc, mk, stopId>>
memory     == <<part, self>>
workerVars == <<worker, pending>>
vars == <<mainVars, memory, timerID, cnt, timer, workerVars, ub, blame>>

\* A timer thread about to touch what is not its own.
Firing == {"fired", "checkWeb", "checkIms", "delete", "rearm", "store",
           "finish", "free", "clear"}

\* pc is the control point of the thread, k how far its deleteSession has come,
\* ts its Ts object, pool whether tpool leads to that, cancelled whether
\* pthread_cancel has been called.
Timer ==
  [pc : Firing \cup {"none", "asleep", "done"},
   k : 1 .. 8,
   ts : {"none", "live", "freed"},
   pool : BOOLEAN,
   cancelled : BOOLEAN]

NoTimer  == [pc |-> "none", k |-> 1, ts |-> "none", pool |-> FALSE,
             cancelled |-> FALSE]
NewTimer == [NoTimer EXCEPT !.pc = "asleep", !.ts = "live", !.pool = TRUE]

Answered == \A w \in Converters : worker[w] # "unstarted"
Busy     == {w \in Workers : pending[w] # <<>>}

Undefined(kind) ==
  /\ ub' = kind
  /\ UNCHANGED <<mainVars, memory, timerID, cnt, timer, workerVars>>

\* What becomes of a pointer that is followed.
Bad(p) == IF part[p] = "null" THEN "nullDeref" ELSE "useAfterFree"

-----------------------------------------------------------------------------
(* MediaSession::deleteSession.  Each destructor cancels the threads it owns *)
(* and does not wait for them.                                             *)

\* Plausible bug: each pointer is cleared as soon as its part is deleted.
deletionInterleaved(k) ==
  [op   |-> IF k % 2 = 1 THEN "delete" ELSE "clear",
   part |-> Parts[(k + 1) \div 2]]

\* Plausible bug: the pointers are not cleared.
deletionOnly(k) == [op |-> "delete", part |-> Parts[IF k <= 4 THEN k ELSE 4]]

\* The k-th of its steps: four deletes, then four assignments of NULL.
deletion(k) ==
  [op   |-> IF k <= 4 THEN "delete" ELSE "clear",
   part |-> Parts[IF k <= 4 THEN k ELSE k - 4]]

\* The destructor of a part.  A thread that waits for a packet ends where it is.
destroyPart(p) ==
  /\ part' = [part EXCEPT ![p] = "dangling"]
  /\ worker' = [w \in Workers |->
       IF Owner[w] = p /\ worker[w] = "running"
       THEN IF pending[w] = <<>> THEN "gone" ELSE "cancelled"
       ELSE worker[w]]

\* Step k of a deleteSession, apart from the counter of the thread that runs it.
deleteSession(k) ==
  LET p == deletion(k).part IN
  CASE deletion(k).op = "clear" ->
         /\ part' = [part EXCEPT ![p] = "null"]
         /\ UNCHANGED <<worker, blame>>
    [] deletion(k).op = "delete" ->
         /\ \/ part[p] = "live" /\ destroyPart(p)
            \/ part[p] = "null" /\ UNCHANGED <<part, worker>>
         /\ blame' = IF Busy # {} THEN blame \cup {"talking"} ELSE blame

\* Step k, where it is undefined: the part has been deleted already, or its
\* Helper has no thread and pthread_cancel is called with 0.
deleteFails(k) ==
  LET p == deletion(k).part IN
  /\ deletion(k).op = "delete"
  /\ \/ part[p] = "dangling" /\ Undefined("doubleFree")
     \/ /\ part[p] = "live"
        /\ \E w \in Workers : Owner[w] = p /\ worker[w] = "unstarted"
        /\ Undefined("cancelZero")
  /\ UNCHANGED blame

-----------------------------------------------------------------------------
(* The signalling thread.                                                  *)

\* An answer: doTailingJobs starts the converters and sets the first timer.
Main_answer ==
  /\ mpc = "idle"
  /\ ~Answered
  /\ worker' = [w \in Workers |-> IF w \in Converters THEN "running" ELSE worker[w]]
  /\ timer' = [timer EXCEPT ![1] = NewTimer]
  /\ cnt' = 1
  /\ timerID' = 1
  /\ UNCHANGED <<mainVars, memory, pending, ub, blame>>

\* Another message for the session: isSessionStop decides whether it still has
\* its agents; if not, the entry is erased and the session never seen again.
Main_lookUp ==
  /\ mpc = "idle"
  /\ IF part.imsAgent = "null" /\ part.webAgent = "null"
     THEN mpc' = "reaped" /\ UNCHANGED blame
     ELSE \/ /\ mpc' = "use"
             /\ blame' = blame \cup
                  IF \E t \in Timers : timer[t].pc \in Firing THEN {"overlap"} ELSE {}
          \/ /\ mpc' = "delete"
             /\ blame' = blame \cup
                  (IF \E t \in Timers : timer[t].pc \in Firing THEN {"overlap"} ELSE {})
                  \cup (IF Answered THEN {} ELSE {"unanswered"})
  /\ UNCHANGED <<mk, stopId, memory, timerID, cnt, timer, workerVars, ub>>

\* A handler calls one part or another, and has then called all that it calls.
Main_use ==
  /\ mpc = "use"
  /\ \E p \in DOMAIN part :
       IF part[p] = "live"
       THEN mpc' = "idle" /\ UNCHANGED <<mk, stopId, memory, timerID, cnt, timer,
                                         workerVars, ub, blame>>
       ELSE Undefined(Bad(p)) /\ UNCHANGED blame

\* ~MediaSession: deleteSession first.
Main_delete ==
  /\ mpc = "delete"
  /\ \/ deleteFails(mk)
     \/ /\ deleteSession(mk)
        /\ IF mk = 8
           THEN mpc' = "test" /\ UNCHANGED mk
           ELSE mk' = mk + 1 /\ UNCHANGED mpc
        /\ UNCHANGED <<stopId, self, timerID, cnt, timer, pending, ub>>

\* Then stopTimer, whose first step looks for the timer in tpool.
Main_test ==
  /\ mpc = "test"
  /\ stopId' = timerID
  /\ mpc' = IF timerID # 0 /\ timer[timerID].pool THEN "deleteTs" ELSE "release"
  /\ UNCHANGED <<mk, memory, timerID, cnt, timer, workerVars, ub, blame>>

\* delete tpool[id], by whichever thread.
deleteTs(id) == timer' = [timer EXCEPT ![id].ts = IF timer[id].pool THEN "freed" ELSE @]

Main_deleteTs ==
  /\ mpc = "deleteTs"
  /\ IF timer[stopId].pool /\ timer[stopId].ts = "freed"
     THEN Undefined("doubleFree")
     ELSE /\ deleteTs(stopId)
          /\ mpc' = "clearPool"
          /\ UNCHANGED <<mk, stopId, memory, timerID, cnt, workerVars, ub>>
  /\ UNCHANGED blame

Main_clearPool ==
  /\ mpc = "clearPool"
  /\ timer' = [timer EXCEPT ![stopId].pool = FALSE]
  /\ mpc' = "cancel"
  /\ UNCHANGED <<mk, stopId, memory, timerID, cnt, workerVars, ub, blame>>

Main_cancel ==
  /\ mpc = "cancel"
  /\ timer' = [timer EXCEPT ![stopId].cancelled = TRUE]
  /\ mpc' = "join"
  /\ UNCHANGED <<mk, stopId, memory, timerID, cnt, workerVars, ub, blame>>

Main_join ==
  /\ mpc = "join"
  /\ timer[stopId].pc = "done"
  /\ mpc' = "release"
  /\ UNCHANGED <<mk, stopId, memory, timerID, cnt, timer, workerVars, ub, blame>>

\* The memory of the session is freed.
Main_release ==
  /\ mpc = "release"
  /\ self' = "deleted"
  /\ mpc' = "ended"
  /\ UNCHANGED <<mk, stopId, part, timerID, cnt, timer, workerVars, ub, blame>>

\* What the signalling thread does once it has begun.
Main_continue ==
  \/ Main_use \/ Main_delete \/ Main_test \/ Main_deleteTs \/ Main_clearPool
  \/ Main_cancel \/ Main_join \/ Main_release

Main == Main_answer \/ Main_lookUp \/ Main_continue

-----------------------------------------------------------------------------
(* The timer threads.                                                      *)

Others == <<mainVars, memory, timerID, cnt, workerVars, ub>>

\* A step of thread t from one control point to another.
Go(t, from, to) ==
  /\ timer[t].pc = from
  /\ timer' = [timer EXCEPT ![t].pc = to]

\* select returns: the period is over.
Timer_fire(t) ==
  /\ Go(t, "asleep", "fired")
  /\ blame' = IF mpc \in {"idle", "reaped", "ended"} THEN blame
                                                     ELSE blame \cup {"overlap"}
  /\ UNCHANGED Others

\* onTimeout reads its Ts, and calls checkMediaFlow.
Timer_readTs(t) ==
  /\ IF timer[t].ts = "live"
     THEN Go(t, "fired", "checkWeb") /\ UNCHANGED Others
     ELSE timer[t].pc = "fired" /\ Undefined("useAfterFree")
  /\ UNCHANGED blame

\* webAgent->gotPeriodData: no packet, or some.
Timer_checkWeb(t) ==
  /\ IF self = "live" /\ part.webAgent = "live"
     THEN /\ \/ Go(t, "checkWeb", "delete")
             \/ Go(t, "checkWeb", "checkIms")
          /\ UNCHANGED Others
     ELSE /\ timer[t].pc = "checkWeb"
          /\ Undefined(IF self = "live" THEN Bad("webAgent") ELSE "useAfterFree")
  /\ UNCHANGED blame

Timer_checkIms(t) ==
  /\ IF self = "live" /\ part.imsAgent = "live"
     THEN /\ \/ Go(t, "checkIms", "delete")
             \/ cnt < MaxTimers /\ Go(t, "checkIms", "rearm")
          /\ UNCHANGED Others
     ELSE /\ timer[t].pc = "checkIms"
          /\ Undefined(IF self = "live" THEN Bad("imsAgent") ELSE "useAfterFree")
  /\ UNCHANGED blame

Timer_delete(t) ==
  /\ timer[t].pc = "delete"
  /\ \/ self = "deleted" /\ Undefined("useAfterFree") /\ UNCHANGED blame
     \/ self = "live" /\ deleteFails(timer[t].k)
     \/ /\ self = "live"
        /\ deleteSession(timer[t].k)
        /\ timer' = IF timer[t].k = 8 THEN [timer EXCEPT ![t].pc = "finish"]
                                      ELSE [timer EXCEPT ![t].k = @ + 1]
        /\ UNCHANGED <<mainVars, self, timerID, cnt, pending, ub>>

\* setTimer: another thread, another entry of tpool.  The entry is made after the
\* thread has begun, which sleeps for its period before it looks at anything.
Timer_rearm(t) ==
  /\ timer[t].pc = "rearm"
  /\ cnt' = cnt + 1
  /\ timer' = [timer EXCEPT ![t].pc = "store", ![cnt + 1] = NewTimer]
  /\ UNCHANGED <<mainVars, memory, timerID, workerVars, ub, blame>>

\* Plausible bug: the id of the new timer is not kept.
Timer_storeNot(t) ==
  /\ Go(t, "store", "finish")
  /\ UNCHANGED <<Others, blame>>

\* The assignment to timerID of what setTimer returned.
Timer_store(t) ==
  /\ IF self = "live"
     THEN /\ Go(t, "store", "finish")
          /\ timerID' = cnt
          /\ UNCHANGED <<mainVars, memory, cnt, workerVars, ub>>
     ELSE /\ timer[t].pc = "store"
          /\ Undefined("useAfterFree")
  /\ UNCHANGED blame

\* Back in onTimeout: the Ts is deleted if tpool still has it.
Timer_finish(t) ==
  /\ Go(t, "finish", IF timer[t].pool THEN "free" ELSE "clear")
  /\ UNCHANGED <<Others, blame>>

Timer_free(t) ==
  /\ timer[t].pc = "free"
  /\ IF timer[t].pool /\ timer[t].ts = "freed"
     THEN Undefined("doubleFree")
     ELSE /\ timer' = [timer EXCEPT ![t].pc = "clear",
                         ![t].ts = IF timer[t].pool THEN "freed" ELSE @]
          /\ UNCHANGED Others
  /\ UNCHANGED blame

Timer_clear(t) ==
  /\ timer[t].pc = "clear"
  /\ timer' = [timer EXCEPT ![t].pc = "done", ![t].pool = FALSE]
  /\ UNCHANGED <<Others, blame>>

\* A cancelled thread ends wherever it is: its cancel type is asynchronous.
Timer_cancelled(t) ==
  /\ timer[t].cancelled
  /\ timer[t].pc \in Firing \cup {"asleep"}
  /\ timer' = [timer EXCEPT ![t].pc = "done"]
  /\ UNCHANGED <<Others, blame>>

TimerThread(t) ==
  \/ Timer_fire(t) \/ Timer_readTs(t) \/ Timer_checkWeb(t) \/ Timer_checkIms(t)
  \/ Timer_delete(t) \/ Timer_rearm(t) \/ Timer_store(t) \/ Timer_finish(t)
  \/ Timer_free(t) \/ Timer_clear(t) \/ Timer_cancelled(t)

-----------------------------------------------------------------------------
(* The workers.                                                            *)

\* A packet arrives.
Worker_packet(w) ==
  /\ worker[w] = "running"
  /\ pending[w] = <<>>
  /\ Cardinality(Busy) < MaxBusy
  /\ \E route \in Routes[w] : pending' = [pending EXCEPT ![w] = route]
  /\ blame' = IF \A p \in DOMAIN part : part[p] = "live"
              THEN blame ELSE blame \cup {"talking"}
  /\ UNCHANGED <<mainVars, memory, timerID, cnt, timer, worker, ub>>

\* The packet reaches the next part.
Worker_touch(w) ==
  /\ pending[w] # <<>>
  /\ IF part[Head(pending[w])] = "live"
     THEN /\ pending' = [pending EXCEPT ![w] = Tail(@)]
          /\ UNCHANGED <<mainVars, memory, timerID, cnt, timer, worker, ub>>
     ELSE Undefined("useAfterFree")
  /\ UNCHANGED blame

\* A worker that was cancelled with a packet in hand ends where it can be cancelled
\* next, unless it comes first to where it asks its Helper, or libnice its agent,
\* what to read from: they have been freed (helper.h:34).
Worker_cancelled(w) ==
  /\ worker[w] = "cancelled"
  /\ pending[w] = <<>>
  /\ \/ /\ worker' = [worker EXCEPT ![w] = "gone"]
        /\ UNCHANGED <<mainVars, memory, timerID, cnt, timer, pending, ub>>
     \/ Undefined("useAfterFree")
  /\ UNCHANGED blame

-----------------------------------------------------------------------------

Init ==
  /\ mpc = "idle" /\ mk = 1 /\ stopId = 0
  /\ part = [p \in Range(Parts) |-> "live"]
  /\ self = "live"
  /\ timerID = 0 /\ cnt = 0
  /\ timer = [t \in Timers |-> NoTimer]
  /\ worker = [w \in Workers |-> IF w \in Converters THEN "unstarted" ELSE "running"]
  /\ pending = [w \in Workers |-> <<>>]
  /\ ub = "none"
  /\ blame = {}

Defined == ub = "none"

Next ==
  /\ Defined
  /\ \/ Main
     \/ \E t \in Timers : TimerThread(t)
     \/ \E w \in Workers :
          Worker_packet(w) \/ Worker_touch(w) \/ Worker_cancelled(w)

Spec == Init /\ [][Next]_vars

\* The kernel runs every thread that can run; the SG need not send anything,
\* and packets need not come.
FairSpec ==
  /\ Spec
  /\ WF_vars(Defined /\ Main_continue)
  /\ \A t \in Timers : WF_vars(Defined /\ TimerThread(t))
  /\ \A w \in Workers : WF_vars(Defined /\ (Worker_touch(w) \/ Worker_cancelled(w)))

-----------------------------------------------------------------------------
(* Properties.                                                             *)

\* Nothing undefined happens to a session that is closed after its answer, while
\* no packet is on its way, and with no timer of its running out meanwhile; and
\* nothing is deleted twice unless a timer runs out while the signalling thread
\* is using or deleting the session.
UndefinedNeedsRace ==
  /\ ~Defined => blame # {}
  /\ ub = "doubleFree" => "overlap" \in blame

\* Without such an overlap, a session that has been deleted leaves nothing
\* behind: no part, no worker that still runs, no timer that is yet to run out.
AllReleased ==
  (mpc = "ended" /\ Defined /\ "overlap" \notin blame) =>
    /\ \A p \in DOMAIN part : part[p] = "null"
    /\ \A w \in Workers : worker[w] # "running"
    /\ \A t \in Timers : timer[t].ts # "live" /\ timer[t].pc \in {"none", "done"}

\* A session that isSessionStop reports as stopped, and that is then forgotten,
\* has no part left, in whatever step of deleteSession the timer is.
ReapedIsReleased ==
  mpc = "reaped" => \A p \in DOMAIN part : part[p] # "live"

\* Once the SG has closed a session, stopTimer returns and every worker ends.
ShutdownCompletes ==
  (mpc = "delete") ~>
    \/ ~Defined
    \/ mpc = "ended" /\ \A w \in Workers : worker[w] \in {"gone", "unstarted"}

\* helper.cpp:56: the sockets of a Helper are open when it is deleted, so it is
\* deleted once.
DeletedOnce == ub # "doubleFree"

==============================================================================
