---------------------------- MODULE TeardownProofs ----------------------------
(***************************************************************************)
(* The end of a session, for any number of timers and of workers that have  *)
(* a packet in hand.                                                       *)
(***************************************************************************)
EXTENDS Teardown, SequenceTheorems, TLAPS

-----------------------------------------------------------------------------
(* The invariant.                                                          *)

\* The parts when the next step of the one deleteSession there has been is its
\* k-th: four deletes, then four assignments of NULL.
Staged(p, k) == \A i \in 1 .. 4 :
  p[Parts[i]] = IF i >= k THEN "live" ELSE IF i + 5 > k THEN "dangling" ELSE "null"

Stage(k) == Staged(part, k)

Early == {"asleep", "fired", "checkWeb", "checkIms", "rearm"}
Late  == {"finish", "free", "clear", "done"}

TypeOK ==
  /\ mpc \in {"idle", "use", "reaped", "delete", "test", "deleteTs", "clearPool",
              "cancel", "join", "release", "ended"}
  /\ mk \in 1 .. 8
  /\ stopId \in 0 .. MaxTimers
  /\ part \in [Range(Parts) -> {"live", "dangling", "null"}]
  /\ self \in {"live", "deleted"}
  /\ timerID \in 0 .. MaxTimers /\ cnt \in 0 .. MaxTimers
  /\ timer \in [Timers -> Timer]
  /\ worker \in [Workers -> {"unstarted", "running", "cancelled", "gone"}]
  /\ pending \in [Workers -> Seq(Range(Parts))]

\* The signalling thread has not begun to delete the session.
Untouched == mpc \in {"idle", "use", "reaped"}

NoOverlap == "overlap" \notin blame

\* The Ts of the timer x is there, and tpool leads to it; it has been deleted;
\* the entry of tpool has been cleared too.
Whole(x) == x.pool /\ x.ts = "live"
Freed(x) == x.pool /\ x.ts = "freed"
Gone(x)  == ~x.pool /\ x.ts = "freed"

\* Timers are set one after the other.  All but the last have done with the
\* session, apart from storing the id of the next.
Queue ==
  /\ \A t \in Timers : t > cnt => timer[t] = NoTimer
  /\ \A t \in Timers : t <= cnt => timer[t].pc # "none"
  /\ \A t \in Timers : t = cnt => timer[t].pc # "store"
  /\ \A t \in Timers : t < cnt => timer[t].pc \in Late \cup {"store"}
  /\ \A t \in Timers : timer[t].pc = "rearm" => cnt < MaxTimers
  /\ \A t \in Timers : timer[t].pc \in Early => timer[t].k = 1
  /\ \A t \in Timers : timer[t].cancelled => mpc \in {"join", "release", "ended"}
  /\ cnt > 0 => Answered
  /\ \A w \in Workers \ Converters : worker[w] # "unstarted"
  /\ timerID <= cnt /\ stopId <= cnt
  /\ mpc \in {"deleteTs", "clearPool", "cancel", "join"} => stopId > 0

\* Until the signalling thread deletes the session, only the last timer does, and
\* the Ts of each timer is there until it deletes that itself.
OneDeleter ==
  Untouched =>
    /\ mk = 1
    /\ cnt = 0 => Stage(1)
    /\ \A t \in Timers : t = cnt =>
         /\ timer[t].pc \in Early => Stage(1)
         /\ timer[t].pc = "delete" => Stage(timer[t].k)
         /\ timer[t].pc \in Late => Stage(9)
    /\ \A t \in Timers : t <= cnt =>
         /\ timer[t].pc \notin {"clear", "done"} => Whole(timer[t])
         /\ timer[t].pc = "clear" => Freed(timer[t])
         /\ timer[t].pc = "done" => Gone(timer[t])
    /\ (\A t \in Timers : timer[t].pc # "store") => timerID = cnt

\* If no timer runs out while the signalling thread uses or deletes the session,
\* that thread finds it whole, and the last timer asleep or all timers done.
Alone ==
  NoOverlap =>
    /\ mpc = "use" => Stage(1) /\ \A t \in Timers : timer[t].pc \notin Firing
    /\ ~Untouched =>
         /\ mpc = "delete" => Stage(mk)
         /\ mpc # "delete" => Stage(9)
         /\ timerID = cnt
         /\ \A t \in Timers : t < cnt => timer[t].pc = "done" /\ Gone(timer[t])
         /\ mpc \in {"delete", "test"} => \A t \in Timers : t = cnt =>
              \/ timer[t].pc = "asleep" /\ Whole(timer[t])
              \/ timer[t].pc = "done" /\ Gone(timer[t])
         /\ mpc \in {"deleteTs", "clearPool", "cancel", "join"} =>
              stopId = cnt /\ cnt > 0
         /\ \A t \in Timers : t = cnt =>
              /\ mpc = "deleteTs" => timer[t].pc = "asleep" /\ Whole(timer[t])
              /\ mpc = "clearPool" => timer[t].pc = "asleep" /\ Freed(timer[t])
              /\ mpc = "cancel" => timer[t].pc = "asleep" /\ Gone(timer[t])
              /\ mpc = "join" => timer[t].pc \in {"asleep", "done"} /\ Gone(timer[t])
              /\ mpc \in {"release", "ended"} => timer[t].pc = "done" /\ Gone(timer[t])
    /\ \A w \in Workers : worker[w] = "running" => part[Owner[w]] = "live"

\* The session is there until it is released, and the signalling thread deletes
\* one that has not been answered only with blame; so does whoever deletes a part
\* while a packet is in hand, which is how a worker comes to be cancelled with one.
Blamed ==
  /\ self = "deleted" => mpc = "ended"
  /\ ~Untouched => Answered \/ "unanswered" \in blame
  /\ blame = {} => Busy = {} \/ Stage(1)
  /\ blame = {} => \A w \in Workers : worker[w] # "cancelled"

IInv == TypeOK /\ Queue /\ OneDeleter /\ Alone /\ Blamed
        /\ UndefinedNeedsRace /\ ReapedIsReleased
-----------------------------------------------------------------------------
(* The constants.                                                          *)

PartNames == {"webAgent", "imsAgent", "imsToWebCC", "webToImsCC"}

LEMMA PartsAre ==
  /\ Parts[1] = "webAgent" /\ Parts[2] = "imsAgent"
  /\ Parts[3] = "imsToWebCC" /\ Parts[4] = "webToImsCC"
  /\ Range(Parts) = PartNames
  <1>1. /\ Parts[1] = "webAgent" /\ Parts[2] = "imsAgent"
        /\ Parts[3] = "imsToWebCC" /\ Parts[4] = "webToImsCC"
    BY DEF Parts
  <1>2. DOMAIN Parts = 1 .. 4
    BY DEF Parts
  <1>3. \A i \in 1 .. 4 : i = 1 \/ i = 2 \/ i = 3 \/ i = 4
    OBVIOUS
  <1>4. Range(Parts) = PartNames
    BY <1>1, <1>2, <1>3 DEF Range, PartNames
  <1>5. QED
    BY <1>1, <1>4

LEMMA OwnersAre ==
  /\ Workers = {"ice", "video", "audio", "toWeb", "toIms"}
  /\ Converters \subseteq Workers
  /\ \A w \in Workers : Owner[w] \in PartNames
  <1>1. Workers = {"ice", "video", "audio", "toWeb", "toIms"}
    BY DEF Workers, Owner
  <1>2. /\ Owner["ice"] = "webAgent" /\ Owner["video"] = "imsAgent"
        /\ Owner["audio"] = "imsAgent" /\ Owner["toWeb"] = "imsToWebCC"
        /\ Owner["toIms"] = "webToImsCC"
    BY DEF Owner
  <1>3. QED
    BY <1>1, <1>2 DEF Converters, PartNames

\* The steps of deleteSession.
LEMMA DeletionIs ==
  ASSUME NEW k \in 1 .. 8
  PROVE  \/ /\ k <= 4 /\ deletion(k).op = "delete" /\ deletion(k).part = Parts[k]
         \/ /\ k > 4 /\ deletion(k).op = "clear" /\ deletion(k).part = Parts[k - 4]
  BY DEF deletion

LEMMA RouteType ==
  ASSUME NEW w \in Workers, NEW route \in Routes[w]
  PROVE  route \in Seq(PartNames)
  <1>1. /\ <<"webAgent", "imsAgent">> \in Seq(PartNames)
        /\ <<"webAgent", "webToImsCC">> \in Seq(PartNames)
        /\ <<"imsAgent", "imsToWebCC">> \in Seq(PartNames)
        /\ <<"imsAgent", "webAgent">> \in Seq(PartNames)
        /\ <<"webAgent">> \in Seq(PartNames) /\ <<"imsAgent">> \in Seq(PartNames)
    <2>1. /\ "webAgent" \in PartNames /\ "imsAgent" \in PartNames
          /\ "imsToWebCC" \in PartNames /\ "webToImsCC" \in PartNames
      BY DEF PartNames
    <2> HIDE DEF PartNames
    <2>2. QED
      BY <2>1
  <1>2. /\ Routes["ice"] = {<<"webAgent", "imsAgent">>, <<"webAgent", "webToImsCC">>}
        /\ Routes["video"] = {<<"imsAgent", "imsToWebCC">>}
        /\ Routes["audio"] = {<<"imsAgent", "webAgent">>}
        /\ Routes["toWeb"] = {<<"webAgent">>} /\ Routes["toIms"] = {<<"imsAgent">>}
    BY DEF Routes
  <1>3. w \in {"ice", "video", "audio", "toWeb", "toIms"}
    BY OwnersAre
  <1>4. QED
    BY <1>1, <1>2, <1>3

\* The stages, in terms of the parts.
LEMMA StageIs ==
  ASSUME TypeOK
  PROVE  /\ Stage(1) <=> \A p \in PartNames : part[p] = "live"
         /\ Stage(9) <=> \A p \in PartNames : part[p] = "null"
         /\ \A k \in 1 .. 9 : Stage(k) /\ part["imsAgent"] = "null" =>
              \A p \in PartNames : part[p] # "live"
  <1>1. \A i \in 1 .. 4 : i = 1 \/ i = 2 \/ i = 3 \/ i = 4
    OBVIOUS
  <1>2. \A k \in 1 .. 9 : Stage(k) <=>
          /\ part["webAgent"] = IF 1 >= k THEN "live"
                                ELSE IF 6 > k THEN "dangling" ELSE "null"
          /\ part["imsAgent"] = IF 2 >= k THEN "live"
                                ELSE IF 7 > k THEN "dangling" ELSE "null"
          /\ part["imsToWebCC"] = IF 3 >= k THEN "live"
                                  ELSE IF 8 > k THEN "dangling" ELSE "null"
          /\ part["webToImsCC"] = IF 4 >= k THEN "live"
                                  ELSE IF 9 > k THEN "dangling" ELSE "null"
    BY <1>1, PartsAre DEF Stage, Staged
  <1>3. Stage(1) <=> \A p \in PartNames : part[p] = "live"
    BY <1>2 DEF PartNames
  <1>4. Stage(9) <=> \A p \in PartNames : part[p] = "null"
    BY <1>2 DEF PartNames
  <1>5. \A k \in 1 .. 9 : Stage(k) /\ part["imsAgent"] = "null" =>
              \A p \in PartNames : part[p] # "live"
    BY <1>2 DEF PartNames
  <1>6. QED
    BY <1>3, <1>4, <1>5

\* What a step of deleteSession does to the parts and to the workers.
LEMMA DeletionStep ==
  ASSUME TypeOK, NEW k \in 1 .. 8, deleteSession(k)
  PROVE  /\ part' \in [Range(Parts) -> {"live", "dangling", "null"}]
         /\ worker' \in [Workers -> {"unstarted", "running", "cancelled", "gone"}]
         /\ \A p \in PartNames : part'[p] = "live" => part[p] = "live"
         /\ \A w \in Workers : \/ worker'[w] = worker[w]
                               \/ /\ worker[w] = "running"
                                  /\ worker'[w] \in {"cancelled", "gone"}
         /\ blame' = {} => \A w \in Workers :
              worker'[w] = "cancelled" => worker[w] = "cancelled"
         /\ Stage(k) => Stage(k + 1)'
         /\ /\ Stage(k)
            /\ \A w \in Workers : worker[w] = "running" => part[Owner[w]] = "live"
            => \A w \in Workers : worker'[w] = "running" => part'[Owner[w]] = "live"
         /\ blame \subseteq blame' /\ blame' \subseteq blame \cup {"talking"}
         /\ Stage(k) /\ blame' = {} /\ (Busy = {} \/ Stage(1)) => Busy = {}
  <1> DEFINE p == deletion(k).part
             parts == part'
  <1>1. p \in PartNames /\ \A i \in 1 .. 4 : i = 1 \/ i = 2 \/ i = 3 \/ i = 4
    BY DeletionIs, PartsAre DEF PartNames
  <1>2. part \in [PartNames -> {"live", "dangling", "null"}]
    BY PartsAre DEF TypeOK
  <1>3. \A i \in 1 .. 4, j \in 1 .. 4 : Parts[i] = Parts[j] => i = j
    BY <1>1, PartsAre
  <1>4. \A i \in 1 .. 4 : Parts[i] \in PartNames
    BY <1>1, PartsAre DEF PartNames
  <1>5. CASE deletion(k).op = "clear"
    <2>1. /\ part' = [part EXCEPT ![p] = "null"]
          /\ UNCHANGED <<worker, blame>>
          /\ k > 4 /\ p = Parts[k - 4] /\ k - 4 \in 1 .. 4
      BY <1>5, DeletionIs DEF deleteSession
    <2>2. \A n \in PartNames : part'[n] = IF n = p THEN "null" ELSE part[n]
      BY <1>2, <2>1
    <2>3. Stage(k) => Stage(k + 1)'
      BY <1>1, <1>3, <1>4, <2>1, <2>2 DEF Stage, Staged
    <2>4. Stage(k) => part[p] # "live"
      BY <2>1 DEF Stage, Staged
    <2>5. ASSUME Stage(k)
          PROVE  Busy = {} \/ ~Stage(1)
      <3>1. part["webAgent"] # "live"
        BY <1>1, <2>1, <2>5, PartsAre DEF Stage, Staged
      <3>2. QED
        BY <3>1, StageIs DEF PartNames
    <2>6. /\ part' \in [Range(Parts) -> {"live", "dangling", "null"}]
          /\ \A n \in PartNames : part'[n] = "live" => part[n] = "live"
      BY <1>2, <2>1, <2>2, PartsAre
    <2>7. ASSUME Stage(k), NEW w \in Workers, worker[w] = "running",
                 part[Owner[w]] = "live"
          PROVE  part'[Owner[w]] = "live"
      BY <2>2, <2>4, <2>7, OwnersAre
    <2>8. QED
      BY <2>1, <2>3, <2>5, <2>6, <2>7 DEF TypeOK
  <1>6. CASE deletion(k).op = "delete"
    <2>1. /\ \/ part[p] = "live" /\ destroyPart(p)
             \/ part[p] = "null" /\ UNCHANGED <<part, worker>>
          /\ blame' = IF Busy # {} THEN blame \cup {"talking"} ELSE blame
          /\ k <= 4 /\ p = Parts[k] /\ k \in 1 .. 4
      BY <1>6, DeletionIs DEF deleteSession
    <2>2. /\ blame \subseteq blame' /\ blame' \subseteq blame \cup {"talking"}
          /\ blame' = {} => Busy = {}
      BY <2>1
    <2>3. CASE part[p] = "null" /\ UNCHANGED <<part, worker>>
      <3>1. ~Stage(k)
        BY <2>1, <2>3 DEF Stage, Staged
      <3>2. QED
        BY <2>2, <2>3, <3>1 DEF TypeOK
    <2>4. CASE part[p] = "live" /\ destroyPart(p)
      <3>1. \A n \in PartNames : part'[n] = IF n = p THEN "dangling" ELSE part[n]
        BY <1>2, <2>4 DEF destroyPart
      <3>2. \A w \in Workers : worker'[w] =
              IF Owner[w] = p /\ worker[w] = "running"
              THEN IF pending[w] = <<>> THEN "gone" ELSE "cancelled"
              ELSE worker[w]
        BY <2>4 DEF destroyPart
      <3>3. /\ part' \in [Range(Parts) -> {"live", "dangling", "null"}]
            /\ \A n \in PartNames : part'[n] = "live" => part[n] = "live"
        BY <1>2, <2>4, <3>1, PartsAre DEF destroyPart
      <3>4. worker' \in [Workers -> {"unstarted", "running", "cancelled", "gone"}]
        BY <2>4, <3>2 DEF destroyPart, TypeOK
      <3>5. Stage(k) => Stage(k + 1)'
        <4>1. SUFFICES ASSUME Stage(k), NEW i \in 1 .. 4
                       PROVE  part'[Parts[i]] =
                                IF i >= k + 1 THEN "live"
                                ELSE IF i + 5 > k + 1 THEN "dangling" ELSE "null"
          BY DEF Stage, Staged
        <4>2. part[Parts[i]] = IF i >= k THEN "live"
                               ELSE IF i + 5 > k THEN "dangling" ELSE "null"
          BY <4>1 DEF Stage, Staged
        <4>3. i = k \/ i >= k + 1 \/ (i < k /\ i + 5 > k + 1)
          BY <2>1
        <4>4. CASE i = k
          BY <1>4, <2>1, <3>1, <4>4
        <4>5. CASE i # k
          <5>1. part'[Parts[i]] = part[Parts[i]]
            BY <1>3, <1>4, <2>1, <3>1, <4>5
          <5>2. QED
            BY <2>1, <4>2, <4>3, <4>5, <5>1
        <4>6. QED
          BY <4>4, <4>5
      <3>6. ASSUME NEW w \in Workers, worker'[w] = "running",
                   worker[w] = "running" => part[Owner[w]] = "live"
            PROVE  part'[Owner[w]] = "live"
        BY <3>1, <3>2, <3>6, OwnersAre
      <3>7. \A w \in Workers : \/ worker'[w] = worker[w]
                                \/ /\ worker[w] = "running"
                                   /\ worker'[w] \in {"cancelled", "gone"}
        BY <3>2
      <3>8. blame' = {} => \A w \in Workers :
              worker'[w] = "cancelled" => worker[w] = "cancelled"
        BY <2>2, <3>2 DEF Busy
      <3>9. QED
        BY <2>2, <3>3, <3>4, <3>5, <3>6, <3>7, <3>8
    <2>5. QED
      BY <2>1, <2>3, <2>4
  <1>7. QED
    BY <1>5, <1>6, DeletionIs

\* Where a step of deleteSession is undefined, the stage is not its own, or the
\* session has not been answered.
LEMMA DeletionFails ==
  ASSUME TypeOK, NEW k \in 1 .. 8, deleteFails(k),
         \A w \in Workers \ Converters : worker[w] # "unstarted"
  PROVE  /\ ub' \in {"doubleFree", "cancelZero"}
         /\ ub' = "doubleFree" => ~Stage(k)
         /\ ub' = "cancelZero" => ~Answered
         /\ UNCHANGED <<mainVars, memory, timerID, cnt, timer, workerVars, blame>>
  <1> DEFINE p == deletion(k).part
  <1>1. /\ k <= 4 /\ p = Parts[k] /\ k \in 1 .. 4
        /\ UNCHANGED <<mainVars, memory, timerID, cnt, timer, workerVars, blame>>
    BY DeletionIs DEF deleteFails, Undefined
  <1>2. CASE part[p] = "dangling" /\ ub' = "doubleFree"
    BY <1>1, <1>2 DEF Stage, Staged
  <1>3. CASE /\ \E w \in Workers : Owner[w] = p /\ worker[w] = "unstarted"
             /\ ub' = "cancelZero"
    BY <1>1, <1>3 DEF Answered
  <1>4. QED
    BY <1>2, <1>3 DEF deleteFails, Undefined
-----------------------------------------------------------------------------
(* The types.                                                              *)

\* How the record of one timer changes, and that of no other.
Becomes(t, x) ==
  /\ timer' \in [Timers -> Timer]
  /\ timer'[t] = x
  /\ \A u \in Timers : u # t => timer'[u] = timer[u]

\* One timer goes from a control point to another.
Moves(t, from, to) ==
  /\ timer[t].pc = from /\ timer'[t].pc = to
  /\ timer'[t].k = timer[t].k /\ timer'[t].ts = timer[t].ts
  /\ timer'[t].pool = timer[t].pool /\ timer'[t].cancelled = timer[t].cancelled
  /\ timer' \in [Timers -> Timer]
  /\ \A u \in Timers : u # t => timer'[u] = timer[u]

LEMMA OneTimer ==
  ASSUME TypeOK, NEW t \in Timers, NEW x \in Timer,
         timer' = [timer EXCEPT ![t] = x]
  PROVE  Becomes(t, x)
  BY DEF TypeOK, Becomes

LEMMA GoMoves ==
  ASSUME TypeOK, NEW t \in Timers, NEW from,
         NEW to \in Firing \cup {"none", "asleep", "done"}, Go(t, from, to)
  PROVE  Moves(t, from, to)
  <1> DEFINE x == [timer[t] EXCEPT !.pc = to]
  <1>1. timer[t] \in Timer /\ timer[t].pc = from
    BY DEF TypeOK, Go
  <1>2. /\ x \in Timer /\ x.pc = to /\ x.k = timer[t].k /\ x.ts = timer[t].ts
        /\ x.pool = timer[t].pool /\ x.cancelled = timer[t].cancelled
    BY <1>1 DEF Timer
  <1>3. timer' = [timer EXCEPT ![t] = x]
    BY DEF Go
  <1> HIDE DEF x
  <1>4. Becomes(t, x)
    BY <1>2, <1>3, OneTimer
  <1>5. QED
    BY <1>1, <1>2, <1>4 DEF Moves, Becomes

\* What the other changes of a timer come to.
LEMMA TsDeleted ==
  ASSUME TypeOK, NEW t \in Timers, deleteTs(t)
  PROVE  Becomes(t, [timer[t] EXCEPT !.ts = IF timer[t].pool THEN "freed" ELSE @])
  <1> DEFINE x == [timer[t] EXCEPT !.ts = IF timer[t].pool THEN "freed" ELSE @]
  <1>1. x \in Timer
    <2>1. timer[t] \in Timer
      BY DEF TypeOK
    <2>2. QED
      BY <2>1 DEF Timer
  <1>2. timer' = [timer EXCEPT ![t] = x]
    BY DEF deleteTs
  <1> HIDE DEF x
  <1>3. Becomes(t, x)
    BY <1>1, <1>2, OneTimer
  <1>4. QED
    BY <1>3 DEF x

LEMMA FreeBecomes ==
  ASSUME TypeOK, NEW t \in Timers,
         timer' = [timer EXCEPT ![t].pc = "clear",
                     ![t].ts = IF timer[t].pool THEN "freed" ELSE @]
  PROVE  Becomes(t, [timer[t] EXCEPT !.pc = "clear",
                       !.ts = IF timer[t].pool THEN "freed" ELSE @])
  <1> DEFINE x == [timer[t] EXCEPT !.pc = "clear",
                     !.ts = IF timer[t].pool THEN "freed" ELSE @]
  <1>1. x \in Timer
    <2>1. timer[t] \in Timer
      BY DEF TypeOK
    <2>2. QED
      BY <2>1 DEF Timer, Firing
  <1>2. timer' = [timer EXCEPT ![t] = x]
    BY DEF TypeOK
  <1> HIDE DEF x
  <1>3. Becomes(t, x)
    BY <1>1, <1>2, OneTimer
  <1>4. QED
    BY <1>3 DEF x

LEMMA ClearBecomes ==
  ASSUME TypeOK, NEW t \in Timers,
         timer' = [timer EXCEPT ![t].pc = "done", ![t].pool = FALSE]
  PROVE  Becomes(t, [timer[t] EXCEPT !.pc = "done", !.pool = FALSE])
  <1> DEFINE x == [timer[t] EXCEPT !.pc = "done", !.pool = FALSE]
  <1>1. x \in Timer
    <2>1. timer[t] \in Timer
      BY DEF TypeOK
    <2>2. QED
      BY <2>1 DEF Timer, Firing
  <1>2. timer' = [timer EXCEPT ![t] = x]
    BY DEF TypeOK
  <1> HIDE DEF x
  <1>3. Becomes(t, x)
    BY <1>1, <1>2, OneTimer
  <1>4. QED
    BY <1>3 DEF x

LEMMA PoolCleared ==
  ASSUME TypeOK, NEW t \in Timers, timer' = [timer EXCEPT ![t].pool = FALSE]
  PROVE  Becomes(t, [timer[t] EXCEPT !.pool = FALSE])
  <1> DEFINE x == [timer[t] EXCEPT !.pool = FALSE]
  <1>1. x \in Timer
    <2>1. timer[t] \in Timer
      BY DEF TypeOK
    <2>2. QED
      BY <2>1 DEF Timer
  <1> HIDE DEF x
  <1>2. Becomes(t, x)
    BY <1>1, OneTimer DEF x
  <1>3. QED
    BY <1>2 DEF x

LEMMA CancelBecomes ==
  ASSUME TypeOK, NEW t \in Timers, timer' = [timer EXCEPT ![t].cancelled = TRUE]
  PROVE  Becomes(t, [timer[t] EXCEPT !.cancelled = TRUE])
  <1> DEFINE x == [timer[t] EXCEPT !.cancelled = TRUE]
  <1>1. x \in Timer
    <2>1. timer[t] \in Timer
      BY DEF TypeOK
    <2>2. QED
      BY <2>1 DEF Timer
  <1> HIDE DEF x
  <1>2. Becomes(t, x)
    BY <1>1, OneTimer DEF x
  <1>3. QED
    BY <1>2 DEF x

LEMMA StepBecomes ==
  ASSUME TypeOK, NEW t \in Timers, timer[t].k # 8,
         timer' = [timer EXCEPT ![t].k = @ + 1]
  PROVE  Becomes(t, [timer[t] EXCEPT !.k = timer[t].k + 1])
  <1> DEFINE n == timer[t].k + 1
             x == [timer[t] EXCEPT !.k = n]
  <1>1. n \in 1 .. 8 /\ timer[t] \in Timer
    BY DEF TypeOK, Timer
  <1>2. timer' = [timer EXCEPT ![t] = x]
    OBVIOUS
  <1> HIDE DEF n
  <1>3. x \in Timer
    BY <1>1 DEF Timer
  <1> HIDE DEF x
  <1>4. Becomes(t, x)
    BY <1>2, <1>3, OneTimer
  <1>5. QED
    BY <1>4 DEF x, n

LEMMA NewTimerType ==
  /\ NewTimer \in Timer /\ NewTimer.pc = "asleep" /\ NewTimer.k = 1
  /\ NewTimer.ts = "live" /\ NewTimer.pool = TRUE /\ NewTimer.cancelled = FALSE
  <1> DEFINE a == [NoTimer EXCEPT !.pc = "asleep"]
             b == [a EXCEPT !.ts = "live"]
             c == [b EXCEPT !.pool = TRUE]
  <1>1. NoTimer \in Timer /\ NoTimer.k = 1 /\ NoTimer.cancelled = FALSE
    BY DEF NoTimer, Timer
  <1>2. a \in Timer /\ a.pc = "asleep" /\ a.k = 1 /\ a.cancelled = FALSE
    BY <1>1 DEF Timer
  <1>3. NewTimer = c
    BY DEF NewTimer
  <1> HIDE DEF a
  <1>4. /\ b \in Timer /\ b.pc = "asleep" /\ b.k = 1 /\ b.ts = "live"
        /\ b.cancelled = FALSE
    BY <1>2 DEF Timer
  <1> HIDE DEF b
  <1>5. /\ c \in Timer /\ c.pc = "asleep" /\ c.k = 1 /\ c.ts = "live"
        /\ c.pool = TRUE /\ c.cancelled = FALSE
    BY <1>4 DEF Timer
  <1> HIDE DEF c
  <1>6. QED
    BY <1>3, <1>5

LEMMA RearmBecomes ==
  ASSUME TypeOK, NEW t \in Timers, t # cnt + 1, cnt + 1 \in Timers, timer[t].pc = "rearm",
         timer' = [timer EXCEPT ![t].pc = "store", ![cnt + 1] = NewTimer]
  PROVE  /\ timer' \in [Timers -> Timer]
         /\ timer'[t] = [timer[t] EXCEPT !.pc = "store"]
         /\ timer'[cnt + 1] = NewTimer
         /\ \A u \in Timers : u # t /\ u # cnt + 1 => timer'[u] = timer[u]
  <1> DEFINE x == [timer[t] EXCEPT !.pc = "store"]
  <1>1. x \in Timer
    <2>1. timer[t] \in Timer
      BY DEF TypeOK
    <2>2. QED
      BY <2>1 DEF Timer, Firing
  <1>2. timer' = [[timer EXCEPT ![t] = x] EXCEPT ![cnt + 1] = NewTimer]
    OBVIOUS
  <1> HIDE DEF x
  <1>3. QED
    BY <1>1, <1>2, NewTimerType DEF TypeOK, x

LEMMA TypeInit == Init => TypeOK
  <1> SUFFICES ASSUME Init PROVE TypeOK
    OBVIOUS
  <1>1. NoTimer \in Timer
    BY DEF NoTimer, Timer
  <1>2. timer \in [Timers -> Timer]
    BY <1>1 DEF Init
  <1>3. pending \in [Workers -> Seq(Range(Parts))]
    BY DEF Init
  <1>4. 0 \in 0 .. MaxTimers
    BY TeardownAssumption
  <1>5. QED
    BY <1>2, <1>3, <1>4 DEF Init, TypeOK

LEMMA UndefinedType ==
  ASSUME TypeOK, NEW kind, Undefined(kind)
  PROVE  TypeOK'
  <1>1. UNCHANGED <<mainVars, memory, timerID, cnt, timer, workerVars>>
    BY DEF Undefined
  <1>2. QED
    BY <1>1 DEF TypeOK, mainVars, memory, workerVars

LEMMA StopIdType ==
  ASSUME TypeOK, Queue, mpc \in {"deleteTs", "clearPool", "cancel", "join"}
  PROVE  stopId \in Timers
  BY DEF TypeOK, Queue, Timers

LEMMA TypeMain ==
  ASSUME TypeOK, Queue, Main
  PROVE  TypeOK'
  <1>1. CASE Main_answer
    <2>1. 1 \in Timers /\ 1 \in 0 .. MaxTimers
      BY TeardownAssumption DEF Timers
    <2>2. timer' \in [Timers -> Timer]
      BY <1>1, <2>1, NewTimerType, OneTimer DEF Main_answer, Becomes
    <2>3. worker' \in [Workers -> {"unstarted", "running", "cancelled", "gone"}]
      BY <1>1 DEF Main_answer, TypeOK
    <2>4. /\ UNCHANGED <<mainVars, memory, pending>>
          /\ cnt' = 1 /\ timerID' = 1
      BY <1>1 DEF Main_answer
    <2>5. QED
      BY <2>1, <2>2, <2>3, <2>4 DEF TypeOK, mainVars, memory
  <1>2. CASE Main_lookUp
    BY <1>2 DEF Main_lookUp, TypeOK, memory, workerVars
  <1>3. CASE Main_use
    <2>1. CASE \E p \in DOMAIN part : Undefined(Bad(p))
      BY <2>1, UndefinedType
    <2>2. CASE ~(\E p \in DOMAIN part : Undefined(Bad(p)))
      BY <1>3, <2>2 DEF Main_use, TypeOK, memory, workerVars
    <2>3. QED
      BY <2>1, <2>2
  <1>4. CASE Main_delete
    <2>1. CASE deleteFails(mk)
      BY <2>1, UndefinedType DEF deleteFails
    <2>2. CASE ~deleteFails(mk)
      <3>1. deleteSession(mk) /\ mk \in 1 .. 8
        BY <1>4, <2>2 DEF Main_delete, TypeOK
      <3>2. /\ part' \in [Range(Parts) -> {"live", "dangling", "null"}]
            /\ worker' \in [Workers -> {"unstarted", "running", "cancelled", "gone"}]
        BY <3>1, DeletionStep
      <3>3. /\ mpc' \in {"delete", "test"} /\ mk' \in 1 .. 8
            /\ UNCHANGED <<stopId, self, timerID, cnt, timer, pending>>
        BY <1>4, <2>2, <3>1 DEF Main_delete
      <3>4. QED
        BY <3>2, <3>3 DEF TypeOK
    <2>3. QED
      BY <2>1, <2>2
  <1>5. CASE Main_test
    BY <1>5 DEF Main_test, TypeOK, memory, workerVars
  <1>6. CASE Main_deleteTs
    <2>1. CASE Undefined("doubleFree")
      BY <2>1, UndefinedType
    <2>2. CASE ~Undefined("doubleFree")
      <3>1. /\ deleteTs(stopId) /\ mpc' = "clearPool"
            /\ UNCHANGED <<mk, stopId, memory, timerID, cnt, workerVars>>
        BY <1>6, <2>2 DEF Main_deleteTs
      <3>2. timer' \in [Timers -> Timer]
        BY <1>6, <3>1, StopIdType, TsDeleted DEF Main_deleteTs, Becomes
      <3>3. QED
        BY <3>1, <3>2 DEF TypeOK, memory, workerVars
    <2>3. QED
      BY <2>1, <2>2
  <1>7. CASE Main_clearPool
    <2>1. timer' \in [Timers -> Timer]
      BY <1>7, StopIdType, PoolCleared DEF Main_clearPool, Becomes
    <2>2. QED
      BY <1>7, <2>1 DEF Main_clearPool, TypeOK, memory, workerVars
  <1>8. CASE Main_cancel
    <2>1. timer' \in [Timers -> Timer]
      BY <1>8, StopIdType, CancelBecomes DEF Main_cancel, Becomes
    <2>2. QED
      BY <1>8, <2>1 DEF Main_cancel, TypeOK, memory, workerVars
  <1>9. CASE Main_join
    BY <1>9 DEF Main_join, TypeOK, memory, workerVars
  <1>10. CASE Main_release
    BY <1>10 DEF Main_release, TypeOK, memory, workerVars
  <1>11. QED
    BY <1>1, <1>2, <1>3, <1>4, <1>5, <1>6, <1>7, <1>8, <1>9, <1>10
       DEF Main, Main_continue

\* There is room for the timer that is set next.
LEMMA NewIsNext ==
  ASSUME TypeOK, Queue, NEW t \in Timers, timer[t].pc = "rearm"
  PROVE  /\ cnt + 1 \in Timers /\ t # cnt + 1 /\ t = cnt
         /\ \A u \in Timers : u > cnt => timer[u] = NoTimer
  <1>1. cnt < MaxTimers /\ cnt \in 0 .. MaxTimers /\ t \in Int
    BY DEF TypeOK, Queue, Timers
  <1>2. t <= cnt
    <2>1. t > cnt => timer[t] = NoTimer
      BY DEF Queue
    <2>2. NoTimer.pc = "none"
      BY DEF NoTimer
    <2>3. QED
      BY <1>1, <2>1, <2>2
  <1>3. ~(t < cnt)
    BY DEF Queue, Late
  <1>4. QED
    BY <1>1, <1>2, <1>3, TeardownAssumption DEF Queue, Timers

LEMMA TypeTimer ==
  ASSUME TypeOK, Queue, NEW t \in Timers, TimerThread(t)
  PROVE  TypeOK'
  <1>1. ASSUME NEW kind, Undefined(kind) PROVE TypeOK'
    BY <1>1, UndefinedType
  <1>2. ASSUME NEW from, NEW to \in Firing \cup {"asleep", "done"}, Go(t, from, to),
               UNCHANGED Others
        PROVE  TypeOK'
    <2>1. timer' \in [Timers -> Timer]
      BY <1>2, GoMoves DEF Moves
    <2>2. QED
      BY <1>2, <2>1 DEF TypeOK, Others, mainVars, memory, workerVars
  <1>3. CASE Timer_fire(t)
    BY <1>2, <1>3 DEF Timer_fire, Firing
  <1>4. CASE Timer_readTs(t)
    BY <1>1, <1>2, <1>4 DEF Timer_readTs, Firing
  <1>5. CASE Timer_checkWeb(t)
    BY <1>1, <1>2, <1>5 DEF Timer_checkWeb, Firing
  <1>6. CASE Timer_checkIms(t)
    BY <1>1, <1>2, <1>6 DEF Timer_checkIms, Firing
  <1>7. CASE Timer_delete(t)
    <2>1. CASE deleteFails(timer[t].k) \/ Undefined("useAfterFree")
      BY <1>1, <2>1 DEF deleteFails
    <2>2. CASE ~(deleteFails(timer[t].k) \/ Undefined("useAfterFree"))
      <3>1. /\ deleteSession(timer[t].k) /\ timer[t].k \in 1 .. 8
            /\ UNCHANGED <<mainVars, self, timerID, cnt, pending>>
            /\ timer' = IF timer[t].k = 8 THEN [timer EXCEPT ![t].pc = "finish"]
                                          ELSE [timer EXCEPT ![t].k = @ + 1]
        BY <1>7, <2>2 DEF Timer_delete, TypeOK, Timer
      <3>2. /\ part' \in [Range(Parts) -> {"live", "dangling", "null"}]
            /\ worker' \in [Workers -> {"unstarted", "running", "cancelled", "gone"}]
        BY <3>1, DeletionStep
      <3>3. timer' \in [Timers -> Timer]
        <4>1. CASE timer[t].k = 8
          BY <1>7, <3>1, <4>1, GoMoves DEF Timer_delete, Go, Moves, Firing
        <4>2. CASE timer[t].k # 8
          BY <3>1, <4>2, StepBecomes DEF Becomes
        <4>3. QED
          BY <4>1, <4>2
      <3>4. QED
        BY <3>1, <3>2, <3>3 DEF TypeOK, mainVars
    <2>3. QED
      BY <2>1, <2>2
  <1>8. CASE Timer_rearm(t)
    <2>1. cnt + 1 \in Timers /\ t # cnt + 1
      BY <1>8, NewIsNext DEF Timer_rearm
    <2>2. timer' \in [Timers -> Timer]
      BY <1>8, <2>1, RearmBecomes DEF Timer_rearm
    <2>3. cnt' \in 0 .. MaxTimers
      BY <1>8, <2>1 DEF Timer_rearm, Timers
    <2>4. UNCHANGED <<mainVars, memory, timerID, workerVars>>
      BY <1>8 DEF Timer_rearm
    <2>5. QED
      BY <2>2, <2>3, <2>4 DEF TypeOK, mainVars, memory, workerVars
  <1>9. CASE Timer_store(t)
    <2>1. CASE Undefined("useAfterFree")
      BY <1>1, <2>1
    <2>2. CASE ~Undefined("useAfterFree")
      <3>1. /\ Go(t, "store", "finish") /\ timerID' = cnt
            /\ UNCHANGED <<mainVars, memory, cnt, workerVars>>
        BY <1>9, <2>2 DEF Timer_store
      <3>2. timer' \in [Timers -> Timer]
        BY <3>1, GoMoves DEF Moves, Firing
      <3>3. QED
        BY <3>1, <3>2 DEF TypeOK, mainVars, memory, workerVars
    <2>3. QED
      BY <2>1, <2>2
  <1>10. CASE Timer_finish(t)
    BY <1>2, <1>10 DEF Timer_finish, Firing
  <1>11. CASE Timer_free(t)
    <2>1. CASE Undefined("doubleFree")
      BY <1>1, <2>1
    <2>2. CASE ~Undefined("doubleFree")
      <3>1. timer' \in [Timers -> Timer]
        BY <1>11, <2>2, FreeBecomes DEF Timer_free, Becomes
      <3>2. UNCHANGED Others
        BY <1>11, <2>2 DEF Timer_free
      <3>3. QED
        BY <3>1, <3>2 DEF TypeOK, Others, mainVars, memory, workerVars
    <2>3. QED
      BY <2>1, <2>2
  <1>12. CASE Timer_clear(t)
    <2>1. timer' \in [Timers -> Timer]
      BY <1>12, ClearBecomes DEF Timer_clear, Becomes
    <2>2. UNCHANGED Others
      BY <1>12 DEF Timer_clear
    <2>3. QED
      BY <2>1, <2>2 DEF TypeOK, Others, mainVars, memory, workerVars
  <1>13. CASE Timer_cancelled(t)
    BY <1>2, <1>13 DEF Timer_cancelled, Go, Firing
  <1>14. QED
    BY <1>3, <1>4, <1>5, <1>6, <1>7, <1>8, <1>9, <1>10, <1>11, <1>12, <1>13
       DEF TimerThread

LEMMA TypeWorker ==
  ASSUME TypeOK, NEW w \in Workers,
         Worker_packet(w) \/ Worker_touch(w) \/ Worker_cancelled(w)
  PROVE  TypeOK'
  <1>1. CASE Worker_packet(w)
    <2>1. PICK route \in Routes[w] : pending' = [pending EXCEPT ![w] = route]
      BY <1>1 DEF Worker_packet
    <2>2. pending' \in [Workers -> Seq(Range(Parts))]
      BY <2>1, RouteType, PartsAre DEF TypeOK
    <2>3. UNCHANGED <<mainVars, memory, timerID, cnt, timer, worker>>
      BY <1>1 DEF Worker_packet
    <2>4. QED
      BY <2>2, <2>3 DEF TypeOK, mainVars, memory
  <1>2. CASE Worker_touch(w)
    <2>1. CASE Undefined("useAfterFree")
      BY <2>1, UndefinedType
    <2>2. CASE ~Undefined("useAfterFree")
      <3>1. pending[w] \in Seq(Range(Parts)) /\ pending[w] # <<>>
        BY <1>2 DEF Worker_touch, TypeOK
      <3>2. Tail(pending[w]) \in Seq(Range(Parts))
        BY <3>1, HeadTailProperties
      <3>3. pending' \in [Workers -> Seq(Range(Parts))]
        BY <1>2, <2>2, <3>2 DEF Worker_touch, TypeOK
      <3>4. UNCHANGED <<mainVars, memory, timerID, cnt, timer, worker>>
        BY <1>2, <2>2 DEF Worker_touch
      <3>5. QED
        BY <3>3, <3>4 DEF TypeOK, mainVars, memory
    <2>3. QED
      BY <2>1, <2>2
  <1>3. CASE Worker_cancelled(w)
    <2>1. CASE Undefined("useAfterFree")
      BY <2>1, UndefinedType
    <2>2. CASE ~Undefined("useAfterFree")
      BY <1>3, <2>2 DEF Worker_cancelled, TypeOK, mainVars, memory
    <2>3. QED
      BY <2>1, <2>2
  <1>4. QED
    BY <1>1, <1>2, <1>3
-----------------------------------------------------------------------------
(* The order of the timers.                                                *)

LEMMA NoTimerIs ==
  ASSUME TypeOK, Queue, NEW t \in Timers
  PROVE  /\ t \in Int /\ cnt \in Int
         /\ t > cnt => /\ timer[t].pc = "none" /\ timer[t].ts = "none"
                       /\ timer[t].pool = FALSE /\ timer[t].cancelled = FALSE
         /\ timer[t].pc # "none" => t <= cnt /\ cnt > 0 /\ Answered
         /\ timer[t].pc \in Early \cup {"delete"} => t = cnt
  <1>1. t \in Int /\ cnt \in Int /\ t > 0
    BY DEF TypeOK, Timers
  <1>2. /\ NoTimer.pc = "none" /\ NoTimer.ts = "none"
        /\ NoTimer.pool = FALSE /\ NoTimer.cancelled = FALSE
    BY DEF NoTimer
  <1>3. t > cnt => timer[t] = NoTimer
    BY DEF Queue
  <1>4. timer[t].pc # "none" => t <= cnt
    BY <1>1, <1>2, <1>3
  <1>5. t < cnt => timer[t].pc \notin Early \cup {"delete"}
    BY DEF Queue, Early, Late
  <1>6. cnt > 0 => Answered
    BY DEF Queue
  <1>7. timer[t].pc \in Early \cup {"delete"} => t <= cnt
    BY <1>4 DEF Early
  <1>8. QED
    BY <1>1, <1>2, <1>3, <1>4, <1>5, <1>6, <1>7

\* The order after a step of a timer that is one of those set already.
LEMMA QueueKept ==
  ASSUME TypeOK, Queue, NEW t \in Timers, t <= cnt,
         Becomes(t, timer'[t]),
         UNCHANGED <<cnt, stopId>>, timerID' \in {timerID, cnt},
         \A w \in Workers : worker'[w] = "unstarted" => worker[w] = "unstarted",
         \A w \in Workers : worker[w] = "unstarted" => worker'[w] = "unstarted",
         mpc' \in {"deleteTs", "clearPool", "cancel", "join"} => stopId > 0,
         \A u \in Timers : timer'[u].cancelled => mpc' \in {"join", "release", "ended"},
         timer'[t].pc # "none", t = cnt => timer'[t].pc # "store",
         t < cnt => timer'[t].pc \in Late \cup {"store"},
         timer'[t].pc = "rearm" => cnt < MaxTimers,
         timer'[t].pc \in Early => timer'[t].k = 1
  PROVE  Queue'
  <1>1. Answered => Answered'
    BY OwnersAre DEF Answered
  <1>2. /\ \A u \in Timers : u # t => timer'[u] = timer[u]
        /\ cnt' = cnt /\ stopId' = stopId
    BY DEF Becomes
  <1>3. /\ \A u \in Timers : u > cnt' => timer'[u] = NoTimer
        /\ \A u \in Timers : u <= cnt' => timer'[u].pc # "none"
    BY <1>2, NoTimerIs, ZenonT(40) DEF Queue
  <1>4. /\ \A u \in Timers : u = cnt' => timer'[u].pc # "store"
        /\ \A u \in Timers : u < cnt' => timer'[u].pc \in Late \cup {"store"}
    BY <1>2 DEF Queue
  <1>5. /\ \A u \in Timers : timer'[u].pc = "rearm" => cnt' < MaxTimers
        /\ \A u \in Timers : timer'[u].pc \in Early => timer'[u].k = 1
    BY <1>2 DEF Queue
  <1>6. timerID' <= cnt' /\ stopId' <= cnt' /\ cnt' \in Int
    BY <1>2 DEF Queue, TypeOK
  <1>7. /\ cnt' > 0 => Answered'
        /\ \A w \in Workers \ Converters : worker'[w] # "unstarted"
    BY <1>1, <1>2 DEF Queue
  <1>8. QED
    BY <1>2, <1>3, <1>4, <1>5, <1>6, <1>7 DEF Queue

\* The order after a step that leaves the timers alone.
LEMMA QueueSame ==
  ASSUME TypeOK, Queue, UNCHANGED <<timer, cnt, timerID>>,
         stopId' <= cnt,
         \A w \in Workers : worker'[w] = "unstarted" <=> worker[w] = "unstarted",
         mpc' \in {"deleteTs", "clearPool", "cancel", "join"} => stopId' > 0,
         mpc \in {"join", "release", "ended"} => mpc' \in {"join", "release", "ended"}
  PROVE  Queue'
  <1>1. Answered => Answered'
    BY OwnersAre DEF Answered
  <1>2. \A t \in Timers : timer'[t].cancelled => mpc' \in {"join", "release", "ended"}
    BY DEF Queue
  <1>3. /\ cnt' > 0 => Answered'
        /\ \A w \in Workers \ Converters : worker'[w] # "unstarted"
    BY <1>1 DEF Queue
  <1>4. QED
    BY <1>2, <1>3 DEF Queue

LEMMA QueueUndefined ==
  ASSUME TypeOK, Queue, NEW kind, Undefined(kind)
  PROVE  Queue'
  <1>1. UNCHANGED <<mainVars, timerID, cnt, timer, workerVars>>
    BY DEF Undefined
  <1>2. UNCHANGED <<mpc, stopId, timerID, cnt, timer, worker>>
    BY <1>1 DEF mainVars, workerVars
  <1>3. QED
    BY <1>2, QueueSame DEF Queue

LEMMA QueueTimer ==
  ASSUME TypeOK, Queue, NEW t \in Timers, TimerThread(t)
  PROVE  Queue'
  <1>1. ASSUME NEW kind, Undefined(kind) PROVE Queue'
    BY <1>1, QueueUndefined
  <1>2. ASSUME UNCHANGED <<mpc, stopId, cnt, worker>>, timer[t].pc # "none",
               Becomes(t, timer'[t]), timerID' \in {timerID, cnt},
               timer'[t].cancelled = timer[t].cancelled,
               timer'[t].pc # "none", t = cnt => timer'[t].pc # "store",
               t < cnt => timer'[t].pc \in Late \cup {"store"},
               timer'[t].pc = "rearm" => cnt < MaxTimers,
               timer'[t].pc \in Early => timer'[t].k = 1
        PROVE  Queue'
    <2>1. \A u \in Timers : timer'[u].cancelled => mpc' \in {"join", "release", "ended"}
      BY <1>2 DEF Queue, Becomes
    <2>2. mpc' \in {"deleteTs", "clearPool", "cancel", "join"} => stopId > 0
      BY <1>2 DEF Queue
    <2>3. t <= cnt
      BY <1>2, NoTimerIs
    <2>4. QED
      BY <1>2, <2>1, <2>2, <2>3, QueueKept
  <1>3. ASSUME NEW from, NEW to \in Firing \cup {"done"},
               Go(t, from, to), from # "none", UNCHANGED Others,
               t = cnt => to # "store", t < cnt => to \in Late,
               to = "rearm" => cnt < MaxTimers,
               to \in Early => from \in Early
        PROVE  Queue'
    <2>1. Moves(t, from, to) /\ to # "none"
      BY <1>3, GoMoves DEF Firing
    <2>2. UNCHANGED <<mpc, stopId, cnt, timerID, worker>>
      BY <1>3 DEF Others, mainVars, workerVars
    <2>3. to \in Early => timer[t].k = 1
      BY <1>3, <2>1 DEF Queue, Moves
    <2>4. Becomes(t, timer'[t])
      BY <2>1 DEF Moves, Becomes
    <2>5. QED
      BY <1>2, <1>3, <2>1, <2>2, <2>3, <2>4 DEF Moves
  <1>4. timer[t].pc \in Early \cup {"delete"} => t = cnt
    BY NoTimerIs
  <1>5. t \in Int /\ cnt \in Int
    BY NoTimerIs
  <1>6. CASE Timer_fire(t)
    BY <1>3, <1>4, <1>5, <1>6 DEF Timer_fire, Go, Firing, Early
  <1>7. CASE Timer_readTs(t)
    BY <1>1, <1>3, <1>4, <1>5, <1>7 DEF Timer_readTs, Go, Firing, Early
  <1>8. CASE Timer_checkWeb(t)
    BY <1>1, <1>3, <1>4, <1>5, <1>8 DEF Timer_checkWeb, Go, Firing, Early
  <1>9. CASE Timer_checkIms(t)
    BY <1>1, <1>3, <1>4, <1>5, <1>9 DEF Timer_checkIms, Go, Firing, Early
  <1>10. CASE Timer_delete(t)
    <2>1. CASE deleteFails(timer[t].k) \/ Undefined("useAfterFree")
      BY <1>1, <2>1 DEF deleteFails
    <2>2. CASE ~(deleteFails(timer[t].k) \/ Undefined("useAfterFree"))
      <3>1. /\ deleteSession(timer[t].k) /\ timer[t].k \in 1 .. 8
            /\ UNCHANGED <<mainVars, self, timerID, cnt, pending>>
            /\ timer' = IF timer[t].k = 8 THEN [timer EXCEPT ![t].pc = "finish"]
                                          ELSE [timer EXCEPT ![t].k = @ + 1]
            /\ timer[t].pc = "delete"
        BY <1>10, <2>2 DEF Timer_delete, TypeOK, Timer
      <3>2. \A w \in Workers : worker'[w] = "unstarted" <=> worker[w] = "unstarted"
        BY <3>1, DeletionStep
      <3>3. /\ Becomes(t, timer'[t]) /\ timer'[t].cancelled = timer[t].cancelled
            /\ timer'[t].pc \in {"finish", "delete"}
        <4>1. CASE timer[t].k = 8
          BY <3>1, <4>1, GoMoves DEF Go, Moves, Becomes, Firing
        <4>2. CASE timer[t].k # 8
          <5>1. Becomes(t, [timer[t] EXCEPT !.k = timer[t].k + 1])
            BY <3>1, <4>2, StepBecomes
          <5>2. timer[t] \in Timer
            BY DEF TypeOK
          <5>3. /\ timer'[t].cancelled = timer[t].cancelled
                /\ timer'[t].pc = timer[t].pc
            BY <5>1, <5>2 DEF Becomes, Timer
          <5>4. QED
            BY <3>1, <5>1, <5>3 DEF Becomes
        <4>3. QED
          BY <4>1, <4>2
      <3>4. UNCHANGED <<mpc, stopId, cnt, timerID>>
        BY <3>1 DEF mainVars
      <3>5. /\ \A u \in Timers : timer'[u].cancelled =>
                                   mpc' \in {"join", "release", "ended"}
            /\ mpc' \in {"deleteTs", "clearPool", "cancel", "join"} => stopId > 0
        BY <3>3, <3>4 DEF Queue, Becomes
      <3>6. /\ t = cnt /\ timer'[t].pc # "none" /\ timer'[t].pc # "store"
            /\ timer'[t].pc # "rearm" /\ timer'[t].pc \notin Early
        BY <1>4, <3>1, <3>3 DEF Early
      <3>7. QED
        BY <1>5, <3>2, <3>3, <3>4, <3>5, <3>6, QueueKept
    <2>3. QED
      BY <2>1, <2>2
  <1>11. CASE Timer_rearm(t)
    <2>1. /\ cnt + 1 \in Timers /\ t # cnt + 1 /\ t = cnt
          /\ cnt' = cnt + 1 /\ timer[t].pc = "rearm"
      BY <1>11, NewIsNext DEF Timer_rearm
    <2>2. /\ timer'[t] = [timer[t] EXCEPT !.pc = "store"]
          /\ timer'[cnt + 1] = NewTimer
          /\ \A u \in Timers : u # t /\ u # cnt + 1 => timer'[u] = timer[u]
      BY <1>11, <2>1, RearmBecomes DEF Timer_rearm
    <2>3. /\ timer'[t].pc = "store" /\ timer'[t].cancelled = timer[t].cancelled
      BY <2>2 DEF TypeOK, Timer
    <2>4. UNCHANGED <<mpc, stopId, timerID, worker>>
      BY <1>11 DEF Timer_rearm, mainVars, workerVars
    <2>5. ASSUME NEW u \in Timers
          PROVE  /\ u > cnt' => timer'[u] = NoTimer
                 /\ u <= cnt' => timer'[u].pc # "none"
                 /\ u = cnt' => timer'[u].pc # "store"
                 /\ u < cnt' => timer'[u].pc \in Late \cup {"store"}
                 /\ timer'[u].pc # "rearm"
                 /\ timer'[u].pc \in Early => timer'[u].k = 1
                 /\ timer'[u].cancelled => mpc' \in {"join", "release", "ended"}
      <3>1. u \in Int /\ cnt \in Int
        BY NoTimerIs
      <3>2. CASE u = t
        BY <2>1, <2>3, <2>4, <3>1, <3>2 DEF Queue, Early
      <3>3. CASE u = cnt + 1
        BY <2>1, <2>2, <3>1, <3>3, NewTimerType
      <3>4. CASE u # t /\ u # cnt + 1
        <4>1. timer'[u] = timer[u] /\ u # cnt
          BY <2>1, <2>2, <3>4
        <4>2. timer[u].pc # "rearm"
          BY <4>1, NoTimerIs DEF Early
        <4>3. QED
          BY <2>1, <2>4, <3>1, <3>4, <4>1, <4>2 DEF Queue
      <3>5. QED
        BY <3>2, <3>3, <3>4
    <2>8. Answered'
      BY <1>5, <2>1, <2>4, NoTimerIs DEF Answered
    <2>9. /\ timerID' <= cnt' /\ stopId' <= cnt'
          /\ mpc' \in {"deleteTs", "clearPool", "cancel", "join"} => stopId' > 0
          /\ \A w \in Workers \ Converters : worker'[w] # "unstarted"
      BY <1>5, <2>1, <2>4 DEF Queue, TypeOK
    <2>10. QED
      BY <2>5, <2>8, <2>9 DEF Queue
  <1>12. CASE Timer_store(t)
    <2>1. CASE Undefined("useAfterFree")
      BY <1>1, <2>1
    <2>2. CASE ~Undefined("useAfterFree")
      <3>1. /\ Go(t, "store", "finish") /\ timerID' = cnt
            /\ UNCHANGED <<mainVars, memory, cnt, workerVars>>
        BY <1>12, <2>2 DEF Timer_store
      <3>2. Moves(t, "store", "finish")
        BY <3>1, GoMoves DEF Firing
      <3>3. UNCHANGED <<mpc, stopId, cnt, worker>>
        BY <3>1 DEF mainVars, workerVars
      <3>4. Becomes(t, timer'[t])
        BY <3>2 DEF Moves, Becomes
      <3>5. QED
        BY <1>2, <3>1, <3>2, <3>3, <3>4 DEF Moves, Early, Late
    <2>3. QED
      BY <2>1, <2>2
  <1>13. CASE Timer_finish(t)
    <2>1. PICK to \in {"free", "clear"} : Go(t, "finish", to)
      BY <1>13 DEF Timer_finish
    <2>2. UNCHANGED Others
      BY <1>13 DEF Timer_finish
    <2>3. to \in Firing \cup {"done"} /\ to \in Late /\ to \notin Early
      BY <2>1 DEF Firing, Early, Late
    <2>4. QED
      BY <1>3, <2>1, <2>2, <2>3
  <1>14. CASE Timer_free(t)
    <2>1. CASE Undefined("doubleFree")
      BY <1>1, <2>1
    <2>2. CASE ~Undefined("doubleFree")
      <3>1. /\ UNCHANGED Others /\ timer[t].pc = "free"
            /\ Becomes(t, [timer[t] EXCEPT !.pc = "clear",
                             !.ts = IF timer[t].pool THEN "freed" ELSE @])
        BY <1>14, <2>2, FreeBecomes DEF Timer_free
      <3>2. timer[t] \in Timer
        BY DEF TypeOK
      <3>3. /\ Becomes(t, timer'[t]) /\ timer'[t].pc = "clear"
            /\ timer'[t].cancelled = timer[t].cancelled
        BY <3>1, <3>2 DEF Becomes, Timer
      <3>4. UNCHANGED <<mpc, stopId, cnt, timerID, worker>>
        BY <3>1 DEF Others, mainVars, workerVars
      <3>5. QED
        BY <1>2, <3>1, <3>3, <3>4 DEF Early, Late
    <2>3. QED
      BY <2>1, <2>2
  <1>15. CASE Timer_clear(t)
    <2>1. /\ UNCHANGED Others /\ timer[t].pc = "clear"
          /\ Becomes(t, [timer[t] EXCEPT !.pc = "done", !.pool = FALSE])
      BY <1>15, ClearBecomes DEF Timer_clear
    <2>2. timer[t] \in Timer
      BY DEF TypeOK
    <2>3. /\ Becomes(t, timer'[t]) /\ timer'[t].pc = "done"
          /\ timer'[t].cancelled = timer[t].cancelled
      BY <2>1, <2>2 DEF Becomes, Timer
    <2>4. UNCHANGED <<mpc, stopId, cnt, timerID, worker>>
      BY <2>1 DEF Others, mainVars, workerVars
    <2>5. QED
      BY <1>2, <2>1, <2>3, <2>4 DEF Early, Late
  <1>16. CASE Timer_cancelled(t)
    BY <1>3, <1>16 DEF Timer_cancelled, Go, Firing, Early, Late
  <1>17. QED
    BY <1>6, <1>7, <1>8, <1>9, <1>10, <1>11, <1>12, <1>13, <1>14, <1>15, <1>16
       DEF TimerThread

LEMMA QueueMain ==
  ASSUME TypeOK, Queue, Main
  PROVE  Queue'
  <1>1. ASSUME NEW kind, Undefined(kind) PROVE Queue'
    BY <1>1, QueueUndefined
  <1>2. ASSUME UNCHANGED <<timer, cnt, timerID, worker, stopId>>,
               mpc' \notin {"deleteTs", "clearPool", "cancel", "join"},
               mpc \in {"join", "release", "ended"} =>
                 mpc' \in {"join", "release", "ended"}
        PROVE  Queue'
    BY <1>2, QueueSame DEF Queue
  \* The end of the timer with the id stopId.
  <1>3. ASSUME UNCHANGED <<stopId, cnt, timerID, worker>>,
               mpc \in {"deleteTs", "clearPool", "cancel"},
               mpc' \in {"clearPool", "cancel", "join"},
               Becomes(stopId, timer'[stopId]),
               timer'[stopId].pc = timer[stopId].pc,
               timer'[stopId].k = timer[stopId].k,
               timer'[stopId].cancelled => timer[stopId].cancelled \/ mpc' = "join"
        PROVE  Queue'
    <2>1. stopId \in Timers /\ stopId > 0 /\ stopId <= cnt /\ cnt \in Int
      BY <1>3, StopIdType DEF Queue, TypeOK
    <2>2. \A u \in Timers : timer'[u].cancelled => mpc' \in {"join", "release", "ended"}
      <3>1. \A u \in Timers : ~timer[u].cancelled
        BY <1>3 DEF Queue
      <3>2. QED
        BY <1>3, <2>1, <3>1 DEF Becomes
    <2>3. /\ timer[stopId].pc # "none"
          /\ stopId = cnt => timer[stopId].pc # "store"
          /\ stopId < cnt => timer[stopId].pc \in Late \cup {"store"}
          /\ timer[stopId].pc = "rearm" => cnt < MaxTimers
          /\ timer[stopId].pc \in Early => timer[stopId].k = 1
      BY <2>1 DEF Queue
    <2>4. QED
      BY <1>3, <2>1, <2>2, <2>3, QueueKept
  <1>4. CASE Main_answer
    <2>1. 1 \in Timers /\ cnt' = 1 /\ timerID' = 1 /\ mpc = "idle"
      BY <1>4, TeardownAssumption DEF Main_answer, Timers
    <2>2. Becomes(1, NewTimer)
      BY <1>4, <2>1, NewTimerType, OneTimer DEF Main_answer
    <2>3. UNCHANGED <<mpc, stopId>>
      BY <1>4 DEF Main_answer, mainVars
    <2>4. cnt = 0
      BY <1>4 DEF Main_answer, Queue, TypeOK
    <2>5. ASSUME NEW u \in Timers
          PROVE  /\ u > cnt' => timer'[u] = NoTimer
                 /\ u <= cnt' => timer'[u].pc # "none"
                 /\ timer'[u].pc # "store"
                 /\ u < cnt' => timer'[u].pc \in Late \cup {"store"}
                 /\ timer'[u].pc # "rearm"
                 /\ timer'[u].pc \in Early => timer'[u].k = 1
                 /\ timer'[u].cancelled => mpc' \in {"join", "release", "ended"}
      <3>1. u \in Int /\ u > 0
        BY DEF Timers
      <3>2. CASE u = 1
        BY <2>1, <2>2, <3>2, NewTimerType DEF Becomes
      <3>3. CASE u # 1
        <4>1. timer'[u] = NoTimer
          BY <2>1, <2>2, <2>4, <3>1, <3>3 DEF Becomes, Queue
        <4>2. /\ NoTimer.pc = "none" /\ NoTimer.cancelled = FALSE
          BY DEF NoTimer
        <4>3. QED
          BY <2>1, <3>1, <3>3, <4>1, <4>2 DEF Early
      <3>4. QED
        BY <3>2, <3>3
    <2>6. /\ Answered' /\ \A w \in Workers \ Converters : worker'[w] # "unstarted"
      BY <1>4, OwnersAre DEF Main_answer, Answered, Queue
    <2>7. /\ timerID' <= cnt' /\ stopId' <= cnt'
          /\ mpc' \in {"deleteTs", "clearPool", "cancel", "join"} => stopId' > 0
      BY <2>1, <2>3, <2>4 DEF Queue, TypeOK
    <2>8. QED
      BY <2>5, <2>6, <2>7 DEF Queue
  <1>5. CASE Main_lookUp
    BY <1>2, <1>5 DEF Main_lookUp, workerVars
  <1>6. CASE Main_use
    <2>1. CASE \E p \in DOMAIN part : Undefined(Bad(p))
      BY <1>1, <2>1
    <2>2. CASE ~(\E p \in DOMAIN part : Undefined(Bad(p)))
      BY <1>2, <1>6, <2>2 DEF Main_use, workerVars
    <2>3. QED
      BY <2>1, <2>2
  <1>7. CASE Main_delete
    <2>1. CASE deleteFails(mk)
      BY <1>1, <2>1 DEF deleteFails
    <2>2. CASE ~deleteFails(mk)
      <3>1. /\ deleteSession(mk) /\ mk \in 1 .. 8 /\ mpc = "delete"
            /\ mpc' \in {"delete", "test"}
            /\ UNCHANGED <<stopId, timerID, cnt, timer>>
        BY <1>7, <2>2 DEF Main_delete, TypeOK
      <3>2. \A w \in Workers : worker'[w] = "unstarted" <=> worker[w] = "unstarted"
        BY <3>1, DeletionStep
      <3>3. QED
        BY <3>1, <3>2, QueueSame DEF Queue
    <2>3. QED
      BY <2>1, <2>2
  <1>8. CASE Main_test
    <2>1. /\ UNCHANGED <<timer, cnt, timerID, worker>> /\ stopId' = timerID
          /\ mpc' \in {"deleteTs", "release"} /\ mpc = "test"
          /\ mpc' = "deleteTs" => timerID # 0
      BY <1>8 DEF Main_test, workerVars
    <2>2. timerID <= cnt /\ timerID >= 0
      BY DEF Queue, TypeOK
    <2>3. QED
      BY <2>1, <2>2, QueueSame DEF TypeOK
  <1>9. CASE Main_deleteTs
    <2>1. CASE Undefined("doubleFree")
      BY <1>1, <2>1
    <2>2. CASE ~Undefined("doubleFree")
      <3>1. /\ deleteTs(stopId) /\ mpc' = "clearPool" /\ mpc = "deleteTs"
            /\ UNCHANGED <<mk, stopId, memory, timerID, cnt, workerVars>>
        BY <1>9, <2>2 DEF Main_deleteTs
      <3>2. stopId \in Timers /\ timer[stopId] \in Timer
        BY <3>1, StopIdType DEF TypeOK
      <3>3. Becomes(stopId, [timer[stopId] EXCEPT
                               !.ts = IF timer[stopId].pool THEN "freed" ELSE @])
        BY <3>1, <3>2, TsDeleted
      <3>4. UNCHANGED <<stopId, cnt, timerID, worker>>
        BY <3>1 DEF workerVars
      <3>5. /\ Becomes(stopId, timer'[stopId])
            /\ timer'[stopId].pc = timer[stopId].pc
            /\ timer'[stopId].k = timer[stopId].k
            /\ timer'[stopId].cancelled = timer[stopId].cancelled
        BY <3>2, <3>3 DEF Becomes, Timer
      <3>6. QED
        BY <1>3, <3>1, <3>4, <3>5
    <2>3. QED
      BY <2>1, <2>2
  <1>10. CASE Main_clearPool
    <2>1. /\ mpc' = "cancel" /\ mpc = "clearPool"
          /\ UNCHANGED <<mk, stopId, memory, timerID, cnt, workerVars>>
      BY <1>10 DEF Main_clearPool
    <2>2. stopId \in Timers /\ timer[stopId] \in Timer
      BY <2>1, StopIdType DEF TypeOK
    <2>3. Becomes(stopId, [timer[stopId] EXCEPT !.pool = FALSE])
      BY <1>10, <2>2, PoolCleared DEF Main_clearPool
    <2>4. UNCHANGED <<stopId, cnt, timerID, worker>>
      BY <2>1 DEF workerVars
    <2>5. /\ Becomes(stopId, timer'[stopId])
          /\ timer'[stopId].pc = timer[stopId].pc
          /\ timer'[stopId].k = timer[stopId].k
          /\ timer'[stopId].cancelled = timer[stopId].cancelled
      BY <2>2, <2>3 DEF Becomes, Timer
    <2>6. QED
      BY <1>3, <2>1, <2>4, <2>5
  <1>11. CASE Main_cancel
    <2>1. /\ mpc' = "join" /\ mpc = "cancel"
          /\ UNCHANGED <<mk, stopId, memory, timerID, cnt, workerVars>>
      BY <1>11 DEF Main_cancel
    <2>2. stopId \in Timers /\ timer[stopId] \in Timer
      BY <2>1, StopIdType DEF TypeOK
    <2>3. Becomes(stopId, [timer[stopId] EXCEPT !.cancelled = TRUE])
      BY <1>11, <2>2, CancelBecomes DEF Main_cancel
    <2>4. UNCHANGED <<stopId, cnt, timerID, worker>>
      BY <2>1 DEF workerVars
    <2>5. /\ Becomes(stopId, timer'[stopId])
          /\ timer'[stopId].pc = timer[stopId].pc
          /\ timer'[stopId].k = timer[stopId].k
      BY <2>2, <2>3 DEF Becomes, Timer
    <2>6. QED
      BY <1>3, <2>1, <2>4, <2>5
  <1>12. CASE Main_join
    BY <1>2, <1>12 DEF Main_join, workerVars
  <1>13. CASE Main_release
    BY <1>2, <1>13 DEF Main_release, workerVars
  <1>14. QED
    BY <1>4, <1>5, <1>6, <1>7, <1>8, <1>9, <1>10, <1>11, <1>12, <1>13
       DEF Main, Main_continue

LEMMA QueueWorker ==
  ASSUME TypeOK, Queue, NEW w \in Workers,
         Worker_packet(w) \/ Worker_touch(w) \/ Worker_cancelled(w)
  PROVE  Queue'
  <1>1. ASSUME UNCHANGED <<mainVars, timer, cnt, timerID>>,
               \A u \in Workers : worker'[u] = "unstarted" <=> worker[u] = "unstarted"
        PROVE  Queue'
    <2>1. UNCHANGED <<mpc, stopId, timer, cnt, timerID>>
      BY <1>1 DEF mainVars
    <2>2. QED
      BY <1>1, <2>1, QueueSame DEF Queue
  <1>2. CASE Worker_packet(w)
    BY <1>1, <1>2 DEF Worker_packet
  <1>3. CASE Worker_touch(w)
    <2>1. CASE Undefined("useAfterFree")
      BY <2>1, QueueUndefined
    <2>2. CASE ~Undefined("useAfterFree")
      BY <1>1, <1>3, <2>2 DEF Worker_touch
    <2>3. QED
      BY <2>1, <2>2
  <1>4. CASE Worker_cancelled(w)
    <2>1. CASE Undefined("useAfterFree")
      BY <2>1, QueueUndefined
    <2>2. CASE ~Undefined("useAfterFree")
      BY <1>1, <1>4, <2>2 DEF Worker_cancelled, TypeOK
    <2>3. QED
      BY <2>1, <2>2
  <1>5. QED
    BY <1>2, <1>3, <1>4
-----------------------------------------------------------------------------
(* One deleter.                                                            *)

\* What OneDeleter says of the Ts of a timer.
TsKept(x) ==
  /\ x.pc \notin {"clear", "done"} => Whole(x)
  /\ x.pc = "clear" => Freed(x)
  /\ x.pc = "done" => Gone(x)

\* A step of one timer that has been set already.
LEMMA DeleterKept ==
  ASSUME TypeOK, Queue, OneDeleter, Untouched, NEW t \in Timers, t <= cnt,
         Becomes(t, timer'[t]), UNCHANGED <<mk, cnt>>,
         t = cnt \/ part' = part,
         t = cnt =>
           /\ timer'[t].pc \in Early => Staged(part', 1)
           /\ timer'[t].pc = "delete" => Staged(part', timer'[t].k)
           /\ timer'[t].pc \in Late => Staged(part', 9),
         TsKept(timer'[t]),
         (\A u \in Timers : timer'[u].pc # "store") => timerID' = cnt
  PROVE  OneDeleter'
  <1>1. /\ \A u \in Timers : u # t => timer'[u] = timer[u]
        /\ cnt' = cnt /\ mk' = 1 /\ t \in Int /\ cnt \in Int /\ cnt > 0
    <2>1. mk = 1
      BY DEF OneDeleter
    <2>2. QED
      BY <2>1 DEF Becomes, Timers, TypeOK
  <1>2. ASSUME NEW u \in Timers, u = cnt'
        PROVE  /\ timer'[u].pc \in Early => Stage(1)'
               /\ timer'[u].pc = "delete" => Stage(timer[u].k)'
               /\ timer'[u].pc \in Late => Stage(9)'
    <2>1. CASE u = t
      BY <1>1, <1>2, <2>1 DEF Stage
    <2>2. CASE u # t
      <3>1. part' = part /\ timer'[u] = timer[u] /\ u = cnt
        BY <1>1, <1>2, <2>2
      <3>2. /\ timer[u].pc \in Early => Staged(part, 1)
            /\ timer[u].pc = "delete" => Staged(part, timer[u].k)
            /\ timer[u].pc \in Late => Staged(part, 9)
        BY <3>1 DEF OneDeleter, Stage
      <3>3. QED
        BY <3>1, <3>2 DEF Stage
    <2>3. QED
      BY <2>1, <2>2
  <1>3. ASSUME NEW u \in Timers, u <= cnt'
        PROVE  TsKept(timer'[u])
    <2>1. CASE u = t
      BY <2>1
    <2>2. CASE u # t
      <3>1. timer'[u] = timer[u] /\ u <= cnt
        BY <1>1, <1>3, <2>2
      <3>2. TsKept(timer[u])
        BY <3>1 DEF OneDeleter, TsKept
      <3>3. QED
        BY <3>1, <3>2
    <2>3. QED
      BY <2>1, <2>2
  <1>4. QED
    BY <1>1, <1>2, <1>3 DEF OneDeleter, TsKept, Whole, Freed, Gone

\* A step that leaves the parts and the timers alone.
LEMMA DeleterSame ==
  ASSUME OneDeleter, Untouched' => Untouched,
         UNCHANGED <<part, timer, cnt, timerID, mk>>
  PROVE  OneDeleter'
  <1> SUFFICES ASSUME Untouched'
               PROVE  OneDeleter'
    BY DEF OneDeleter
  <1>1. Untouched
    OBVIOUS
  <1>2. QED
    BY <1>1 DEF OneDeleter, Stage, Whole, Freed, Gone

LEMMA DeleterTimer ==
  ASSUME TypeOK, Queue, OneDeleter, NEW t \in Timers, TimerThread(t)
  PROVE  OneDeleter'
  <1>1. ASSUME NEW kind, Undefined(kind) PROVE OneDeleter'
    <2>1. UNCHANGED <<mainVars, memory, timerID, cnt, timer>>
      BY <1>1 DEF Undefined
    <2>2. UNCHANGED <<mpc, mk, part, timer, cnt, timerID>>
      BY <2>1 DEF mainVars, memory
    <2>3. QED
      BY <2>2, DeleterSame DEF Untouched
  \* A timer goes from one control point to another and nothing else happens.
  <1>2. ASSUME NEW from, NEW to \in Firing \cup {"done"},
               Go(t, from, to), from \notin {"none", "store"}, to # "store",
               UNCHANGED Others, Untouched,
               t = cnt =>
                 /\ to \in Early => from \in Early
                 /\ to = "delete" => from \in Early
                 /\ to \in Late => from \in Late,
               to \notin {"clear", "done"}, from \notin {"clear", "done"}
        PROVE  OneDeleter'
    <2>1. Moves(t, from, to)
      BY <1>2, GoMoves
    <2>2. UNCHANGED <<mk, cnt, part, timerID>>
      BY <1>2 DEF Others, mainVars, memory
    <2>3. t <= cnt /\ Becomes(t, timer'[t])
      BY <1>2, <2>1, NoTimerIs DEF Moves, Becomes
    <2>4. TsKept(timer'[t])
      BY <1>2, <2>1, <2>3 DEF OneDeleter, TsKept, Moves, Whole
    <2>5. (\A u \in Timers : timer'[u].pc # "store") => timerID' = cnt
      <3>1. SUFFICES ASSUME \A u \in Timers : timer'[u].pc # "store"
                     PROVE  timerID' = cnt
        OBVIOUS
      <3>2. \A u \in Timers : timer[u].pc # "store"
        BY <1>2, <2>1, <3>1 DEF Moves
      <3>3. QED
        BY <1>2, <2>2, <3>2 DEF OneDeleter
    <2>6. t = cnt =>
            /\ timer'[t].pc \in Early => Staged(part', 1)
            /\ timer'[t].pc = "delete" => Staged(part', timer'[t].k)
            /\ timer'[t].pc \in Late => Staged(part', 9)
      <3>1. SUFFICES ASSUME t = cnt
                     PROVE  /\ timer'[t].pc \in Early => Staged(part', 1)
                            /\ timer'[t].pc = "delete" => Staged(part', timer'[t].k)
                            /\ timer'[t].pc \in Late => Staged(part', 9)
        OBVIOUS
      <3>2. from \in Early => Staged(part', 1) /\ timer'[t].k = 1
        BY <1>2, <2>1, <2>2, <3>1 DEF OneDeleter, Stage, Moves, Queue
      <3>3. from \in Late => Staged(part', 9)
        BY <1>2, <2>1, <2>2, <3>1 DEF OneDeleter, Stage, Moves
      <3>4. QED
        BY <1>2, <2>1, <3>1, <3>2, <3>3 DEF Moves
    <2>7. QED
      BY <1>2, <2>2, <2>3, <2>4, <2>5, <2>6, DeleterKept
  <1>3. CASE ~Untouched'
    BY <1>3 DEF OneDeleter
  <1> SUFFICES ASSUME Untouched' PROVE OneDeleter'
    BY <1>3
  <1>4. UNCHANGED mainVars
    BY DEF TimerThread, Timer_fire, Timer_readTs, Timer_checkWeb, Timer_checkIms,
           Timer_delete, Timer_rearm, Timer_store, Timer_finish, Timer_free,
           Timer_clear, Timer_cancelled, Undefined, deleteFails, Others
  <1>5. Untouched /\ mpc' = mpc /\ mk' = mk
    BY <1>4 DEF mainVars, Untouched
  <1>6. t \in Int /\ cnt \in Int /\ (timer[t].pc \in Early \cup {"delete"} => t = cnt)
    BY NoTimerIs
  <1>7. CASE Timer_fire(t)
    BY <1>2, <1>5, <1>7 DEF Timer_fire, Go, Firing, Early, Late
  <1>8. CASE Timer_readTs(t)
    BY <1>1, <1>2, <1>5, <1>8 DEF Timer_readTs, Go, Firing, Early, Late
  <1>9. CASE Timer_checkWeb(t)
    BY <1>1, <1>2, <1>5, <1>9 DEF Timer_checkWeb, Go, Firing, Early, Late
  <1>10. CASE Timer_checkIms(t)
    BY <1>1, <1>2, <1>5, <1>10 DEF Timer_checkIms, Go, Firing, Early, Late
  <1>11. CASE Timer_delete(t)
    <2>1. CASE deleteFails(timer[t].k) \/ Undefined("useAfterFree")
      BY <1>1, <2>1 DEF deleteFails
    <2>2. CASE ~(deleteFails(timer[t].k) \/ Undefined("useAfterFree"))
      <3> DEFINE k == timer[t].k
      <3>1. /\ deleteSession(k) /\ k \in 1 .. 8
            /\ UNCHANGED <<mainVars, self, timerID, cnt, pending>>
            /\ timer' = IF k = 8 THEN [timer EXCEPT ![t].pc = "finish"]
                                 ELSE [timer EXCEPT ![t].k = @ + 1]
            /\ timer[t].pc = "delete" /\ t = cnt
        BY <1>6, <1>11, <2>2 DEF Timer_delete, TypeOK, Timer
      <3>2. Stage(k) /\ TsKept(timer[t]) /\ timer[t] \in Timer
        BY <1>5, <1>6, <3>1 DEF OneDeleter, TsKept, TypeOK
      <3>3. Staged(part', k + 1)
        BY <3>1, <3>2, DeletionStep DEF Stage
      <3>4. /\ Becomes(t, timer'[t]) /\ TsKept(timer'[t])
            /\ \/ timer'[t].pc = "finish" /\ k = 8
               \/ timer'[t].pc = "delete" /\ timer'[t].k = k + 1
        <4>1. CASE k = 8
          <5>1. Moves(t, "delete", "finish")
            BY <3>1, <4>1, GoMoves DEF Go, Firing
          <5>2. QED
            BY <3>2, <4>1, <5>1 DEF Moves, Becomes, TsKept, Whole
        <4>2. CASE k # 8
          <5>1. Becomes(t, [timer[t] EXCEPT !.k = k + 1])
            BY <3>1, <4>2, StepBecomes
          <5> DEFINE n == k + 1
          <5>2. Becomes(t, [timer[t] EXCEPT !.k = n])
            BY <5>1
          <5> HIDE DEF n
          <5>3. /\ timer'[t].pc = timer[t].pc /\ timer'[t].k = n
                /\ timer'[t].ts = timer[t].ts /\ timer'[t].pool = timer[t].pool
            BY <3>2, <5>2 DEF Becomes, Timer
          <5>4. Becomes(t, timer'[t])
            BY <5>2 DEF Becomes
          <5>5. QED
            BY <3>1, <3>2, <5>3, <5>4 DEF TsKept, Whole, n
        <4>3. QED
          BY <4>1, <4>2
      <3>5. /\ timer'[t].pc \in Early => Staged(part', 1)
            /\ timer'[t].pc = "delete" => Staged(part', timer'[t].k)
            /\ timer'[t].pc \in Late => Staged(part', 9)
        BY <3>3, <3>4 DEF Early, Late
      <3>6. (\A u \in Timers : timer'[u].pc # "store") => timerID' = cnt
        <4>1. SUFFICES ASSUME \A u \in Timers : timer'[u].pc # "store"
                       PROVE  timerID' = cnt
          OBVIOUS
        <4>2. \A u \in Timers : timer[u].pc # "store"
          BY <3>1, <3>4, <4>1 DEF Becomes
        <4>3. QED
          BY <1>5, <3>1, <4>2 DEF OneDeleter
      <3>7. QED
        BY <1>5, <1>6, <3>1, <3>4, <3>5, <3>6, DeleterKept
    <2>3. QED
      BY <2>1, <2>2
  <1>12. CASE Timer_rearm(t)
    <2>1. /\ cnt + 1 \in Timers /\ t # cnt + 1 /\ t = cnt
          /\ cnt' = cnt + 1 /\ timer[t].pc = "rearm"
      BY <1>12, NewIsNext DEF Timer_rearm
    <2>2. /\ timer'[t] = [timer[t] EXCEPT !.pc = "store"]
          /\ timer'[cnt + 1] = NewTimer
          /\ \A u \in Timers : u # t /\ u # cnt + 1 => timer'[u] = timer[u]
      BY <1>12, <2>1, RearmBecomes DEF Timer_rearm
    <2>3. /\ timer'[t].pc = "store" /\ timer'[t].pool = timer[t].pool
          /\ timer'[t].ts = timer[t].ts
      BY <2>2 DEF TypeOK, Timer
    <2>4. part' = part /\ mk' = 1
      BY <1>5, <1>12 DEF Timer_rearm, memory, OneDeleter
    <2>5. Staged(part', 1)
      BY <1>5, <2>1, <2>4 DEF OneDeleter, Stage, Early
    <2>6. ASSUME NEW u \in Timers
          PROVE  /\ u = cnt' => timer'[u].pc = "asleep"
                 /\ u <= cnt' => TsKept(timer'[u])
      <3>1. u \in Int
        BY NoTimerIs
      <3>2. CASE u = t
        <4>1. TsKept(timer[t])
          BY <1>5, <1>6, <2>1 DEF OneDeleter, TsKept
        <4>2. QED
          BY <1>6, <2>1, <2>3, <3>2, <4>1 DEF TsKept, Whole
      <3>3. CASE u = cnt + 1
        BY <2>2, <3>3, NewTimerType DEF TsKept, Whole
      <3>4. CASE u # t /\ u # cnt + 1
        <4>1. timer'[u] = timer[u]
          BY <2>2, <3>4
        <4>2. u <= cnt => TsKept(timer[u])
          BY <1>5 DEF OneDeleter, TsKept
        <4>3. QED
          BY <1>6, <2>1, <3>1, <3>4, <4>1, <4>2
      <3>5. QED
        BY <3>2, <3>3, <3>4
    <2>7. cnt' # 0 /\ ~\A u \in Timers : timer'[u].pc # "store"
      BY <1>6, <2>1, <2>3 DEF Timers
    <2>8. QED
      BY <2>4, <2>5, <2>6, <2>7
         DEF OneDeleter, TsKept, Whole, Freed, Gone, Stage, Early, Late
  <1>13. CASE Timer_store(t)
    <2>1. CASE Undefined("useAfterFree")
      BY <1>1, <2>1
    <2>2. CASE ~Undefined("useAfterFree")
      <3>1. /\ Go(t, "store", "finish") /\ timerID' = cnt
            /\ UNCHANGED <<mainVars, memory, cnt, workerVars>>
        BY <1>13, <2>2 DEF Timer_store
      <3>2. Moves(t, "store", "finish")
        BY <3>1, GoMoves DEF Firing
      <3>3. t <= cnt /\ t # cnt /\ Becomes(t, timer'[t])
        BY <3>2, NoTimerIs DEF Moves, Becomes, Queue
      <3>4. TsKept(timer'[t])
        BY <1>5, <3>2, <3>3 DEF OneDeleter, TsKept, Moves, Whole
      <3>5. UNCHANGED <<mk, cnt, part>>
        BY <3>1 DEF mainVars, memory
      <3>6. QED
        BY <1>5, <3>1, <3>3, <3>4, <3>5, DeleterKept
    <2>3. QED
      BY <2>1, <2>2
  <1>14. CASE Timer_finish(t)
    <2>1. timer[t].pool
      BY <1>5, <1>14, NoTimerIs DEF Timer_finish, Go, OneDeleter, Whole
    <2>2. Go(t, "finish", "free") /\ UNCHANGED Others
      BY <1>14, <2>1 DEF Timer_finish
    <2>3. QED
      BY <1>2, <1>5, <2>2 DEF Firing, Early, Late
  <1>15. CASE Timer_free(t)
    <2>1. CASE Undefined("doubleFree")
      BY <1>1, <2>1
    <2>2. CASE ~Undefined("doubleFree")
      <3>1. /\ UNCHANGED Others /\ timer[t].pc = "free"
            /\ Becomes(t, [timer[t] EXCEPT !.pc = "clear",
                             !.ts = IF timer[t].pool THEN "freed" ELSE @])
        BY <1>15, <2>2, FreeBecomes DEF Timer_free
      <3>2. timer[t] \in Timer /\ timer[t].pool /\ t <= cnt
        BY <1>5, <3>1, NoTimerIs DEF TypeOK, OneDeleter, Whole
      <3>3. /\ Becomes(t, timer'[t]) /\ timer'[t].pc = "clear"
            /\ timer'[t].pool /\ timer'[t].ts = "freed"
        BY <3>1, <3>2 DEF Becomes, Timer
      <3>4. UNCHANGED <<mk, cnt, part, timerID>>
        BY <3>1 DEF Others, mainVars, memory
      <3>5. TsKept(timer'[t])
        BY <3>3 DEF TsKept, Freed
      <3>6. t = cnt => Staged(part', 9)
        BY <1>5, <3>1, <3>4 DEF OneDeleter, Stage, Late
      <3>7. (\A u \in Timers : timer'[u].pc # "store") => timerID' = cnt
        BY <1>5, <3>1, <3>3, <3>4 DEF OneDeleter, Becomes
      <3>8. QED
        BY <1>5, <3>2, <3>3, <3>4, <3>5, <3>6, <3>7, DeleterKept DEF Early
    <2>3. QED
      BY <2>1, <2>2
  <1>16. CASE Timer_clear(t)
    <2>1. /\ UNCHANGED Others /\ timer[t].pc = "clear"
          /\ Becomes(t, [timer[t] EXCEPT !.pc = "done", !.pool = FALSE])
      BY <1>16, ClearBecomes DEF Timer_clear
    <2>2. timer[t] \in Timer /\ timer[t].ts = "freed" /\ t <= cnt
      BY <1>5, <2>1, NoTimerIs DEF TypeOK, OneDeleter, Freed
    <2>3. /\ Becomes(t, timer'[t]) /\ timer'[t].pc = "done"
          /\ timer'[t].pool = FALSE /\ timer'[t].ts = "freed"
      BY <2>1, <2>2 DEF Becomes, Timer
    <2>4. UNCHANGED <<mk, cnt, part, timerID>>
      BY <2>1 DEF Others, mainVars, memory
    <2>5. TsKept(timer'[t])
      BY <2>3 DEF TsKept, Gone
    <2>6. t = cnt => Staged(part', 9)
      BY <1>5, <2>1, <2>4 DEF OneDeleter, Stage, Late
    <2>7. (\A u \in Timers : timer'[u].pc # "store") => timerID' = cnt
      BY <1>5, <2>1, <2>3, <2>4 DEF OneDeleter, Becomes
    <2>8. QED
      BY <1>5, <2>2, <2>3, <2>4, <2>5, <2>6, <2>7, DeleterKept DEF Early
  <1>17. CASE Timer_cancelled(t)
    BY <1>5, <1>17 DEF Timer_cancelled, Queue, Untouched
  <1>18. QED
    BY <1>7, <1>8, <1>9, <1>10, <1>11, <1>12, <1>13, <1>14, <1>15, <1>16, <1>17
       DEF TimerThread

LEMMA DeleterMain ==
  ASSUME TypeOK, Queue, OneDeleter, Main
  PROVE  OneDeleter'
  <1>1. ASSUME NEW kind, Undefined(kind) PROVE OneDeleter'
    <2>1. UNCHANGED <<mainVars, memory, timerID, cnt, timer>>
      BY <1>1 DEF Undefined
    <2>2. UNCHANGED <<mpc, mk, part, timer, cnt, timerID>>
      BY <2>1 DEF mainVars, memory
    <2>3. QED
      BY <2>2, DeleterSame DEF Untouched
  <1>2. CASE Main_answer
    <2>1. 1 \in Timers /\ cnt' = 1 /\ timerID' = 1 /\ mpc = "idle"
      BY <1>2, TeardownAssumption DEF Main_answer, Timers
    <2>2. Becomes(1, NewTimer)
      BY <1>2, <2>1, NewTimerType, OneTimer DEF Main_answer
    <2>3. UNCHANGED <<mk, part>>
      BY <1>2 DEF Main_answer, mainVars, memory
    <2>4. cnt = 0
      BY <1>2 DEF Main_answer, Queue, TypeOK
    <2>5. Staged(part', 1) /\ mk' = 1
      BY <2>1, <2>3, <2>4 DEF OneDeleter, Untouched, Stage
    <2>6. \A u \in Timers : u <= cnt' => u = 1
      BY <2>1 DEF Timers
    <2>7. timer'[1] = NewTimer /\ TsKept(timer'[1])
      BY <2>2, NewTimerType DEF Becomes, TsKept, Whole
    <2>8. \A u \in Timers : u <= cnt' => timer'[u].pc = "asleep" /\ TsKept(timer'[u])
      BY <2>6, <2>7, NewTimerType
    <2>9. \A u \in Timers : u = cnt' => u <= cnt'
      BY <2>1
    <2>10. QED
      BY <2>1, <2>5, <2>8, <2>9
         DEF OneDeleter, TsKept, Whole, Freed, Gone, Stage, Early, Late
  <1>3. CASE Main_lookUp
    BY <1>3, DeleterSame DEF Main_lookUp, memory, Untouched
  <1>4. CASE Main_use
    <2>1. CASE \E p \in DOMAIN part : Undefined(Bad(p))
      BY <1>1, <2>1
    <2>2. CASE ~(\E p \in DOMAIN part : Undefined(Bad(p)))
      BY <1>4, <2>2, DeleterSame DEF Main_use, memory, Untouched
    <2>3. QED
      BY <2>1, <2>2
  <1>5. CASE Main_delete
    <2>1. CASE deleteFails(mk)
      BY <1>1, <2>1 DEF deleteFails
    <2>2. CASE ~deleteFails(mk)
      BY <1>5, <2>2 DEF Main_delete, OneDeleter, Untouched
    <2>3. QED
      BY <2>1, <2>2
  <1>6. CASE Main_test
    BY <1>6 DEF Main_test, OneDeleter, Untouched
  <1>7. CASE Main_deleteTs
    BY <1>1, <1>7 DEF Main_deleteTs, OneDeleter, Untouched
  <1>8. CASE Main_clearPool
    BY <1>8 DEF Main_clearPool, OneDeleter, Untouched
  <1>9. CASE Main_cancel
    BY <1>9 DEF Main_cancel, OneDeleter, Untouched
  <1>10. CASE Main_join
    BY <1>10 DEF Main_join, OneDeleter, Untouched
  <1>11. CASE Main_release
    BY <1>11 DEF Main_release, OneDeleter, Untouched
  <1>12. QED
    BY <1>2, <1>3, <1>4, <1>5, <1>6, <1>7, <1>8, <1>9, <1>10, <1>11
       DEF Main, Main_continue

LEMMA DeleterWorker ==
  ASSUME OneDeleter, NEW w \in Workers,
         Worker_packet(w) \/ Worker_touch(w) \/ Worker_cancelled(w)
  PROVE  OneDeleter'
  <1>1. UNCHANGED <<mainVars, memory, timerID, cnt, timer>>
    BY DEF Worker_packet, Worker_touch, Worker_cancelled, Undefined
  <1>2. UNCHANGED <<mpc, mk, part, timer, cnt, timerID>>
    BY <1>1 DEF mainVars, memory
  <1>3. QED
    BY <1>2, DeleterSame DEF Untouched
-----------------------------------------------------------------------------
(* No overlap.                                                             *)

\* Where the parts are, by where the last timer is.
LEMMA WhereParts ==
  ASSUME TypeOK, Queue, OneDeleter, Untouched
  PROVE  \E k \in 1 .. 9 :
           /\ Stage(k)
           /\ cnt = 0 => k = 1
           /\ \A t \in Timers : t = cnt =>
                /\ timer[t].pc \in Early => k = 1
                /\ timer[t].pc = "delete" => k = timer[t].k
                /\ timer[t].pc \in Late => k = 9
  <1>1. CASE cnt = 0
    BY <1>1 DEF OneDeleter, Timers
  <1>2. CASE cnt # 0
    <2>1. cnt \in Timers
      BY <1>2 DEF TypeOK, Timers
    <2>2. timer[cnt] \in Timer /\ timer[cnt].k \in 1 .. 8
      BY <2>1 DEF TypeOK, Timer
    <2>3. timer[cnt].pc \in Early \cup {"delete"} \cup Late
      <3>1. timer[cnt].pc # "none" /\ timer[cnt].pc # "store"
        BY <2>1 DEF Queue, Timers
      <3>2. timer[cnt].pc \in Firing \cup {"none", "asleep", "done"}
        BY <2>2 DEF Timer
      <3>3. QED
        BY <3>1, <3>2 DEF Firing, Early, Late
    <2>4. CASE timer[cnt].pc \in Early
      BY <1>2, <2>1, <2>4 DEF OneDeleter, Early, Late
    <2>5. CASE timer[cnt].pc = "delete"
      BY <1>2, <2>1, <2>2, <2>5 DEF OneDeleter, Early, Late
    <2>6. CASE timer[cnt].pc \in Late
      BY <1>2, <2>1, <2>6 DEF OneDeleter, Early, Late
    <2>7. QED
      BY <2>3, <2>4, <2>5, <2>6
  <1>3. QED
    BY <1>1, <1>2

\* A timer that is not about to touch the session.
LEMMA NotFiring ==
  ASSUME TypeOK, Queue, Alone, NoOverlap, mpc = "use" \/ ~Untouched, NEW t \in Timers
  PROVE  /\ timer[t].pc \notin Firing
         /\ mpc = "ended" => timer[t].pc # "asleep"
         /\ ~Untouched => t > cnt \/ t = cnt \/ (t < cnt /\ timer[t].pc = "done")
  <1>1. t \in Int /\ cnt \in Int /\ (t > cnt => timer[t].pc = "none")
    BY NoTimerIs
  <1>2. CASE mpc = "use"
    BY <1>1, <1>2 DEF Alone, Untouched
  <1>3. CASE ~Untouched
    <2>1. t < cnt => timer[t].pc = "done"
      BY <1>3 DEF Alone
    <2>2. t = cnt => /\ timer[t].pc \in {"asleep", "done"}
                     /\ mpc = "ended" => timer[t].pc = "done"
      BY <1>3 DEF Alone, Untouched, TypeOK
    <2>3. QED
      BY <1>1, <2>1, <2>2 DEF Firing
  <1>4. QED
    BY <1>2, <1>3

\* blame only grows.
LEMMA BlameGrows ==
  ASSUME TypeOK, Next
  PROVE  blame \subseteq blame'
  <1>1. CASE Main
    <2>1. ASSUME Main_delete PROVE blame \subseteq blame'
      BY <2>1, DeletionStep DEF Main_delete, deleteFails, TypeOK
    <2>2. QED
      BY <1>1, <2>1 DEF Main, Main_continue, Main_answer, Main_lookUp, Main_use,
         Main_test, Main_deleteTs, Main_clearPool, Main_cancel, Main_join,
         Main_release
  <1>2. ASSUME NEW t \in Timers, TimerThread(t) PROVE blame \subseteq blame'
    <2>1. ASSUME Timer_delete(t) PROVE blame \subseteq blame'
      <3>1. timer[t].k \in 1 .. 8
        BY DEF TypeOK, Timer
      <3>2. QED
        BY <2>1, <3>1, DeletionStep DEF Timer_delete, deleteFails
    <2>2. QED
      BY <1>2, <2>1 DEF TimerThread, Timer_fire, Timer_readTs, Timer_checkWeb,
         Timer_checkIms, Timer_rearm, Timer_store, Timer_finish, Timer_free,
         Timer_clear, Timer_cancelled
  <1>3. ASSUME NEW w \in Workers,
               Worker_packet(w) \/ Worker_touch(w) \/ Worker_cancelled(w)
        PROVE  blame \subseteq blame'
    BY <1>3 DEF Worker_packet, Worker_touch, Worker_cancelled
  <1>4. QED
    BY <1>1, <1>2, <1>3 DEF Next

LEMMA AloneSame ==
  ASSUME Alone, blame \subseteq blame',
         UNCHANGED <<mpc, mk, stopId, part, timer, cnt, timerID>>,
         \A w \in Workers : worker'[w] = "running" => worker[w] = "running"
  PROVE  Alone'
  <1> SUFFICES ASSUME NoOverlap' PROVE Alone'
    BY DEF Alone
  <1>1. NoOverlap
    BY DEF NoOverlap
  <1>2. \A w \in Workers : worker'[w] = "running" => part'[Owner[w]] = "live"
    BY <1>1 DEF Alone
  <1>3. mpc = "use" => Stage(1) /\ \A t \in Timers : timer[t].pc \notin Firing
    BY <1>1 DEF Alone
  <1> DEFINE Rest ==
         /\ mpc = "delete" => Stage(mk)
         /\ mpc # "delete" => Stage(9)
         /\ timerID = cnt
         /\ \A t \in Timers : t < cnt => timer[t].pc = "done" /\ Gone(timer[t])
         /\ mpc \in {"delete", "test"} => \A t \in Timers : t = cnt =>
              \/ timer[t].pc = "asleep" /\ Whole(timer[t])
              \/ timer[t].pc = "done" /\ Gone(timer[t])
         /\ mpc \in {"deleteTs", "clearPool", "cancel", "join"} =>
              stopId = cnt /\ cnt > 0
         /\ \A t \in Timers : t = cnt =>
              /\ mpc = "deleteTs" => timer[t].pc = "asleep" /\ Whole(timer[t])
              /\ mpc = "clearPool" => timer[t].pc = "asleep" /\ Freed(timer[t])
              /\ mpc = "cancel" => timer[t].pc = "asleep" /\ Gone(timer[t])
              /\ mpc = "join" => timer[t].pc \in {"asleep", "done"} /\ Gone(timer[t])
              /\ mpc \in {"release", "ended"} => timer[t].pc = "done" /\ Gone(timer[t])
  <1>4. ~Untouched => Rest
    BY <1>1 DEF Alone
  <1>5. Rest => Rest'
    BY DEF Stage, Whole, Freed, Gone
  <1>6. mpc' = "use" => Stage(1)' /\ \A t \in Timers : timer'[t].pc \notin Firing
    BY <1>3 DEF Stage
  <1>7. ~Untouched' => Rest'
    BY <1>4, <1>5 DEF Untouched
  <1>8. QED
    BY <1>2, <1>6, <1>7 DEF Alone

LEMMA AloneUndefined ==
  ASSUME Alone, NEW kind, Undefined(kind), blame \subseteq blame'
  PROVE  Alone'
  <1>1. UNCHANGED <<mainVars, memory, timerID, cnt, timer, workerVars>>
    BY DEF Undefined
  <1>2. UNCHANGED <<mpc, mk, stopId, part, timer, cnt, timerID, worker>>
    BY <1>1 DEF mainVars, memory, workerVars
  <1>3. QED
    BY <1>2, AloneSame

LEMMA AloneTimer ==
  ASSUME TypeOK, Queue, OneDeleter, Alone, blame \subseteq blame',
         NEW t \in Timers, TimerThread(t)
  PROVE  Alone'
  <1>1. ASSUME NEW kind, Undefined(kind) PROVE Alone'
    BY <1>1, AloneUndefined
  <1> SUFFICES ASSUME NoOverlap' PROVE Alone'
    BY DEF Alone
  <1>2. NoOverlap
    BY DEF NoOverlap
  <1>3. UNCHANGED mainVars
    BY DEF TimerThread, Timer_fire, Timer_readTs, Timer_checkWeb, Timer_checkIms,
           Timer_delete, Timer_rearm, Timer_store, Timer_finish, Timer_free,
           Timer_clear, Timer_cancelled, Undefined, deleteFails, Others
  <1>4. mpc' = mpc /\ mk' = mk /\ stopId' = stopId
    BY <1>3 DEF mainVars
  <1>5. CASE mpc \in {"idle", "reaped"}
    <2>1. ASSUME \A w \in Workers : worker'[w] = "running" => part'[Owner[w]] = "live"
          PROVE  Alone'
      BY <1>4, <1>5, <2>1 DEF Alone, Untouched
    <2>2. \A w \in Workers : worker[w] = "running" => part[Owner[w]] = "live"
      BY <1>2 DEF Alone
    <2>3. ASSUME UNCHANGED <<memory, workerVars>>
          PROVE  Alone'
      BY <2>1, <2>2, <2>3 DEF memory, workerVars
    <2>4. CASE Timer_delete(t) /\ self = "live" /\ deleteSession(timer[t].k)
      <3>1. timer[t].pc = "delete" /\ t = cnt /\ timer[t].k \in 1 .. 8
        BY <2>4, NoTimerIs DEF Timer_delete, TypeOK, Timer
      <3>2. Stage(timer[t].k)
        BY <1>5, <3>1 DEF OneDeleter, Untouched
      <3>3. QED
        BY <2>1, <2>2, <2>4, <3>1, <3>2, DeletionStep
    <2>5. CASE ~(Timer_delete(t) /\ self = "live" /\ deleteSession(timer[t].k))
      <3>1. Timer_delete(t) => \/ Undefined("useAfterFree")
                               \/ deleteFails(timer[t].k)
        BY <2>5 DEF Timer_delete
      <3>2. Timer_delete(t) => Alone'
        BY <1>1, <3>1 DEF deleteFails
      <3>3. ~Timer_delete(t) => UNCHANGED <<memory, workerVars>>
        BY DEF TimerThread, Timer_fire, Timer_readTs, Timer_checkWeb,
           Timer_checkIms, Timer_rearm, Timer_store, Timer_finish, Timer_free,
           Timer_clear, Timer_cancelled, Undefined, Others
      <3>4. QED
        BY <2>3, <3>2, <3>3
    <2>6. QED
      BY <2>4, <2>5
  <1>6. CASE mpc \notin {"idle", "reaped"}
    <2>1. /\ timer[t].pc \notin Firing
          /\ mpc = "ended" => timer[t].pc # "asleep"
          /\ ~Untouched => t > cnt \/ t = cnt \/ (t < cnt /\ timer[t].pc = "done")
      BY <1>2, <1>6, NotFiring DEF Untouched
    <2>2. ~Timer_fire(t)
      BY <1>6, <2>1 DEF Timer_fire, Go, NoOverlap
    <2>3. Timer_cancelled(t)
      BY <2>1, <2>2 DEF TimerThread, Timer_readTs, Timer_checkWeb, Timer_checkIms,
         Timer_delete, Timer_rearm, Timer_store, Timer_finish, Timer_free,
         Timer_clear, Go, Firing
    <2>4. timer[t].pc = "asleep" /\ mpc \in {"join", "release"}
      BY <2>1, <2>3 DEF Timer_cancelled, Queue
    <2>5. t = cnt /\ mpc = "join" /\ Gone(timer[t]) /\ ~Untouched
      BY <1>2, <2>1, <2>4, NoTimerIs DEF Alone, Untouched
    <2>6. Moves(t, "asleep", "done")
      BY <2>3, <2>4, GoMoves DEF Timer_cancelled, Go, Firing
    <2>7. UNCHANGED <<part, cnt, timerID, worker>>
      BY <2>3 DEF Timer_cancelled, Others, memory, workerVars
    <2>8. timer'[t].pc = "done" /\ Gone(timer'[t])
      BY <2>5, <2>6 DEF Moves, Gone
    <2>9. \A u \in Timers : u < cnt' => timer'[u].pc = "done" /\ Gone(timer'[u])
      <3>1. \A u \in Timers : u < cnt => timer[u].pc = "done" /\ Gone(timer[u])
        BY <1>2, <2>5 DEF Alone
      <3>2. \A u \in Timers : u < cnt => timer'[u] = timer[u]
        BY <2>5, <2>6, NoTimerIs DEF Moves
      <3>3. QED
        BY <2>7, <3>1, <3>2
    <2>10. /\ Stage(9)' /\ timerID' = cnt' /\ stopId' = cnt' /\ cnt' > 0
           /\ \A w \in Workers : worker'[w] = "running" => part'[Owner[w]] = "live"
      BY <1>2, <1>4, <2>5, <2>7 DEF Alone, Stage
    <2>11. \A u \in Timers : u = cnt' => timer'[u].pc = "done" /\ Gone(timer'[u])
      BY <2>5, <2>7, <2>8
    <2>12. mpc' = "join"
      BY <1>4, <2>5
    <2>13. QED
      BY <2>9, <2>10, <2>11, <2>12 DEF Alone, Gone
  <1>7. QED
    BY <1>5, <1>6

\* What the signalling thread finds when it looks the session up and no timer is
\* about to touch it.
LEMMA LookUpFinds ==
  ASSUME TypeOK, Queue, OneDeleter, Untouched,
         \A t \in Timers : timer[t].pc \notin Firing,
         ~(part.imsAgent = "null" /\ part.webAgent = "null")
  PROVE  /\ Stage(1) /\ timerID = cnt
         /\ \A t \in Timers : t < cnt => timer[t].pc = "done" /\ Gone(timer[t])
         /\ \A t \in Timers : t = cnt =>
              \/ timer[t].pc = "asleep" /\ Whole(timer[t])
              \/ timer[t].pc = "done" /\ Gone(timer[t])
  <1>1. PICK k \in 1 .. 9 :
           /\ Stage(k)
           /\ cnt = 0 => k = 1
           /\ \A t \in Timers : t = cnt =>
                /\ timer[t].pc \in Early => k = 1
                /\ timer[t].pc = "delete" => k = timer[t].k
                /\ timer[t].pc \in Late => k = 9
    BY WhereParts
  <1>2. ~Stage(9)
    BY StageIs DEF PartNames
  <1>3. ASSUME NEW t \in Timers, t <= cnt
        PROVE  timer[t].pc \in {"asleep", "done"}
    <2>1. timer[t].pc \in Firing \cup {"none", "asleep", "done"}
      BY DEF TypeOK, Timer
    <2>2. timer[t].pc # "none"
      BY <1>3 DEF Queue
    <2>3. QED
      BY <2>1, <2>2
  <1>4. ASSUME NEW t \in Timers, t <= cnt
        PROVE  /\ timer[t].pc = "asleep" => Whole(timer[t])
               /\ timer[t].pc = "done" => Gone(timer[t])
    BY <1>4 DEF OneDeleter
  <1>5. Stage(1)
    <2>1. CASE cnt = 0
      BY <1>1, <2>1
    <2>2. CASE cnt # 0
      <3>1. cnt \in Timers /\ cnt <= cnt
        BY <2>2 DEF TypeOK, Timers
      <3>2. timer[cnt].pc \in {"asleep", "done"}
        BY <1>3, <3>1
      <3>3. k = 1
        BY <1>1, <1>2, <3>1, <3>2 DEF Early, Late
      <3>4. QED
        BY <1>1, <3>3
    <2>3. QED
      BY <2>1, <2>2
  <1>6. timerID = cnt
    BY DEF OneDeleter, Firing
  <1>7. ASSUME NEW t \in Timers, t < cnt
        PROVE  timer[t].pc = "done" /\ Gone(timer[t])
    <2>1. t <= cnt /\ timer[t].pc # "asleep"
      BY <1>7, NoTimerIs DEF Queue, Late
    <2>2. QED
      BY <1>3, <1>4, <2>1
  <1>8. ASSUME NEW t \in Timers, t = cnt
        PROVE  \/ timer[t].pc = "asleep" /\ Whole(timer[t])
               \/ timer[t].pc = "done" /\ Gone(timer[t])
    <2>1. t <= cnt
      BY <1>8 DEF Timers
    <2>2. QED
      BY <1>3, <1>4, <2>1
  <1>9. QED
    BY <1>5, <1>6, <1>7, <1>8

LEMMA AloneMain ==
  ASSUME TypeOK, Queue, OneDeleter, Alone, blame \subseteq blame', Main
  PROVE  Alone'
  <1>1. ASSUME NEW kind, Undefined(kind) PROVE Alone'
    BY <1>1, AloneUndefined
  <1> SUFFICES ASSUME NoOverlap' PROVE Alone'
    BY DEF Alone
  <1>2. NoOverlap
    BY DEF NoOverlap
  <1>3. \A w \in Workers : worker[w] = "running" => part[Owner[w]] = "live"
    BY <1>2 DEF Alone
  <1>4. CASE Main_answer
    <2>1. mpc' = "idle"
      BY <1>4 DEF Main_answer, mainVars
    <2>2. cnt = 0 /\ part' = part
      BY <1>4 DEF Main_answer, Queue, TypeOK, memory
    <2>3. Stage(1)
      BY <1>4, <2>2 DEF Main_answer, OneDeleter, Untouched
    <2>4. \A w \in Workers : part'[Owner[w]] = "live"
      BY <2>2, <2>3, StageIs, OwnersAre
    <2>5. QED
      BY <2>1, <2>4 DEF Alone, Untouched
  <1>5. CASE Main_lookUp
    <2>1. /\ UNCHANGED <<mk, stopId, memory, timerID, cnt, timer, workerVars>>
          /\ mpc = "idle"
      BY <1>5 DEF Main_lookUp
    <2>2. UNCHANGED <<mk, stopId, part, timerID, cnt, timer, worker>>
      BY <2>1 DEF memory, workerVars
    <2>3. CASE mpc' = "reaped"
      BY <1>3, <2>2, <2>3 DEF Alone, Untouched
    <2>4. CASE mpc' # "reaped"
      <3>1. /\ mpc' \in {"use", "delete"}
            /\ \A t \in Timers : timer[t].pc \notin Firing
            /\ ~(part.imsAgent = "null" /\ part.webAgent = "null")
        BY <1>5, <2>4 DEF Main_lookUp, NoOverlap
      <3>2. /\ Stage(1) /\ timerID = cnt
            /\ \A t \in Timers : t < cnt => timer[t].pc = "done" /\ Gone(timer[t])
            /\ \A t \in Timers : t = cnt =>
                 \/ timer[t].pc = "asleep" /\ Whole(timer[t])
                 \/ timer[t].pc = "done" /\ Gone(timer[t])
        BY <2>1, <3>1, LookUpFinds DEF Untouched
      <3>3. mk' = 1 /\ Stage(1)'
        BY <2>1, <2>2, <3>2 DEF OneDeleter, Untouched, Stage
      <3>4. CASE mpc' = "use"
        BY <1>3, <2>2, <3>1, <3>3, <3>4 DEF Alone, Untouched
      <3>5. CASE mpc' = "delete"
        BY <1>3, <2>2, <3>2, <3>3, <3>5 DEF Alone, Untouched, Whole, Gone
      <3>6. QED
        BY <3>1, <3>4, <3>5
    <2>5. QED
      BY <2>3, <2>4
  <1>6. CASE Main_use
    <2>1. CASE \E p \in DOMAIN part : Undefined(Bad(p))
      BY <1>1, <2>1
    <2>2. CASE ~(\E p \in DOMAIN part : Undefined(Bad(p)))
      BY <1>3, <1>6, <2>2 DEF Main_use, memory, workerVars, Alone, Untouched
    <2>3. QED
      BY <2>1, <2>2
  <1>7. CASE Main_delete
    <2>1. CASE deleteFails(mk)
      BY <1>1, <2>1 DEF deleteFails
    <2>2. CASE ~deleteFails(mk)
      <3>1. /\ deleteSession(mk) /\ mk \in 1 .. 8 /\ mpc = "delete"
            /\ UNCHANGED <<stopId, timerID, cnt, timer>>
            /\ \/ mk = 8 /\ mpc' = "test"
               \/ mk' = mk + 1 /\ mpc' = "delete"
        BY <1>7, <2>2 DEF Main_delete, TypeOK
      <3>2. /\ Stage(mk) /\ timerID = cnt
            /\ \A t \in Timers : t < cnt => timer[t].pc = "done" /\ Gone(timer[t])
            /\ \A t \in Timers : t = cnt =>
                 \/ timer[t].pc = "asleep" /\ Whole(timer[t])
                 \/ timer[t].pc = "done" /\ Gone(timer[t])
        BY <1>2, <3>1 DEF Alone, Untouched
      <3>3. /\ Staged(part', mk + 1)
            /\ \A w \in Workers : worker'[w] = "running" => part'[Owner[w]] = "live"
        BY <1>3, <3>1, <3>2, DeletionStep DEF Stage
      <3>4. CASE mk = 8 /\ mpc' = "test"
        <4>1. Stage(9)'
          BY <3>3, <3>4 DEF Stage
        <4>2. QED
          BY <3>1, <3>2, <3>3, <3>4, <4>1 DEF Alone, Untouched, Whole, Gone
      <3>5. CASE mk' = mk + 1 /\ mpc' = "delete"
        <4>1. Stage(mk)'
          BY <3>3, <3>5 DEF Stage
        <4>2. QED
          BY <3>1, <3>2, <3>3, <3>5, <4>1 DEF Alone, Untouched, Whole, Gone
      <3>6. QED
        BY <3>1, <3>4, <3>5
    <2>3. QED
      BY <2>1, <2>2
  \* The rest of the way, with all parts deleted.
  <1>8. ASSUME mpc \in {"test", "deleteTs", "clearPool", "cancel", "join", "release"},
               mpc' \in {"deleteTs", "clearPool", "cancel", "join", "release", "ended"},
               UNCHANGED <<part, timerID, cnt, worker>>,
               mpc' \in {"deleteTs", "clearPool", "cancel", "join"} =>
                 stopId' = cnt /\ cnt > 0,
               \A t \in Timers : t < cnt => timer'[t] = timer[t],
               \A t \in Timers : t = cnt =>
                 /\ mpc' = "deleteTs" => timer'[t].pc = "asleep" /\ Whole(timer'[t])
                 /\ mpc' = "clearPool" => timer'[t].pc = "asleep" /\ Freed(timer'[t])
                 /\ mpc' = "cancel" => timer'[t].pc = "asleep" /\ Gone(timer'[t])
                 /\ mpc' = "join" =>
                      timer'[t].pc \in {"asleep", "done"} /\ Gone(timer'[t])
                 /\ mpc' \in {"release", "ended"} =>
                      timer'[t].pc = "done" /\ Gone(timer'[t])
        PROVE  Alone'
    <2>1. Stage(9) /\ timerID = cnt
      BY <1>2, <1>8 DEF Alone, Untouched
    <2>2. \A t \in Timers : t < cnt => timer[t].pc = "done" /\ Gone(timer[t])
      BY <1>2, <1>8 DEF Alone, Untouched
    <2>3. \A t \in Timers : t < cnt' => timer'[t].pc = "done" /\ Gone(timer'[t])
      BY <1>8, <2>2
    <2>4. Stage(9)' /\ timerID' = cnt'
      BY <1>8, <2>1 DEF Stage
    <2>5. \A w \in Workers : worker'[w] = "running" => part'[Owner[w]] = "live"
      BY <1>3, <1>8
    <2>6. QED
      BY <1>8, <2>3, <2>4, <2>5 DEF Alone, Untouched, Whole, Freed, Gone
  \* A step towards the end of the timer that is still asleep.
  <1>9. ASSUME mpc \in {"deleteTs", "clearPool", "cancel"},
               UNCHANGED <<mk, stopId, memory, timerID, cnt, workerVars>>
        PROVE  /\ stopId = cnt /\ cnt > 0 /\ cnt \in Timers
               /\ timer[cnt] \in Timer /\ timer[cnt].pc = "asleep"
               /\ mpc = "deleteTs" => Whole(timer[cnt])
               /\ mpc = "clearPool" => Freed(timer[cnt])
               /\ mpc = "cancel" => Gone(timer[cnt])
               /\ UNCHANGED <<part, timerID, cnt, worker>>
               /\ stopId' = cnt /\ cnt \in Int
               /\ \A t \in Timers : t < cnt => t # stopId
    <2>1. stopId = cnt /\ cnt > 0
      BY <1>2, <1>9 DEF Alone, Untouched
    <2>2. cnt \in Timers /\ timer[cnt] \in Timer /\ cnt \in Int
      BY <2>1 DEF TypeOK, Timers
    <2>3. /\ timer[cnt].pc = "asleep"
          /\ mpc = "deleteTs" => Whole(timer[cnt])
          /\ mpc = "clearPool" => Freed(timer[cnt])
          /\ mpc = "cancel" => Gone(timer[cnt])
      BY <1>2, <1>9, <2>2 DEF Alone, Untouched
    <2>4. UNCHANGED <<part, timerID, cnt, worker>> /\ stopId' = stopId
      BY <1>9 DEF memory, workerVars
    <2>5. QED
      BY <2>1, <2>2, <2>3, <2>4 DEF Timers
  <1>10. CASE Main_test
    <2>1. /\ UNCHANGED <<timer, part, timerID, cnt, worker>> /\ mpc = "test"
          /\ stopId' = timerID
          /\ mpc' = IF timerID # 0 /\ timer[timerID].pool THEN "deleteTs" ELSE "release"
      BY <1>10 DEF Main_test, memory, workerVars
    <2>2. /\ timerID = cnt
          /\ \A t \in Timers : t = cnt => \/ timer[t].pc = "asleep" /\ Whole(timer[t])
                                          \/ timer[t].pc = "done" /\ Gone(timer[t])
      BY <1>2, <2>1 DEF Alone, Untouched
    <2>3. CASE mpc' = "deleteTs"
      <3>1. cnt > 0 /\ cnt # 0 /\ timer[cnt].pool
        BY <2>1, <2>2, <2>3 DEF TypeOK
      <3>2. \A t \in Timers : t = cnt => timer[t].pc = "asleep" /\ Whole(timer[t])
        BY <2>2, <3>1 DEF Gone
      <3>3. QED
        BY <1>8, <2>1, <2>2, <2>3, <3>1, <3>2
    <2>4. CASE mpc' = "release"
      <3>1. \A t \in Timers : t = cnt => timer[t].pc = "done" /\ Gone(timer[t])
        <4>1. \A t \in Timers : t = cnt => t # 0
          BY DEF Timers
        <4>2. \A t \in Timers : t = cnt => ~timer[t].pool
          BY <2>1, <2>2, <2>4, <4>1
        <4>3. QED
          BY <2>2, <4>2 DEF Whole
      <3>2. QED
        BY <1>8, <2>1, <2>4, <3>1
    <2>5. QED
      BY <2>1, <2>3, <2>4
  <1>11. CASE Main_deleteTs
    <2>1. CASE Undefined("doubleFree")
      BY <1>1, <2>1
    <2>2. CASE ~Undefined("doubleFree")
      <3>1. /\ deleteTs(stopId) /\ mpc' = "clearPool" /\ mpc = "deleteTs"
            /\ UNCHANGED <<mk, stopId, memory, timerID, cnt, workerVars>>
        BY <1>11, <2>2 DEF Main_deleteTs
      <3>2. Becomes(cnt, [timer[cnt] EXCEPT
                            !.ts = IF timer[cnt].pool THEN "freed" ELSE @])
        BY <1>9, <3>1, TsDeleted
      <3>3. timer'[cnt].pc = "asleep" /\ Freed(timer'[cnt])
        BY <1>9, <3>1, <3>2 DEF Becomes, Timer, Whole, Freed
      <3>4. \A t \in Timers : t < cnt => timer'[t] = timer[t]
        BY <1>9, <3>1, <3>2 DEF Becomes
      <3>5. QED
        BY <1>8, <1>9, <3>1, <3>3, <3>4
    <2>3. QED
      BY <2>1, <2>2
  <1>12. CASE Main_clearPool
    <2>1. /\ mpc' = "cancel" /\ mpc = "clearPool"
          /\ UNCHANGED <<mk, stopId, memory, timerID, cnt, workerVars>>
      BY <1>12 DEF Main_clearPool
    <2>2. Becomes(cnt, [timer[cnt] EXCEPT !.pool = FALSE])
      BY <1>9, <1>12, <2>1, PoolCleared DEF Main_clearPool
    <2>3. timer'[cnt].pc = "asleep" /\ Gone(timer'[cnt])
      BY <1>9, <2>1, <2>2 DEF Becomes, Timer, Gone, Freed
    <2>4. \A t \in Timers : t < cnt => timer'[t] = timer[t]
      BY <1>9, <2>1, <2>2 DEF Becomes
    <2>5. QED
      BY <1>8, <1>9, <2>1, <2>3, <2>4
  <1>13. CASE Main_cancel
    <2>1. /\ mpc' = "join" /\ mpc = "cancel"
          /\ UNCHANGED <<mk, stopId, memory, timerID, cnt, workerVars>>
      BY <1>13 DEF Main_cancel
    <2>2. Becomes(cnt, [timer[cnt] EXCEPT !.cancelled = TRUE])
      BY <1>9, <1>13, <2>1, CancelBecomes DEF Main_cancel
    <2>3. timer'[cnt].pc = "asleep" /\ Gone(timer'[cnt])
      BY <1>9, <2>1, <2>2 DEF Becomes, Timer, Gone
    <2>4. \A t \in Timers : t < cnt => timer'[t] = timer[t]
      BY <1>9, <2>1, <2>2 DEF Becomes
    <2>5. QED
      BY <1>8, <1>9, <2>1, <2>3, <2>4
  <1>14. CASE Main_join
    <2>1. /\ mpc' = "release" /\ mpc = "join" /\ timer[stopId].pc = "done"
          /\ UNCHANGED <<timer, part, timerID, cnt, worker>>
      BY <1>14 DEF Main_join, memory, workerVars
    <2>2. stopId = cnt /\ \A t \in Timers : t = cnt => Gone(timer[t])
      BY <1>2, <2>1 DEF Alone, Untouched
    <2>3. QED
      BY <1>8, <2>1, <2>2
  <1>15. CASE Main_release
    <2>1. /\ mpc' = "ended" /\ mpc = "release"
          /\ UNCHANGED <<timer, part, timerID, cnt, worker>>
      BY <1>15 DEF Main_release, memory, workerVars
    <2>2. \A t \in Timers : t = cnt => timer[t].pc = "done" /\ Gone(timer[t])
      BY <1>2, <2>1 DEF Alone, Untouched
    <2>3. QED
      BY <1>8, <2>1, <2>2
  <1>16. QED
    BY <1>4, <1>5, <1>6, <1>7, <1>10, <1>11, <1>12, <1>13, <1>14, <1>15
       DEF Main, Main_continue

LEMMA AloneWorker ==
  ASSUME TypeOK, Alone, blame \subseteq blame', NEW w \in Workers,
         Worker_packet(w) \/ Worker_touch(w) \/ Worker_cancelled(w)
  PROVE  Alone'
  <1>1. /\ UNCHANGED <<mainVars, memory, timerID, cnt, timer>>
        /\ \A u \in Workers : worker'[u] = "running" => worker[u] = "running"
    BY DEF Worker_packet, Worker_touch, Worker_cancelled, Undefined, workerVars, TypeOK
  <1>2. UNCHANGED <<mpc, mk, stopId, part, timer, cnt, timerID>>
    BY <1>1 DEF mainVars, memory
  <1>3. QED
    BY <1>1, <1>2, AloneSame
-----------------------------------------------------------------------------
(* The rest of the invariant.                                              *)

LEMMA NoTimerFails ==
  ASSUME TypeOK, Queue, OneDeleter, Alone, Blamed, NoOverlap, NEW t \in Timers,
         TimerThread(t)
  PROVE  ub' = ub
  <1>1. CASE ~Untouched
    <2>1. timer[t].pc \notin Firing
      BY <1>1, NotFiring
    <2>2. QED
      BY <2>1 DEF TimerThread, Timer_fire, Timer_readTs, Timer_checkWeb,
         Timer_checkIms, Timer_delete, Timer_rearm, Timer_store, Timer_finish,
         Timer_free, Timer_clear, Timer_cancelled, Go, Firing, Others
  <1>2. CASE Untouched
    <2>1. self = "live"
      BY <1>2 DEF Blamed, Untouched, TypeOK
    <2>2. timer[t].pc # "none" => t <= cnt /\ TsKept(timer[t]) /\ Answered
      BY <1>2, NoTimerIs DEF OneDeleter, TsKept
    <2>3. timer[t].pc \in Early =>
            part["webAgent"] = "live" /\ part["imsAgent"] = "live"
      <3>1. timer[t].pc \in Early => Stage(1)
        BY <1>2, NoTimerIs DEF OneDeleter
      <3>2. QED
        BY <3>1, StageIs DEF PartNames
    <2>4. CASE Timer_readTs(t)
      BY <2>2, <2>4 DEF Timer_readTs, TsKept, Whole, Others
    <2>5. CASE Timer_checkWeb(t)
      BY <2>1, <2>3, <2>5 DEF Timer_checkWeb, Early, Others
    <2>6. CASE Timer_checkIms(t)
      BY <2>1, <2>3, <2>6 DEF Timer_checkIms, Early, Others
    <2>7. CASE Timer_delete(t)
      <3>1. timer[t].k \in 1 .. 8 /\ timer[t].pc = "delete" /\ t = cnt
        BY <2>7, NoTimerIs DEF Timer_delete, TypeOK, Timer
      <3>2. Stage(timer[t].k) /\ Answered
        BY <1>2, <2>2, <3>1 DEF OneDeleter
      <3>3. ~deleteFails(timer[t].k)
        BY <3>1, <3>2, DeletionFails DEF Queue
      <3>4. QED
        BY <2>1, <2>7, <3>3 DEF Timer_delete
    <2>8. CASE Timer_store(t)
      BY <2>1, <2>8 DEF Timer_store
    <2>9. CASE Timer_free(t)
      BY <2>2, <2>9 DEF Timer_free, TsKept, Whole, Others
    <2>10. QED
      BY <2>4, <2>5, <2>6, <2>7, <2>8, <2>9 DEF TimerThread, Timer_fire,
         Timer_rearm, Timer_finish, Timer_clear, Timer_cancelled, Others
  <1>3. QED
    BY <1>1, <1>2

LEMMA RaceNext ==
  ASSUME TypeOK, Queue, OneDeleter, Alone, Blamed, UndefinedNeedsRace,
         blame \subseteq blame', Next
  PROVE  UndefinedNeedsRace'
  <1>1. ub = "none"
    BY DEF Next, Defined
  <1>2. CASE ub' = "none"
    BY <1>2 DEF UndefinedNeedsRace, Defined
  <1>3. ASSUME "overlap" \in blame PROVE UndefinedNeedsRace'
    BY <1>3 DEF UndefinedNeedsRace
  <1>4. ASSUME ub' # "doubleFree", blame # {} PROVE UndefinedNeedsRace'
    BY <1>4 DEF UndefinedNeedsRace
  <1>5. CASE \E t \in Timers : TimerThread(t)
    <2>1. "overlap" \in blame \/ ub' = ub
      BY <1>5, NoTimerFails DEF NoOverlap
    <2>2. QED
      BY <1>1, <1>2, <1>3, <2>1
  <1>6. CASE Main_use
    <2>1. CASE ub' = ub
      BY <1>1, <1>2, <2>1
    <2>2. CASE ub' # ub
      <3>0. PICK p \in DOMAIN part : part[p] # "live" /\ Undefined(Bad(p))
        BY <1>6, <2>2 DEF Main_use
      <3>1. ub' # "doubleFree"
        BY <3>0 DEF Undefined, Bad
      <3>2. ~Stage(1)
        BY <3>0, StageIs, PartsAre DEF PartNames, TypeOK
      <3>3. blame # {}
        BY <1>6, <3>2 DEF Alone, NoOverlap, Main_use
      <3>4. QED
        BY <1>4, <3>1, <3>3
    <2>3. QED
      BY <2>1, <2>2
  <1>7. CASE Main_delete
    <2>1. mk \in 1 .. 8 /\ mpc = "delete"
      BY <1>7 DEF Main_delete, TypeOK
    <2>2. CASE deleteFails(mk)
      <3>1. /\ ub' \in {"doubleFree", "cancelZero"}
            /\ ub' = "doubleFree" => ~Stage(mk)
            /\ ub' = "cancelZero" => ~Answered
        BY <2>1, <2>2, DeletionFails DEF Queue
      <3>2. NoOverlap => Stage(mk)
        BY <2>1 DEF Alone, Untouched
      <3>3. ~Answered => "unanswered" \in blame
        BY <2>1 DEF Blamed, Untouched
      <3>4. QED
        BY <1>3, <1>4, <3>1, <3>2, <3>3 DEF NoOverlap
    <2>3. CASE ~deleteFails(mk)
      BY <1>1, <1>2, <1>7, <2>3 DEF Main_delete
    <2>4. QED
      BY <2>2, <2>3
  <1>8. CASE Main_deleteTs
    <2>1. mpc = "deleteTs" /\ stopId \in Timers
      BY <1>8, StopIdType DEF Main_deleteTs
    <2>2. NoOverlap => timer[stopId].ts # "freed"
      <3>1. NoOverlap => stopId = cnt /\ (stopId = cnt => Whole(timer[stopId]))
        BY <2>1 DEF Alone, Untouched
      <3>2. QED
        BY <3>1 DEF Whole
    <2>3. QED
      BY <1>1, <1>2, <1>3, <1>8, <2>2 DEF Main_deleteTs, NoOverlap
  <1>9. CASE \E w \in Workers :
               Worker_packet(w) \/ Worker_touch(w) \/ Worker_cancelled(w)
    <2>1. CASE ub' # ub
      <3>1. PICK w \in Workers : Worker_touch(w) \/ Worker_cancelled(w)
        BY <1>9, <2>1 DEF Worker_packet
      <3>2. ub' = "useAfterFree"
        BY <2>1, <3>1 DEF Worker_touch, Worker_cancelled, Undefined
      <3>3. ASSUME Worker_touch(w) PROVE blame # {}
        <4>1. pending[w] # <<>> /\ part[Head(pending[w])] # "live"
          BY <2>1, <3>3 DEF Worker_touch
        <4>2. pending[w] \in Seq(PartNames)
          BY PartsAre DEF TypeOK
        <4>3. Head(pending[w]) \in PartNames
          BY <4>1, <4>2, HeadTailProperties
        <4>4. w \in Busy /\ ~Stage(1)
          BY <4>1, <4>3, StageIs DEF Busy
        <4>5. QED
          BY <4>4 DEF Blamed
      <3>4. ASSUME Worker_cancelled(w) PROVE blame # {}
        BY <3>4 DEF Worker_cancelled, Blamed
      <3>5. blame # {}
        BY <3>1, <3>3, <3>4
      <3>6. QED
        BY <1>4, <3>2, <3>5
    <2>2. QED
      BY <1>1, <1>2, <2>1
  <1>10. CASE \/ Main_answer \/ Main_lookUp \/ Main_test \/ Main_clearPool
              \/ Main_cancel \/ Main_join \/ Main_release
    BY <1>1, <1>2, <1>10 DEF Main_answer, Main_lookUp, Main_test, Main_clearPool,
       Main_cancel, Main_join, Main_release
  <1>11. QED
    BY <1>5, <1>6, <1>7, <1>8, <1>9, <1>10 DEF Next, Main, Main_continue

\* What every step does to the session and to its deletion.
LEMMA PartsNext ==
  ASSUME TypeOK, Queue, OneDeleter, Alone, Next
  PROVE  /\ \A p \in PartNames : part'[p] = "live" => part[p] = "live"
         /\ Answered => Answered'
         /\ blame' = {} /\ (Busy = {} \/ Stage(1)) => Busy' = {} \/ Stage(1)'
  <1> DEFINE Calm == Busy = {} \/ Stage(1)
  <1>0. /\ pending' = pending => Busy' = Busy
        /\ part' = part => (Stage(1)' <=> Stage(1))
    BY DEF Busy, Stage
  <1>1. ASSUME NEW k \in 1 .. 8, deleteSession(k), pending' = pending,
               blame' = {} => Stage(k)
        PROVE  /\ \A p \in PartNames : part'[p] = "live" => part[p] = "live"
               /\ Answered => Answered'
               /\ blame' = {} /\ Calm => Calm'
    <2>1. \A w \in Workers : worker'[w] = "unstarted" <=> worker[w] = "unstarted"
      BY <1>1, DeletionStep
    <2>2. Answered => Answered'
      BY <2>1, OwnersAre DEF Answered
    <2>3. \A p \in PartNames : part'[p] = "live" => part[p] = "live"
      BY <1>1, DeletionStep
    <2>4. blame' = {} /\ Calm => Busy = {}
      BY <1>1, DeletionStep
    <2>5. QED
      BY <1>0, <1>1, <2>2, <2>3, <2>4
  <1>2. ASSUME UNCHANGED <<part, pending>>, Answered => Answered'
        PROVE  /\ \A p \in PartNames : part'[p] = "live" => part[p] = "live"
               /\ Answered => Answered'
               /\ blame' = {} /\ Calm => Calm'
    BY <1>0, <1>2
  <1>3. ASSUME NEW kind, Undefined(kind)
        PROVE  UNCHANGED <<part, pending>> /\ (Answered => Answered')
    <2>1. UNCHANGED <<memory, workerVars>>
      BY <1>3 DEF Undefined
    <2>2. QED
      BY <2>1 DEF memory, workerVars, Answered
  <1>4. CASE Main
    <2>1. CASE Main_delete
      <3>1. CASE deleteFails(mk)
        BY <1>2, <1>3, <3>1 DEF deleteFails
      <3>2. CASE ~deleteFails(mk)
        <4>1. deleteSession(mk) /\ pending' = pending /\ mk \in 1 .. 8 /\ mpc = "delete"
          BY <2>1, <3>2 DEF Main_delete, TypeOK
        <4>2. blame' = {} => Stage(mk)
          <5>1. blame' = {} => NoOverlap
            BY BlameGrows DEF NoOverlap
          <5>2. QED
            BY <4>1, <5>1 DEF Alone, Untouched
        <4>3. QED
          BY <1>1, <4>1, <4>2
      <3>3. QED
        BY <3>1, <3>2
    <2>2. CASE Main_answer
      <3>1. UNCHANGED <<part, pending>>
        BY <2>2 DEF Main_answer, memory
      <3>2. ~Answered
        BY <2>2 DEF Main_answer
      <3>3. QED
        BY <1>2, <3>1, <3>2
    <2>3. CASE ~Main_delete /\ ~Main_answer
      <3>1. UNCHANGED <<part, workerVars>> \/ UNCHANGED <<memory, workerVars>>
        BY <1>4, <2>3 DEF Main, Main_continue, Main_lookUp, Main_use, Main_test,
           Main_deleteTs, Main_clearPool, Main_cancel, Main_join, Main_release,
           Undefined
      <3>2. UNCHANGED <<part, pending>> /\ (Answered => Answered')
        BY <3>1 DEF memory, workerVars, Answered
      <3>3. QED
        BY <1>2, <3>2
    <2>4. QED
      BY <2>1, <2>2, <2>3
  <1>5. CASE \E t \in Timers : TimerThread(t)
    <2>1. PICK t \in Timers : TimerThread(t)
      BY <1>5
    <2>2. CASE Timer_delete(t)
      <3>1. CASE deleteFails(timer[t].k) \/ Undefined("useAfterFree")
        BY <1>2, <1>3, <3>1 DEF deleteFails
      <3>2. CASE ~(deleteFails(timer[t].k) \/ Undefined("useAfterFree"))
        <4>1. /\ deleteSession(timer[t].k) /\ pending' = pending
              /\ timer[t].k \in 1 .. 8 /\ timer[t].pc = "delete"
          BY <2>2, <3>2 DEF Timer_delete, TypeOK, Timer
        <4>2. blame' = {} => Stage(timer[t].k)
          <5>1. blame' = {} => NoOverlap
            BY BlameGrows DEF NoOverlap
          <5>2. blame' = {} => Untouched
            BY <4>1, <5>1, NotFiring DEF Firing
          <5>3. t = cnt
            BY <4>1, NoTimerIs
          <5>4. QED
            BY <4>1, <5>2, <5>3 DEF OneDeleter
        <4>3. QED
          BY <1>1, <4>1, <4>2
      <3>3. QED
        BY <3>1, <3>2
    <2>3. CASE ~Timer_delete(t)
      <3>1. UNCHANGED <<memory, workerVars>>
        BY <2>1, <2>3 DEF TimerThread, Timer_fire, Timer_readTs, Timer_checkWeb,
           Timer_checkIms, Timer_rearm, Timer_store, Timer_finish, Timer_free,
           Timer_clear, Timer_cancelled, Undefined, Others
      <3>2. UNCHANGED <<part, pending>> /\ (Answered => Answered')
        BY <3>1 DEF memory, workerVars, Answered
      <3>3. QED
        BY <1>2, <3>2
    <2>4. QED
      BY <2>2, <2>3
  <1>6. CASE \E w \in Workers :
               Worker_packet(w) \/ Worker_touch(w) \/ Worker_cancelled(w)
    <2>1. PICK w \in Workers :
               Worker_packet(w) \/ Worker_touch(w) \/ Worker_cancelled(w)
      BY <1>6
    <2>2. CASE Worker_packet(w)
      <3>1. part' = part /\ (Answered => Answered')
        BY <2>2 DEF Worker_packet, memory, Answered
      <3>2. blame' = {} => Stage(1)
        <4>1. blame' = {} => \A p \in DOMAIN part : part[p] = "live"
          BY <2>2 DEF Worker_packet
        <4>2. DOMAIN part = PartNames
          BY PartsAre DEF TypeOK
        <4>3. QED
          BY <4>1, <4>2, StageIs
      <3>3. QED
        BY <1>0, <3>1, <3>2
    <2>3. CASE Worker_touch(w)
      <3>1. CASE Undefined("useAfterFree")
        BY <1>2, <1>3, <3>1
      <3>2. CASE ~Undefined("useAfterFree")
        <4>1. /\ pending' = [pending EXCEPT ![w] = Tail(@)] /\ pending[w] # <<>>
              /\ UNCHANGED <<mainVars, memory, timerID, cnt, timer, worker, ub>>
          BY <2>3, <3>2 DEF Worker_touch
        <4>2. w \in Busy
          BY <4>1 DEF Busy
        <4>3. Busy' \subseteq Busy
          BY <4>1, <4>2 DEF Busy, TypeOK
        <4>4. part' = part /\ (Answered => Answered')
          BY <4>1 DEF memory, Answered
        <4>5. QED
          BY <1>0, <4>2, <4>3, <4>4
      <3>3. QED
        BY <3>1, <3>2
    <2>4. CASE Worker_cancelled(w)
      <3>1. CASE Undefined("useAfterFree")
        BY <1>2, <1>3, <3>1
      <3>2. CASE ~Undefined("useAfterFree")
        <4>1. /\ worker' = [worker EXCEPT ![w] = "gone"]
              /\ UNCHANGED <<memory, pending>>
          BY <2>4, <3>2 DEF Worker_cancelled
        <4>2. Answered => Answered'
          BY <4>1 DEF Answered, TypeOK
        <4>3. QED
          BY <1>2, <4>1, <4>2 DEF memory
      <3>3. QED
        BY <3>1, <3>2
    <2>5. QED
      BY <2>1, <2>2, <2>3, <2>4
  <1>7. QED
    BY <1>4, <1>5, <1>6 DEF Next

\* Without blame no worker is cancelled that has a packet in hand.
LEMMA CancelledNext ==
  ASSUME TypeOK, Next, blame' = {}, NEW u \in Workers, worker'[u] = "cancelled"
  PROVE  worker[u] = "cancelled"
  <1>1. ASSUME NEW kind, Undefined(kind) PROVE worker' = worker
    BY <1>1 DEF Undefined, workerVars
  <1>2. ASSUME NEW k \in 1 .. 8, deleteSession(k) PROVE worker[u] = "cancelled"
    BY <1>2, DeletionStep
  <1>3. ASSUME NEW k \in 1 .. 8, deleteFails(k) PROVE worker' = worker
    BY <1>1, <1>3 DEF deleteFails
  <1>4. CASE Main
    <2>1. CASE Main_answer
      BY <2>1 DEF Main_answer, TypeOK
    <2>2. CASE Main_delete
      <3>1. mk \in 1 .. 8
        BY DEF TypeOK
      <3>2. deleteFails(mk) \/ deleteSession(mk)
        BY <2>2 DEF Main_delete
      <3>3. QED
        BY <1>2, <1>3, <3>1, <3>2
    <2>3. CASE Main_use \/ Main_deleteTs
      BY <1>1, <2>3 DEF Main_use, Main_deleteTs, workerVars
    <2>4. CASE \/ Main_lookUp \/ Main_test \/ Main_clearPool \/ Main_cancel
               \/ Main_join \/ Main_release
      BY <2>4 DEF Main_lookUp, Main_test, Main_clearPool, Main_cancel, Main_join,
         Main_release, workerVars
    <2>5. QED
      BY <1>4, <2>1, <2>2, <2>3, <2>4 DEF Main, Main_continue
  <1>5. CASE \E t \in Timers : TimerThread(t)
    <2>1. PICK t \in Timers : TimerThread(t)
      BY <1>5
    <2>2. CASE Timer_delete(t)
      <3>1. timer[t].k \in 1 .. 8
        BY DEF TypeOK, Timer
      <3>2. \/ \E kind : Undefined(kind)
            \/ deleteFails(timer[t].k) \/ deleteSession(timer[t].k)
        BY <2>2 DEF Timer_delete
      <3>3. QED
        BY <1>1, <1>2, <1>3, <3>1, <3>2
    <2>3. CASE ~Timer_delete(t)
      <3>1. worker' = worker \/ \E kind : Undefined(kind)
        BY <2>1, <2>3 DEF TimerThread, Timer_fire, Timer_readTs, Timer_checkWeb,
           Timer_checkIms, Timer_rearm, Timer_store, Timer_finish, Timer_free,
           Timer_clear, Timer_cancelled, Others, workerVars
      <3>2. QED
        BY <1>1, <3>1
    <2>4. QED
      BY <2>2, <2>3
  <1>6. CASE \E w \in Workers :
               Worker_packet(w) \/ Worker_touch(w) \/ Worker_cancelled(w)
    BY <1>1, <1>6 DEF Worker_packet, Worker_touch, Worker_cancelled, TypeOK
  <1>7. QED
    BY <1>4, <1>5, <1>6 DEF Next

LEMMA BlamedNext ==
  ASSUME TypeOK, Queue, OneDeleter, Alone, Blamed, Next
  PROVE  Blamed'
  <1>1. blame \subseteq blame'
    BY BlameGrows
  <1>2. ASSUME NEW kind, Undefined(kind) PROVE UNCHANGED <<mpc, self>>
    <2>1. UNCHANGED <<mainVars, memory>>
      BY <1>2 DEF Undefined
    <2>2. QED
      BY <2>1 DEF mainVars, memory
  <1>3. /\ self' = self \/ (self' = "deleted" /\ mpc' = "ended")
        /\ mpc' = "ended" \/ mpc # "ended"
        /\ Untouched => \/ Untouched'
                        \/ Answered \/ "unanswered" \in blame'
    <2>1. ASSUME UNCHANGED mainVars PROVE UNCHANGED mpc
      BY <2>1 DEF mainVars
    <2>2. CASE Main
      <3>1. CASE Main_answer
        BY <2>1, <3>1 DEF Main_answer, memory, Untouched
      <3>2. CASE Main_lookUp
        BY <3>2 DEF Main_lookUp, memory, Untouched
      <3>3. CASE Main_use
        BY <1>2, <3>3 DEF Main_use, memory, Untouched
      <3>4. CASE Main_delete
        <4>1. deleteFails(mk) => UNCHANGED <<mpc, self>>
          BY <1>2 DEF deleteFails
        <4>2. ~deleteFails(mk) => self' = self /\ mpc' \in {"delete", "test"}
          BY <3>4 DEF Main_delete
        <4>3. mpc = "delete"
          BY <3>4 DEF Main_delete
        <4>4. QED
          BY <4>1, <4>2, <4>3 DEF Untouched
      <3>5. CASE Main_test
        BY <3>5 DEF Main_test, memory, Untouched
      <3>6. CASE Main_deleteTs
        BY <1>2, <3>6 DEF Main_deleteTs, memory, Untouched
      <3>7. CASE Main_clearPool \/ Main_cancel \/ Main_join \/ Main_release
        BY <3>7 DEF Main_clearPool, Main_cancel, Main_join, Main_release, memory,
           Untouched
      <3>8. QED
        BY <2>2, <3>1, <3>2, <3>3, <3>4, <3>5, <3>6, <3>7 DEF Main, Main_continue
    <2>3. ASSUME NEW t \in Timers, TimerThread(t) PROVE UNCHANGED <<mpc, self>>
      <3>1. UNCHANGED <<mainVars, memory>> \/ UNCHANGED <<mainVars, self>>
        BY <2>3 DEF TimerThread, Timer_fire, Timer_readTs, Timer_checkWeb,
           Timer_checkIms, Timer_delete, Timer_rearm, Timer_store, Timer_finish,
           Timer_free, Timer_clear, Timer_cancelled, Undefined, deleteFails, Others
      <3>2. QED
        BY <3>1 DEF mainVars, memory
    <2>4. ASSUME NEW w \in Workers,
                 Worker_packet(w) \/ Worker_touch(w) \/ Worker_cancelled(w)
          PROVE  UNCHANGED <<mpc, self>>
      <3>1. UNCHANGED <<mainVars, memory>>
        BY <2>4 DEF Worker_packet, Worker_touch, Worker_cancelled, Undefined
      <3>2. QED
        BY <3>1 DEF mainVars, memory
    <2>5. QED
      BY <2>2, <2>3, <2>4 DEF Next, Untouched
  <1>4. Answered => Answered'
    BY PartsNext
  <1>5. ASSUME blame' = {}
        PROVE  Busy' = {} \/ Stage(1)'
    <2>1. Busy = {} \/ Stage(1)
      BY <1>1, <1>5 DEF Blamed
    <2>2. QED
      BY <1>5, <2>1, PartsNext
  <1>6. self' = "deleted" => mpc' = "ended"
    BY <1>3 DEF Blamed
  <1>7. ~Untouched' => Answered' \/ "unanswered" \in blame'
    BY <1>1, <1>3, <1>4 DEF Blamed
  <1>8. blame' = {} => \A w \in Workers : worker'[w] # "cancelled"
    BY <1>1, CancelledNext DEF Blamed
  <1>9. QED
    BY <1>5, <1>6, <1>7, <1>8 DEF Blamed

LEMMA ReapedNext ==
  ASSUME TypeOK, Queue, OneDeleter, Alone, ReapedIsReleased, Next, TypeOK'
  PROVE  ReapedIsReleased'
  <1>1. SUFFICES ASSUME mpc' = "reaped" PROVE \A p \in PartNames : part'[p] # "live"
    <2>1. DOMAIN part' = PartNames
      BY PartsAre DEF TypeOK
    <2>2. QED
      BY <2>1 DEF ReapedIsReleased
  <1>2. CASE mpc = "reaped"
    <2>1. \A p \in PartNames : part[p] # "live"
      BY <1>2, PartsAre DEF ReapedIsReleased, TypeOK
    <2>2. QED
      BY <2>1, PartsNext
  <1>3. CASE mpc # "reaped"
    <2>1. Main_lookUp
      <3>1. ASSUME UNCHANGED mainVars PROVE FALSE
        BY <1>1, <1>3, <3>1 DEF mainVars
      <3>2. ASSUME NEW kind, Undefined(kind) PROVE FALSE
        BY <3>1, <3>2 DEF Undefined
      <3>3. ~\E t \in Timers : TimerThread(t)
        BY <3>1 DEF TimerThread, Timer_fire, Timer_readTs, Timer_checkWeb,
           Timer_checkIms, Timer_delete, Timer_rearm, Timer_store, Timer_finish,
           Timer_free, Timer_clear, Timer_cancelled, Undefined, deleteFails, Others
      <3>4. ~\E w \in Workers :
               Worker_packet(w) \/ Worker_touch(w) \/ Worker_cancelled(w)
        BY <3>1 DEF Worker_packet, Worker_touch, Worker_cancelled, Undefined
      <3>5. ~Main_answer
        BY <3>1 DEF Main_answer
      <3>6. ~Main_delete
        BY <1>1, <1>3, <3>2 DEF Main_delete, deleteFails
      <3>7. ~Main_use /\ ~Main_deleteTs
        BY <1>1, <3>2 DEF Main_use, Main_deleteTs
      <3>8. ~(Main_test \/ Main_clearPool \/ Main_cancel \/ Main_join \/ Main_release)
        BY <1>1 DEF Main_test, Main_clearPool, Main_cancel, Main_join, Main_release
      <3>9. QED
        BY <3>3, <3>4, <3>5, <3>6, <3>7, <3>8 DEF Next, Main, Main_continue
    <2>2. /\ part["imsAgent"] = "null" /\ part' = part /\ Untouched
      BY <1>1, <2>1 DEF Main_lookUp, memory, Untouched
    <2>3. PICK k \in 1 .. 9 : Stage(k)
      BY <2>2, WhereParts
    <2>4. QED
      BY <2>2, <2>3, StageIs
  <1>4. QED
    BY <1>2, <1>3

LEMMA IInvInit == Init => IInv
  <1> SUFFICES ASSUME Init PROVE IInv
    OBVIOUS
  <1>1. TypeOK
    BY TypeInit
  <1>2. \A t \in Timers : timer[t] = NoTimer /\ t > 0
    BY DEF Init, Timers
  <1>3. NoTimer.pc = "none" /\ NoTimer.cancelled = FALSE
    BY DEF NoTimer
  <1>4. /\ cnt = 0 /\ timerID = 0 /\ stopId = 0 /\ mpc = "idle" /\ mk = 1
        /\ ub = "none" /\ self = "live" /\ blame = {}
    BY DEF Init
  <1>5. \A p \in PartNames : part[p] = "live"
    BY PartsAre DEF Init
  <1>6. Stage(1)
    BY <1>1, <1>5, StageIs
  <1>7. Queue
    <2>1. \A t \in Timers : /\ timer[t].pc = "none" /\ ~timer[t].cancelled
                            /\ ~(t <= cnt) /\ ~(t < cnt) /\ t # cnt
      BY <1>2, <1>3, <1>4 DEF Timers
    <2>2. \A w \in Workers \ Converters : worker[w] # "unstarted"
      BY DEF Init
    <2>3. QED
      BY <1>2, <1>4, <2>1, <2>2 DEF Queue, Early
  <1>8. OneDeleter
    <2>1. \A t \in Timers : ~(t <= cnt) /\ t # cnt
      BY <1>4 DEF Timers
    <2>2. QED
      BY <1>4, <1>6, <2>1 DEF OneDeleter
  <1>9. Alone
    BY <1>4, <1>5, OwnersAre DEF Alone, Untouched
  <1>10. Blamed
    <2>1. \A w \in Workers : worker[w] # "cancelled"
      BY DEF Init
    <2>2. QED
      BY <1>4, <1>6, <2>1 DEF Blamed, Untouched
  <1>11. QED
    BY <1>1, <1>4, <1>7, <1>8, <1>9, <1>10
       DEF IInv, UndefinedNeedsRace, Defined, ReapedIsReleased

LEMMA IInvNext == IInv /\ [Next]_vars => IInv'
  <1> SUFFICES ASSUME IInv, [Next]_vars PROVE IInv'
    OBVIOUS
  <1> USE DEF IInv
  <1>1. CASE Next
    <2>1. TypeOK' /\ Queue' /\ OneDeleter'
      <3>1. CASE Main
        BY <3>1, TypeMain, QueueMain, DeleterMain
      <3>2. CASE \E t \in Timers : TimerThread(t)
        BY <3>2, TypeTimer, QueueTimer, DeleterTimer
      <3>3. CASE \E w \in Workers :
                   Worker_packet(w) \/ Worker_touch(w) \/ Worker_cancelled(w)
        BY <3>3, TypeWorker, QueueWorker, DeleterWorker
      <3>4. QED
        BY <1>1, <3>1, <3>2, <3>3 DEF Next
    <2>2. blame \subseteq blame'
      BY <1>1, BlameGrows
    <2>3. Alone'
      BY <1>1, <2>2, AloneMain, AloneTimer, AloneWorker DEF Next
    <2>4. Blamed' /\ UndefinedNeedsRace' /\ ReapedIsReleased'
      BY <1>1, <2>1, <2>2, BlamedNext, RaceNext, ReapedNext
    <2>5. QED
      BY <2>1, <2>3, <2>4
  <1>2. CASE UNCHANGED vars
    <2>1. UNCHANGED <<mainVars, memory, timerID, cnt, timer, workerVars, ub, blame>>
      BY <1>2 DEF vars
    <2>2. UNCHANGED <<mpc, mk, stopId, part, self, worker, pending>>
      BY <2>1 DEF mainVars, memory, workerVars
    <2>3. TypeOK' /\ Queue'
      BY <2>1, <2>2, QueueSame DEF TypeOK, Queue
    <2>4. OneDeleter'
      BY <2>1, <2>2, DeleterSame DEF Untouched
    <2>5. Alone'
      BY <2>1, <2>2, AloneSame
    <2>6. Blamed'
      BY <2>1, <2>2 DEF Blamed, Untouched, Answered, Busy, Stage
    <2>7. UndefinedNeedsRace' /\ ReapedIsReleased'
      BY <2>1, <2>2 DEF UndefinedNeedsRace, ReapedIsReleased, Defined
    <2>8. QED
      BY <2>3, <2>4, <2>5, <2>6, <2>7
  <1>3. QED
    BY <1>1, <1>2

LEMMA IInvHolds == Spec => []IInv
  BY IInvInit, IInvNext, PTL DEF Spec
-----------------------------------------------------------------------------
(* The theorems.                                                           *)

\* The session, its timers and its workers stay what they are (TypeOK above), and
\* the ids of Timer::setTimer stay those of its map.
THEOREM TypeCorrect == Spec => []TypeOK
  <1>1. IInv => TypeOK
    BY DEF IInv
  <1>2. QED
    BY <1>1, IInvHolds, PTL

\* However many timers are set and packets carried, nothing undefined is done to a
\* session except in one of the races that blame records, and nothing is deleted
\* twice unless a timer runs out while the session is used or deleted.
THEOREM RaceNeeded == Spec => []UndefinedNeedsRace
  <1>1. IInv => UndefinedNeedsRace
    BY DEF IInv
  <1>2. QED
    BY <1>1, IInvHolds, PTL

\* ~MediaSession leaves no part, no running worker and no timer behind, whenever no
\* timer has run out meanwhile.
THEOREM NothingLeft == Spec => []AllReleased
  <1>1. IInv => AllReleased
    <2> SUFFICES ASSUME IInv, mpc = "ended", NoOverlap
                 PROVE  /\ \A p \in DOMAIN part : part[p] = "null"
                        /\ \A w \in Workers : worker[w] # "running"
                        /\ \A t \in Timers : /\ timer[t].ts # "live"
                                             /\ timer[t].pc \in {"none", "done"}
      BY DEF AllReleased, NoOverlap
    <2> USE DEF IInv
    <2>1. Stage(9) /\ DOMAIN part = PartNames
      BY PartsAre DEF Alone, Untouched, TypeOK
    <2>2. \A p \in PartNames : part[p] = "null"
      BY <2>1, StageIs
    <2>3. \A w \in Workers : worker[w] # "running"
      BY <2>2, OwnersAre DEF Alone
    <2>4. ASSUME NEW t \in Timers
          PROVE  timer[t].ts # "live" /\ timer[t].pc \in {"none", "done"}
      <3>1. /\ t \in Int /\ cnt \in Int
            /\ t > cnt => timer[t].pc = "none" /\ timer[t].ts = "none"
        BY NoTimerIs
      <3>2. t <= cnt => timer[t].pc = "done" /\ Gone(timer[t])
        BY <3>1 DEF Alone, Untouched
      <3>3. QED
        BY <3>1, <3>2 DEF Gone
    <2>5. QED
      BY <2>1, <2>2, <2>3, <2>4
  <1>2. QED
    BY <1>1, IInvHolds, PTL

\* A session that isSessionStop reports as stopped has no part left that its entry,
\* once erased, would leak.
THEOREM ReapedHasNothing == Spec => []ReapedIsReleased
  <1>1. IInv => ReapedIsReleased
    BY DEF IInv
  <1>2. QED
    BY <1>1, IInvHolds, PTL
===============================================================================
