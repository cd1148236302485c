-------------------------------- MODULE SubMG --------------------------------
(***************************************************************************)
(* The control channel between the media gateway and the transcoder hosts  *)
(* (the "sub media gateways", sub MGs): class SubMG of submg.cpp, driven    *)
(* by CodecConverter::run of codecconverter.cpp.                            *)
(*                                                                         *)
(* Two threads of the gateway share the static members of SubMG without a  *)
(* lock:                                                                   *)
(*   - the signalling thread, which is inside startFFmpeg whenever a call   *)
(*     becomes established: it sends START and polls curstate;              *)
(*   - the control thread, SubMG::run, which accepts sub MGs, receives      *)
(*     their OK_FOR_START, and drops those that close.                      *)
(* Every read or write of a shared variable is a step of its own where the *)
(* other thread can act in between.  A sub MG is external: it connects,     *)
(* answers STARTs one at a time, and may go away at any moment.             *)
(***************************************************************************)
EXTENDS Integers, Sequences, SequencesExt

CONSTANTS
  Hosts,       \* IP addresses of sub MGs
  Ports,       \* the ports a sub MG may hand out for a transcoder
  NoHost,      \* the empty std::string
  MaxId,       \* largest session id; 0x7ffffffe in the code
  MaxBacklog   \* bound: connections waiting in the listen queue

ASSUME SubMGAssumption ==
  /\ MaxId \in Nat \ {0}
  /\ MaxBacklog \in Nat \ {0}
  /\ NoHost \notin Hosts
  /\ Ports \subseteq Nat \ {0}

Ids == 1 .. MaxId

Address == [first : Hosts \cup {NoHost}, second : Ports \cup {0}]
NoAddr  == [first |-> NoHost, second |-> 0]

Ok == [ID : Ids, port : Ports]
NoMsg == [ID |-> 0, port |-> 0]

VARIABLES
  avaSubMG,   \* connected sub MGs, in order of arrival
  curstate,   \* 0 initial, 1 waiting for OK_FOR_START, 2 got it
  addr,       \* where the transcoder of a session listens
  idCnt,
  mpc, idx, pick, ret, dest,   \* the signalling thread: control point, locals
  rpc, i, fds, msg,      \* the control thread: control point, locals
  conn,       \* what each host's listed connection is: none, live, closed
  backlog,    \* hosts that have connected and are not yet accepted
  toSub,      \* STARTs travelling to a host
  fromSub,    \* OK_FOR_STARTs travelling back
  answered,   \* history: the address a sub MG gave for a session
  lost        \* history: sessions whose START died with its sub MG

mainVars == <<idx, pick, ret, dest>>
netVars  == <<conn, backlog, toSub, fromSub>>
history  == <<answered, lost>>
vars == <<avaSubMG, curstate, addr, idCnt, mpc, mainVars, rpc, i, fds, msg,
          netVars, history>>

Running == mpc # "crashed"

-----------------------------------------------------------------------------
(* The signalling thread: CodecConverter::run calling startFFmpeg.         *)

\* getVacID: counting up from idCnt, wrapping at the end of the range, id is
\* the first one that is still in its initial state.
IsVacant(id) ==
  LET Distance(n) == IF n > idCnt THEN n - idCnt ELSE n + MaxId - idCnt
  IN  /\ curstate[id] = 0
      /\ \A other \in Ids :
           curstate[other] = 0 => Distance(id) <= Distance(other)

\* Entering startFFmpeg.  When no id is vacant getVacID never returns.
Main_getVacID ==
  /\ mpc = "idle"
  /\ \/ \E id \in Ids :
          /\ IsVacant(id)
          /\ idx' = id
          /\ idCnt' = id
          /\ mpc' = "check"
     \/ /\ \A id \in Ids : curstate[id] # 0
        /\ mpc' = "searching"
        /\ UNCHANGED <<idx, idCnt>>
  /\ UNCHANGED <<avaSubMG, curstate, addr, pick, ret, dest, rpc, i, fds, msg,
                 netVars, history>>

\* The size test of startFFmpeg.
Main_check ==
  /\ mpc = "check"
  /\ IF avaSubMG = <<>>
     THEN mpc' = "return" /\ ret' = -1
     ELSE mpc' = "send" /\ UNCHANGED ret
  /\ UNCHANGED <<avaSubMG, curstate, addr, idCnt, idx, pick, dest, rpc, i,
                 fds, msg, netVars, history>>

\* rand() % avaSubMG.size(): the list is read again, and if it has become empty
\* in between, the division by zero ends the process.
Main_pick ==
  /\ mpc = "send"
  /\ \/ /\ avaSubMG = <<>>
        /\ mpc' = "crashed"
        /\ UNCHANGED pick
     \/ /\ pick' \in 1 .. Len(avaSubMG)
        /\ mpc' = "index"
  /\ UNCHANGED <<avaSubMG, curstate, addr, idCnt, idx, ret, dest, rpc, i, fds,
                 msg, netVars, history>>

\* The hosts that avaSubMG[pick] may lead to: past the end of a list that has
\* become shorter, the memory still holds the socket of some entry.
Picked == IF pick <= Len(avaSubMG) THEN {avaSubMG[pick]} ELSE Hosts

\* send to avaSubMG[pick].  A START to a host that has gone, or to a socket that
\* is no longer one, is accepted by the kernel and lost, or fails, or ends the
\* process with SIGPIPE, which the program does not handle.
Main_send ==
  /\ mpc = "index"
  /\ \/ \E h \in Picked :
          /\ conn[h] = "live"
          /\ toSub' = [toSub EXCEPT ![h] = Append(@, idx)]
          /\ mpc' = "sent"
          /\ UNCHANGED <<ret, lost>>
     \/ /\ pick <= Len(avaSubMG) => conn[avaSubMG[pick]] = "closed"
        /\ \/ mpc' = "sent" /\ lost' = lost \cup {idx} /\ UNCHANGED ret
           \/ mpc' = "return" /\ ret' = -2 /\ UNCHANGED lost
           \/ mpc' = "crashed" /\ UNCHANGED <<ret, lost>>
        /\ UNCHANGED toSub
  /\ UNCHANGED <<avaSubMG, curstate, addr, idCnt, idx, pick, dest, rpc, i,
                 fds, msg, conn, backlog, fromSub, answered>>

\* curstate[idx] = 1, after send has returned.
Main_markWaiting ==
  /\ mpc = "sent"
  /\ curstate' = [curstate EXCEPT ![idx] = 1]
  /\ mpc' = "spin"
  /\ UNCHANGED <<avaSubMG, addr, idCnt, mainVars, rpc, i, fds, msg, netVars,
                 history>>

\* Plausible bug: startFFmpeg does not wait for the answer.
Main_leaveSpinAtOnce ==
  /\ mpc = "spin"
  /\ mpc' = "readFirst"
  /\ UNCHANGED <<avaSubMG, curstate, addr, idCnt, mainVars, rpc, i, fds, msg,
                 netVars, history>>

\* Leaving the polling loop, and the assertion behind it.
Main_leaveSpin ==
  /\ mpc = "spin"
  /\ curstate[idx] # 1
  /\ mpc' = IF curstate[idx] = 2 THEN "readFirst" ELSE "crashed"
  /\ UNCHANGED <<avaSubMG, curstate, addr, idCnt, mainVars, rpc, i, fds, msg,
                 netVars, history>>

Main_readFirst ==
  /\ mpc = "readFirst"
  /\ dest' = [dest EXCEPT !.first = addr[idx].first]
  /\ mpc' = "readSecond"
  /\ UNCHANGED <<avaSubMG, curstate, addr, idCnt, idx, pick, ret, rpc, i,
                 fds, msg, netVars, history>>

Main_readSecond ==
  /\ mpc = "readSecond"
  /\ dest' = [dest EXCEPT !.second = addr[idx].second]
  /\ ret' = idx
  /\ mpc' = "return"
  /\ UNCHANGED <<avaSubMG, curstate, addr, idCnt, idx, pick, rpc, i, fds,
                 msg, netVars, history>>

\* Back in CodecConverter::run, which ignores the result and points its helper
\* at dest; the locals of the call go out of scope.
Main_return ==
  /\ mpc = "return"
  /\ mpc' = "idle"
  /\ idx' = 0 /\ pick' = 0 /\ ret' = 0 /\ dest' = NoAddr
  /\ UNCHANGED <<avaSubMG, curstate, addr, idCnt, rpc, i, fds, msg, netVars,
                 history>>

Main ==
  \/ Main_getVacID \/ Main_check \/ Main_pick \/ Main_send
  \/ Main_markWaiting \/ Main_leaveSpin \/ Main_readFirst \/ Main_readSecond \/ Main_return

-----------------------------------------------------------------------------
(* The control thread: SubMG::run.                                         *)

\* select returns: some listed socket is readable, or a connection waits.
Run_select ==
  LET readable == {h \in ToSet(avaSubMG) :
                     fromSub[h] # <<>> \/ conn[h] = "closed"}
      waiting  == IF backlog = <<>> THEN {} ELSE {NoHost}
  IN  /\ rpc = "select"
      /\ readable \cup waiting # {}
      /\ fds' = readable \cup waiting     \* NoHost stands for sockfd
      /\ rpc' = "scan"
      /\ UNCHANGED <<avaSubMG, curstate, addr, idCnt, mpc, mainVars, i, msg,
                     netVars, history>>

\* The loop over avaSubMG: an entry select did not report, or the end.
Run_scan ==
  /\ rpc = "scan"
  /\ \/ /\ i > Len(avaSubMG)
        /\ rpc' = "accept"
        /\ UNCHANGED i
     \/ /\ i <= Len(avaSubMG)
        /\ avaSubMG[i] \notin fds
        /\ i' = i + 1
        /\ UNCHANGED rpc
  /\ UNCHANGED <<avaSubMG, curstate, addr, idCnt, mpc, mainVars, fds, msg,
                 netVars, history>>

\* recv on a readable entry yields a message.
Run_recv ==
  /\ rpc = "scan"
  /\ i <= Len(avaSubMG)
  /\ avaSubMG[i] \in fds
  /\ fromSub[avaSubMG[i]] # <<>>
  /\ msg' = Head(fromSub[avaSubMG[i]])
  /\ fromSub' = [fromSub EXCEPT ![avaSubMG[i]] = Tail(@)]
  /\ rpc' = "setState"
  /\ UNCHANGED <<avaSubMG, curstate, addr, idCnt, mpc, mainVars, i, fds, conn,
                 backlog, toSub, history>>

\* recv reports that the sub MG has closed: the entry is erased, which moves
\* its successor into place i, and the loop goes on with i + 1.
Run_eof ==
  /\ rpc = "scan"
  /\ i <= Len(avaSubMG)
  /\ avaSubMG[i] \in fds
  /\ fromSub[avaSubMG[i]] = <<>>
  /\ avaSubMG' = RemoveAt(avaSubMG, i)
  /\ conn' = [conn EXCEPT ![avaSubMG[i]] = "none"]
  /\ i' = i + 1
  /\ UNCHANGED <<curstate, addr, idCnt, mpc, mainVars, rpc, fds, msg, backlog,
                 toSub, fromSub, history>>

\* Plausible bug: curstate[msg.ID] = 2 without the loop that waits for the
\* signalling thread to have recorded that START was sent.
Run_setStateAtOnce ==
  /\ rpc = "setState"
  /\ curstate' = [curstate EXCEPT ![msg.ID] = 2]
  /\ rpc' = "setFirst"
  /\ UNCHANGED <<avaSubMG, addr, idCnt, mpc, mainVars, i, fds, msg, netVars,
                 history>>

\* The wait for curstate[msg.ID] to leave 0, and the assignment behind it.
Run_setState ==
  /\ rpc = "setState"
  /\ curstate[msg.ID] # 0
  /\ curstate' = [curstate EXCEPT ![msg.ID] = 2]
  /\ rpc' = "setFirst"
  /\ UNCHANGED <<avaSubMG, addr, idCnt, mpc, mainVars, i, fds, msg, netVars,
                 history>>

\* Plausible bug: the address is taken from the wrong entry of the list.
Run_setFirstOfFront ==
  /\ rpc = "setFirst"
  /\ addr' = [addr EXCEPT ![msg.ID].first = Head(avaSubMG)]
  /\ rpc' = "setSecond"
  /\ UNCHANGED <<avaSubMG, curstate, idCnt, mpc, mainVars, i, fds, msg,
                 netVars, history>>

Run_setFirst ==
  /\ rpc = "setFirst"
  /\ addr' = [addr EXCEPT ![msg.ID].first = avaSubMG[i]]
  /\ rpc' = "setSecond"
  /\ UNCHANGED <<avaSubMG, curstate, idCnt, mpc, mainVars, i, fds, msg,
                 netVars, history>>

Run_setSecond ==
  /\ rpc = "setSecond"
  /\ addr' = [addr EXCEPT ![msg.ID].second = msg.port]
  /\ rpc' = "scan"
  /\ i' = i + 1
  /\ msg' = NoMsg
  /\ UNCHANGED <<avaSubMG, curstate, idCnt, mpc, mainVars, fds, netVars,
                 history>>

\* Plausible bug: the connection is accepted without the duplicate-IP test.
Run_acceptAny ==
  /\ rpc = "accept"
  /\ rpc' = "select"
  /\ i' = 1
  /\ fds' = {}
  /\ IF NoHost \in fds
     THEN LET h == Head(backlog) IN
          /\ backlog' = Tail(backlog)
          /\ avaSubMG' = Append(avaSubMG, h)
          /\ conn' = [conn EXCEPT ![h] = "live"]
     ELSE UNCHANGED <<avaSubMG, conn, backlog>>
  /\ UNCHANGED <<curstate, addr, idCnt, mpc, mainVars, msg, toSub, fromSub,
                 history>>

\* accept: a host that is already listed is refused.
Run_accept ==
  /\ rpc = "accept"
  /\ rpc' = "select"
  /\ i' = 1
  /\ fds' = {}
  /\ IF NoHost \in fds
     THEN LET h == Head(backlog) IN
          /\ backlog' = Tail(backlog)
          /\ IF h \in ToSet(avaSubMG)
             THEN UNCHANGED <<avaSubMG, conn>>
             ELSE /\ avaSubMG' = Append(avaSubMG, h)
                  /\ conn' = [conn EXCEPT ![h] = "live"]
     ELSE UNCHANGED <<avaSubMG, conn, backlog>>
  /\ UNCHANGED <<curstate, addr, idCnt, mpc, mainVars, msg, toSub, fromSub,
                 history>>

Run ==
  /\ Running
  /\ \/ Run_select \/ Run_scan \/ Run_recv \/ Run_eof \/ Run_setState
     \/ Run_setFirst \/ Run_setSecond \/ Run_accept

-----------------------------------------------------------------------------
(* The sub MGs.                                                            *)

Sub_connect(h) ==
  /\ Len(backlog) < MaxBacklog
  /\ backlog' = Append(backlog, h)
  /\ UNCHANGED <<avaSubMG, curstate, addr, idCnt, mpc, mainVars, rpc, i, fds,
                 msg, conn, toSub, fromSub, history>>

\* A live sub MG takes a START, starts the transcoder and answers with the
\* port that the transcoder listens on.
Sub_answer(h) ==
  /\ conn[h] = "live"
  /\ toSub[h] # <<>>
  /\ LET id == Head(toSub[h]) IN
       \E p \in Ports :
         /\ fromSub' = [fromSub EXCEPT ![h] = Append(@, [ID |-> id, port |-> p])]
         /\ answered' = [answered EXCEPT ![id] = [first |-> h, second |-> p]]
  /\ toSub' = [toSub EXCEPT ![h] = Tail(@)]
  /\ UNCHANGED <<avaSubMG, curstate, addr, idCnt, mpc, mainVars, rpc, i, fds,
                 msg, conn, backlog, lost>>

\* A sub MG goes away; STARTs it has not answered die with it, answers it has
\* sent are still received.
Sub_close(h) ==
  /\ conn[h] = "live"
  /\ conn' = [conn EXCEPT ![h] = "closed"]
  /\ lost' = lost \cup ToSet(toSub[h])
  /\ toSub' = [toSub EXCEPT ![h] = <<>>]
  /\ UNCHANGED <<avaSubMG, curstate, addr, idCnt, mpc, mainVars, rpc, i, fds,
                 msg, backlog, fromSub, answered>>

Sub == Running /\ \E h \in Hosts : Sub_connect(h) \/ Sub_answer(h) \/ Sub_close(h)

-----------------------------------------------------------------------------

Init ==
  /\ avaSubMG = <<>>
  /\ curstate = [id \in Ids |-> 0]
  /\ addr = [id \in Ids |-> NoAddr]
  /\ idCnt = 0
  /\ mpc = "idle" /\ idx = 0 /\ pick = 0 /\ ret = 0 /\ dest = NoAddr
  /\ rpc = "select" /\ i = 1 /\ fds = {} /\ msg = NoMsg
  /\ conn = [h \in Hosts |-> "none"]
  /\ backlog = <<>>
  /\ toSub = [h \in Hosts |-> <<>>]
  /\ fromSub = [h \in Hosts |-> <<>>]
  /\ answered = [id \in Ids |-> NoAddr]
  /\ lost = {}

Next == Main \/ Run \/ Sub

Spec == Init /\ [][Next]_vars

\* The two threads are scheduled by the kernel, and a sub MG that stays
\* connected answers what it is sent.
Fairness ==
  /\ WF_vars(Main)
  /\ WF_vars(Run)
  /\ \A h \in Hosts : WF_vars(Running /\ Sub_answer(h))

FairSpec == Spec /\ Fairness

-----------------------------------------------------------------------------
(* Properties.                                                             *)

\* Every shared and local variable holds a value of the type it has in the
\* code; the control thread never indexes the list beyond its end, and never
\* blocks in accept.
TypeOK ==
  /\ avaSubMG \in Seq(Hosts)
  /\ curstate \in [Ids -> 0 .. 2]
  /\ addr \in [Ids -> Address]
  /\ idCnt \in 0 .. MaxId
  /\ mpc \in {"idle", "searching", "check", "send", "index", "sent",
              "spin", "readFirst", "readSecond", "return", "crashed"}
  /\ idx \in 0 .. MaxId
  /\ (mpc \in {"check", "send", "index", "sent", "spin", "readFirst",
               "readSecond"}) => idx \in Ids
  /\ pick \in Nat
  /\ mpc = "index" => pick \in Nat \ {0}
  /\ ret \in {-2, -1, 0} \cup Ids
  /\ dest \in Address
  /\ rpc \in {"select", "scan", "setState", "setFirst", "setSecond", "accept"}
  /\ i \in Nat \ {0}
  /\ fds \subseteq Hosts \cup {NoHost}
  /\ msg \in Ok \cup {NoMsg}
  /\ (rpc \in {"setState", "setFirst", "setSecond"}) =>
       msg \in Ok /\ i \in 1 .. Len(avaSubMG)
  /\ NoHost \in fds => backlog # <<>>
  /\ conn \in [Hosts -> {"none", "live", "closed"}]
  /\ backlog \in Seq(Hosts)
  /\ toSub \in [Hosts -> Seq(Ids)]
  /\ fromSub \in [Hosts -> Seq(Ok)]
  /\ answered \in [Ids -> Address]
  /\ lost \subseteq Ids

\* No exchange is ever confused with another: the two halves of the address
\* that startFFmpeg hands back for a session are each either not yet written
\* or what a sub MG answered for this very session.
NoForeignAddress ==
  (mpc = "return" /\ ret > 0) =>
    /\ dest.first \in {NoHost, answered[ret].first}
    /\ dest.second \in {0, answered[ret].second}

\* A START or its answer is in flight for at most one session at a time, and
\* in one place: this is why one recv never finds two OK_FOR_STARTs back to
\* back, which SubMG::run would read as one.
OneExchange ==
  /\ \A h \in Hosts : Len(toSub[h]) + Len(fromSub[h]) <= 1
  /\ \A g, h \in Hosts :
       (toSub[g] \o fromSub[g] # <<>> /\ toSub[h] \o fromSub[h] # <<>>) => g = h

\* While startFFmpeg waits, its answer is still on the way - as a START, as an
\* OK_FOR_START, or in the hands of the control thread - unless the sub MG took
\* the START with it: the control thread never drops an answer that comes back
\* before curstate says that one is awaited.
AnswerNotDropped ==
  (mpc \in {"sent", "spin"} /\ curstate[idx] # 2 /\ idx \notin lost) =>
    \/ \E h \in Hosts : idx \in ToSet(toSub[h])
    \/ \E h \in Hosts : \E p \in Ports :
         [ID |-> idx, port |-> p] \in ToSet(fromSub[h])
    \/ rpc = "setState" /\ msg.ID = idx

\* A session goes through its states in order, whichever thread is ahead.
StateOrder ==
  [][\A id \in Ids : curstate'[id] \in {curstate[id], curstate[id] + 1}]_vars

\* A host is listed at most once.
ListedOnce == IsInjective(avaSubMG)

\* startFFmpeg returns whenever the sub MG it chose lives long enough to answer,
\* and a sub MG that has gone is taken off the list in the end, although the scan
\* skips the entry behind each one that it erases.
ThreadsGoOn ==
  /\ (mpc = "spin") ~> (mpc = "idle" \/ idx \in lost)
  /\ \A h \in Hosts : (conn[h] = "closed") ~> (conn[h] # "closed" \/ ~Running)

\* submg.h:31: startFFmpeg returns an id, -1 or -2.
StartAlwaysReturns == (mpc = "spin") ~> (mpc = "idle")

==============================================================================
