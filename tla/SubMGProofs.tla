----------------------------- MODULE SubMGProofs -----------------------------
(***************************************************************************)
(* Safety of the control channel between the media gateway and its sub MGs, *)
(* for every set of hosts and ports and every range of session ids.         *)
(***************************************************************************)
EXTENDS SubMG, SequenceTheorems, TLAPS

(***************************************************************************)
(* The inductive invariant.  Exchange says where the one exchange that is   *)
(* under way can be; Holding, what the control thread has in its hands;     *)
(* Written, what may be found in addr; Caller, what startFFmpeg knows.      *)
(***************************************************************************)
Asking == mpc \in {"sent", "spin"} /\ curstate[idx] # 2

Exchange ==
  /\ \A h \in Hosts : toSub[h] # <<>> =>
       /\ Asking /\ rpc # "setState"
       /\ toSub[h] = <<idx>>
       /\ answered[idx] = NoAddr
       /\ \A g \in Hosts : fromSub[g] = <<>> /\ (g # h => toSub[g] = <<>>)
  /\ \A h \in Hosts : fromSub[h] # <<>> =>
       /\ Asking /\ rpc # "setState"
       /\ fromSub[h] = <<[ID |-> idx, port |-> answered[idx].second]>>
       /\ answered[idx].first = h
       /\ \A g \in Hosts : toSub[g] = <<>> /\ (g # h => fromSub[g] = <<>>)

Holding ==
  /\ rpc = "setState" =>
       /\ Asking
       /\ msg.ID = idx
       /\ \A h \in Hosts : toSub[h] = <<>> /\ fromSub[h] = <<>>
  /\ rpc \in {"setFirst", "setSecond"} => curstate[msg.ID] = 2
  /\ rpc \in {"setState", "setFirst", "setSecond"} =>
       /\ avaSubMG[i] = answered[msg.ID].first
       /\ msg.port = answered[msg.ID].second

Written ==
  \A id \in Ids :
    /\ addr[id].first \in {NoHost, answered[id].first}
    /\ addr[id].second \in {0, answered[id].second}
    /\ (curstate[id] = 0 /\ ~(mpc = "sent" /\ id = idx)) => answered[id] = NoAddr

Caller ==
  /\ mpc \in {"check", "send", "index", "sent"} => curstate[idx] = 0
  /\ mpc = "spin" => curstate[idx] # 0
  /\ mpc \in {"readFirst", "readSecond"} => curstate[idx] = 2
  /\ mpc = "readSecond" => dest.first \in {NoHost, answered[idx].first}
  /\ (mpc = "return" /\ ret > 0) =>
       /\ ret = idx
       /\ curstate[idx] = 2
       /\ dest.first \in {NoHost, answered[idx].first}
       /\ dest.second \in {0, answered[idx].second}
  /\ mpc # "return" => ret = 0

IInv == TypeOK /\ Exchange /\ Holding /\ Written /\ Caller /\ AnswerNotDropped

-----------------------------------------------------------------------------
(* Erasing an element of a sequence and the elements of a sequence.        *)

LEMMA RemoveAtType ==
  ASSUME NEW S, NEW s \in Seq(S), NEW n \in 1 .. Len(s)
  PROVE  RemoveAt(s, n) \in Seq(S)
<1>1. \A k \in 1 .. (n - 1) : s[k] \in S
  BY ElementOfSeq, LenProperties
<1>2. \A k \in (n + 1) .. Len(s) : s[k] \in S
  BY ElementOfSeq, LenProperties
<1>3. SubSeq(s, 1, n - 1) \in Seq(S)
  BY <1>1, SubSeqProperties
<1>4. SubSeq(s, n + 1, Len(s)) \in Seq(S)
  BY <1>2, LenProperties, SubSeqProperties
<1>5. QED
  BY <1>3, <1>4, ConcatProperties DEF RemoveAt

LEMMA AppendNonEmpty ==
  ASSUME NEW S, NEW s \in Seq(S), NEW e \in S
  PROVE  Append(s, e) \in Seq(S) /\ Append(s, e) # <<>>
BY AppendProperties, Zenon

LEMMA ToSetType ==
  ASSUME NEW S, NEW s \in Seq(S)
  PROVE  ToSet(s) \subseteq S
BY LenProperties, ElementOfSeq DEF ToSet

-----------------------------------------------------------------------------
LEMMA TypeInit == Init => TypeOK
BY SubMGAssumption, EmptySeq DEF Init, TypeOK, Ids, Address, NoAddr

(* Every behaviour keeps the types of TypeOK: the threads never index the  *)
(* list or the maps outside their domains.                                 *)
THEOREM TypeCorrect == Spec => []TypeOK
<1>1. Init => TypeOK
  BY TypeInit
<1>2. TypeOK /\ [Next]_vars => TypeOK'
  <2> SUFFICES ASSUME TypeOK, [Next]_vars
               PROVE  TypeOK'
    OBVIOUS
  <2> USE SubMGAssumption DEF TypeOK, mainVars, netVars, history, Ids
  <2>1. CASE Main_getVacID
    BY <2>1 DEF Main_getVacID
  <2>2. CASE Main_check
    BY <2>2 DEF Main_check
  <2>3. CASE Main_send
    <3>1. \A h \in Picked : h \in Hosts
      BY <2>3, ElementOfSeq DEF Picked, Main_send
    <3>2. idx \in Ids
      BY <2>3 DEF Main_send
    <3>3. ASSUME NEW h \in Hosts, toSub' = [toSub EXCEPT ![h] = Append(@, idx)],
                 mpc' = "sent", UNCHANGED <<ret, lost>>
          PROVE  TypeOK'
      <4>1. Append(toSub[h], idx) \in Seq(Ids)
        BY <3>2, AppendProperties
      <4>2. toSub' \in [Hosts -> Seq(Ids)]
        BY <3>3, <4>1, ZenonT(40)
      <4>3. QED
        BY <2>3, <3>3, <4>2 DEF Main_send
    <3>4. CASE mpc' = "sent" /\ lost' = lost \cup {idx} /\ UNCHANGED <<ret, toSub>>
      BY <2>3, <3>2, <3>4 DEF Main_send
    <3>5. CASE mpc' = "return" /\ ret' = -2 /\ UNCHANGED <<toSub, lost>>
      BY <2>3, <3>5 DEF Main_send
    <3>6. CASE mpc' = "crashed" /\ UNCHANGED <<ret, toSub, lost>>
      BY <2>3, <3>6 DEF Main_send
    <3>7. QED
      BY <2>3, <3>1, <3>3, <3>4, <3>5, <3>6 DEF Main_send
  <2>30. CASE Main_pick
    <3>1. mpc = "send" /\ idx \in Ids /\ Len(avaSubMG) \in Nat
      BY <2>30, LenProperties DEF Main_pick
    <3>2. CASE mpc' = "crashed" /\ UNCHANGED pick
      BY <2>30, <3>2 DEF Main_pick
    <3>3. CASE pick' \in 1 .. Len(avaSubMG) /\ mpc' = "index"
      <4>1. pick' \in Nat \ {0}
        BY <3>1, <3>3
      <4>2. QED
        BY <2>30, <3>1, <3>3, <4>1 DEF Main_pick
    <3>4. QED
      BY <2>30, <3>2, <3>3 DEF Main_pick
  <2>4. CASE Main_markWaiting
    BY <2>4 DEF Main_markWaiting
  <2>5. CASE Main_leaveSpin
    BY <2>5 DEF Main_leaveSpin
  <2>6. CASE Main_readFirst
    BY <2>6 DEF Main_readFirst, Address
  <2>7. CASE Main_readSecond
    <3>1. [dest EXCEPT !.second = addr[idx].second] \in Address
      BY <2>7 DEF Main_readSecond, Address
    <3>2. QED
      BY <2>7, <3>1 DEF Main_readSecond
  <2>8. CASE Main_return
    <3>1. NoAddr \in Address
      BY DEF Address, NoAddr
    <3>2. QED
      BY <2>8, <3>1 DEF Main_return
  <2>9. CASE Run_select
    BY <2>9, ToSetType DEF Run_select
  <2>10. CASE Run_scan
    <3>1. i' \in Nat \ {0}
      BY <2>10 DEF Run_scan
    <3>2. rpc' \in {"scan", "accept"}
      BY <2>10 DEF Run_scan
    <3>3. QED
      BY <2>10, <3>1, <3>2 DEF Run_scan
  <2>11. CASE Run_recv
    <3>1. avaSubMG[i] \in Hosts /\ i \in 1 .. Len(avaSubMG)
      BY <2>11, LenProperties, ElementOfSeq DEF Run_recv
    <3>2. /\ Head(fromSub[avaSubMG[i]]) \in Ok
          /\ Tail(fromSub[avaSubMG[i]]) \in Seq(Ok)
      BY <2>11, <3>1, HeadTailProperties DEF Run_recv
    <3>3. fromSub' \in [Hosts -> Seq(Ok)] /\ msg' \in Ok
      BY <2>11, <3>1, <3>2 DEF Run_recv
    <3>4. QED
      BY <2>11, <3>1, <3>3 DEF Run_recv
  <2>12. CASE Run_eof
    <3>1. i \in 1 .. Len(avaSubMG)
      BY <2>12, LenProperties DEF Run_eof
    <3>2. RemoveAt(avaSubMG, i) \in Seq(Hosts)
      BY <3>1, RemoveAtType
    <3>3. avaSubMG[i] \in Hosts
      BY <3>1, ElementOfSeq
    <3>4. conn' = [conn EXCEPT ![avaSubMG[i]] = "none"]
      BY <2>12 DEF Run_eof
    <3>5. conn' \in [Hosts -> {"none", "live", "closed"}]
      BY <3>3, <3>4
    <3>6. i' \in Nat \ {0}
      BY <2>12 DEF Run_eof
    <3>7. QED
      BY <2>12, <3>2, <3>5, <3>6 DEF Run_eof
  <2>13. CASE Run_setState
    <3>1. msg \in Ok /\ msg.ID \in Ids
      BY <2>13 DEF Run_setState, Ok
    <3>2. curstate' \in [Ids -> 0 .. 2]
      BY <2>13, <3>1 DEF Run_setState
    <3>3. QED
      BY <2>13, <3>1, <3>2 DEF Run_setState
  <2>14. CASE Run_setFirst
    <3>1. msg.ID \in Ids /\ i \in 1 .. Len(avaSubMG)
      BY <2>14, LenProperties DEF Run_setFirst, Ok
    <3>2. addr' \in [Ids -> Address]
      <4>1. avaSubMG[i] \in Hosts
        BY <3>1, ElementOfSeq
      <4>2. [addr[msg.ID] EXCEPT !.first = avaSubMG[i]] \in Address
        BY <3>1, <4>1 DEF Address
      <4>3. QED
        BY <2>14, <3>1, <4>2 DEF Run_setFirst
    <3>3. QED
      BY <2>14, <3>1, <3>2 DEF Run_setFirst
  <2>15. CASE Run_setSecond
    <3>1. msg \in Ok /\ msg.ID \in Ids /\ msg.port \in Ports
      BY <2>15 DEF Run_setSecond, Ok
    <3>2. addr' \in [Ids -> Address]
      <4>1. [addr[msg.ID] EXCEPT !.second = msg.port] \in Address
        BY <3>1 DEF Address
      <4>2. QED
        BY <2>15, <3>1, <4>1 DEF Run_setSecond
    <3>3. i' \in Nat \ {0} /\ msg' = NoMsg
      <4>1. i' = i + 1 /\ msg' = NoMsg
        BY <2>15 DEF Run_setSecond
      <4>2. QED
        BY <4>1
    <3>4. /\ rpc' = "scan"
          /\ UNCHANGED <<avaSubMG, curstate, idCnt, mpc, mainVars, fds, netVars,
                         history>>
      BY <2>15 DEF Run_setSecond
    <3>5. QED
      BY <3>2, <3>3, <3>4
  <2>16. CASE Run_accept
    <3>1. CASE NoHost \notin fds
      BY <2>16, <3>1 DEF Run_accept
    <3>2. CASE NoHost \in fds
      <4>1. backlog # <<>>
        BY <3>2
      <4>2. Head(backlog) \in Hosts /\ Tail(backlog) \in Seq(Hosts)
        BY <4>1, HeadTailProperties
      <4>3. Append(avaSubMG, Head(backlog)) \in Seq(Hosts)
        BY <4>2, AppendProperties
      <4>4. conn' \in [Hosts -> {"none", "live", "closed"}]
        BY <2>16, <3>2, <4>2 DEF Run_accept
      <4>5. avaSubMG' \in Seq(Hosts) /\ backlog' \in Seq(Hosts)
        BY <2>16, <3>2, <4>2, <4>3 DEF Run_accept
      <4>6. QED
        BY <2>16, <4>4, <4>5 DEF Run_accept
    <3>3. QED
      BY <3>1, <3>2
  <2>17. ASSUME NEW h \in Hosts, Sub_connect(h)
         PROVE  TypeOK'
    <3>1. Append(backlog, h) \in Seq(Hosts) /\ Append(backlog, h) # <<>>
      BY AppendNonEmpty
    <3>2. backlog' \in Seq(Hosts) /\ backlog' # <<>>
      BY <2>17, <3>1 DEF Sub_connect
    <3>3. UNCHANGED <<avaSubMG, curstate, addr, idCnt, mpc, mainVars, rpc, i,
                      fds, msg, conn, toSub, fromSub, history>>
      BY <2>17 DEF Sub_connect
    <3>4. QED
      BY <3>2, <3>3
  <2>18. ASSUME NEW h \in Hosts, Sub_answer(h)
         PROVE  TypeOK'
    <3>1. Head(toSub[h]) \in Ids /\ Tail(toSub[h]) \in Seq(Ids)
      BY <2>18, HeadTailProperties DEF Sub_answer
    <3>2. PICK p \in Ports :
            /\ fromSub' = [fromSub EXCEPT
                            ![h] = Append(@, [ID |-> Head(toSub[h]), port |-> p])]
            /\ answered' = [answered EXCEPT
                             ![Head(toSub[h])] = [first |-> h, second |-> p]]
      BY <2>18 DEF Sub_answer
    <3>3. [ID |-> Head(toSub[h]), port |-> p] \in Ok
      BY <3>1 DEF Ok
    <3>4. Append(fromSub[h], [ID |-> Head(toSub[h]), port |-> p]) \in Seq(Ok)
      BY <3>3, AppendProperties
    <3>5. [first |-> h, second |-> p] \in Address
      BY DEF Address
    <3>6. fromSub' \in [Hosts -> Seq(Ok)] /\ answered' \in [Ids -> Address]
      BY <3>1, <3>2, <3>4, <3>5
    <3>7. toSub' \in [Hosts -> Seq(Ids)]
      BY <2>18, <3>1 DEF Sub_answer
    <3>8. UNCHANGED <<avaSubMG, curstate, addr, idCnt, mpc, mainVars, rpc, i,
                      fds, msg, conn, backlog, lost>>
      BY <2>18 DEF Sub_answer
    <3>9. QED
      BY <3>6, <3>7, <3>8, SMTT(30)
  <2>19. ASSUME NEW h \in Hosts, Sub_close(h)
         PROVE  TypeOK'
    <3>1. conn' \in [Hosts -> {"none", "live", "closed"}]
      BY <2>19 DEF Sub_close
    <3>2. <<>> \in Seq(Ids)
      BY EmptySeq
    <3>3. toSub' \in [Hosts -> Seq(Ids)]
      BY <2>19, <3>2 DEF Sub_close
    <3>4. lost' \subseteq Ids
      BY <2>19, ToSetType DEF Sub_close
    <3>5. UNCHANGED <<avaSubMG, curstate, addr, idCnt, mpc, mainVars, rpc, i,
                      fds, msg, backlog, fromSub, answered>>
      BY <2>19 DEF Sub_close
    <3>6. QED
      BY <3>1, <3>3, <3>4, <3>5
  <2>20. CASE UNCHANGED vars
    BY <2>20 DEF vars
  <2>21. QED
    BY <2>1, <2>2, <2>3, <2>4, <2>5, <2>6, <2>7, <2>8, <2>9, <2>10, <2>11,
       <2>12, <2>13, <2>14, <2>15, <2>16, <2>17, <2>18, <2>19, <2>20,
       <2>30
       DEF Next, Main, Run, Sub
<1>3. QED
  BY <1>1, <1>2, PTL DEF Spec

-----------------------------------------------------------------------------
LEMMA Singleton ==
  ASSUME NEW S, NEW x \in S
  PROVE  /\ Append(<<>>, x) = <<x>>
         /\ Head(<<x>>) = x
         /\ Tail(<<x>>) = <<>>
         /\ <<x>> # <<>>
         /\ Len(<<x>>) = 1
         /\ ToSet(<<x>>) = {x}
<1>1. DOMAIN <<x>> = {1} /\ <<x>>[1] = x
  OBVIOUS
<1>2. ToSet(<<x>>) = {x}
  BY <1>1 DEF ToSet
<1>3. Append(<<>>, x) = <<x>> /\ Head(<<x>>) = x /\ Len(<<x>>) = 1
  OBVIOUS
<1>4. Tail(<<x>>) = <<>> /\ <<x>> # <<>>
  OBVIOUS
<1>5. QED
  BY <1>2, <1>3, <1>4

THEOREM IInvHolds == Spec => []IInv
<1>1. Init => IInv
  BY TypeInit, SubMGAssumption
     DEF IInv, Init, Exchange, Holding, Written, Caller, AnswerNotDropped,
         NoAddr, Ids
<1>2. IInv /\ TypeOK' /\ [Next]_vars => IInv'
  <2> SUFFICES ASSUME IInv, TypeOK', [Next]_vars
               PROVE  IInv'
    OBVIOUS
  <2> USE SubMGAssumption DEF IInv, TypeOK, mainVars, netVars, history, Ids,
                              Asking
  <2>1. CASE Main_getVacID
    <3>1. Exchange'
      BY <2>1 DEF Main_getVacID, Exchange
    <3>2. Holding'
      BY <2>1 DEF Main_getVacID, Holding
    <3>3. Written'
      BY <2>1 DEF Main_getVacID, Written
    <3>4. Caller'
      BY <2>1 DEF Main_getVacID, Caller, IsVacant
    <3>5. AnswerNotDropped'
      BY <2>1 DEF Main_getVacID, AnswerNotDropped
    <3>6. QED
      BY <3>1, <3>2, <3>3, <3>4, <3>5
  <2>2. CASE Main_check
    <3>1. Exchange'
      BY <2>2 DEF Main_check, Exchange
    <3>2. Holding'
      BY <2>2 DEF Main_check, Holding
    <3>3. Written'
      BY <2>2 DEF Main_check, Written
    <3>4. Caller'
      BY <2>2 DEF Main_check, Caller
    <3>5. AnswerNotDropped'
      BY <2>2 DEF Main_check, AnswerNotDropped
    <3>6. QED
      BY <3>1, <3>2, <3>3, <3>4, <3>5
  <2>3. CASE Main_send
    <3>1. Exchange'
      <4>1. idx \in Ids /\ curstate[idx] = 0 /\ answered[idx] = NoAddr
        BY <2>3 DEF Main_send, Caller, Written
      <4>2. /\ rpc # "setState"
            /\ \A g \in Hosts : toSub[g] = <<>> /\ fromSub[g] = <<>>
        BY <2>3 DEF Main_send, Exchange, Holding
      <4>3. \A h \in Picked : h \in Hosts
        BY <2>3, ElementOfSeq DEF Picked, Main_send
      <4>4. CASE UNCHANGED toSub
        BY <2>3, <4>2, <4>4 DEF Main_send, Exchange
      <4>5. ASSUME NEW h \in Hosts, mpc' = "sent",
                   toSub' = [toSub EXCEPT ![h] = Append(@, idx)]
            PROVE  Exchange'
        <5>1. toSub' = [toSub EXCEPT ![h] = <<idx>>]
          BY <4>1, <4>2, <4>5, Singleton
        <5>2. UNCHANGED <<idx, curstate, fromSub, rpc, answered>>
          BY <2>3 DEF Main_send
        <5>3. /\ toSub'[h] = <<idx>>
              /\ \A g \in Hosts : fromSub'[g] = <<>> /\ (g # h => toSub'[g] = <<>>)
          BY <4>2, <5>1, <5>2
        <5>4. Asking' /\ rpc' # "setState" /\ answered'[idx'] = NoAddr
          BY <4>1, <4>2, <4>5, <5>2
        <5>5. QED
          BY <5>2, <5>3, <5>4 DEF Exchange
      <4>6. QED
        BY <2>3, <4>3, <4>4, <4>5 DEF Main_send
    <3>2. Holding'
      BY <2>3 DEF Main_send, Holding
    <3>3. Written'
      BY <2>3 DEF Main_send, Written
    <3>4. Caller'
      BY <2>3 DEF Main_send, Caller
    <3>5. AnswerNotDropped'
      <4>1. idx \in Ids /\ curstate[idx] = 0 /\ answered[idx] = NoAddr
        BY <2>3 DEF Main_send, Caller, Written
      <4>2. /\ rpc # "setState"
            /\ \A g \in Hosts : toSub[g] = <<>> /\ fromSub[g] = <<>>
        BY <2>3 DEF Main_send, Exchange, Holding
      <4>3. \A h \in Picked : h \in Hosts
        BY <2>3, ElementOfSeq DEF Picked, Main_send
      <4>4. ASSUME NEW h \in Hosts,
                   toSub' = [toSub EXCEPT ![h] = Append(@, idx)]
            PROVE  idx \in ToSet(toSub'[h])
        <5>1. toSub'[h] = <<idx>>
          BY <4>1, <4>2, <4>4, Singleton, ZenonT(40)
        <5>2. ToSet(<<idx>>) = {idx}
          BY <4>1, Singleton, Zenon
        <5>3. QED
          BY <5>1, <5>2
      <4>5. UNCHANGED idx
        BY <2>3 DEF Main_send
      <4>6. mpc' # "spin"
        BY <2>3 DEF Main_send
      <4>7. mpc' = "sent" =>
              \/ idx \in lost'
              \/ \E h \in Hosts : toSub' = [toSub EXCEPT ![h] = Append(@, idx)]
        BY <2>3, <4>3 DEF Main_send
      <4>8. QED
        BY <4>4, <4>5, <4>6, <4>7 DEF AnswerNotDropped
    <3>6. QED
      BY <3>1, <3>2, <3>3, <3>4, <3>5
  <2>30. CASE Main_pick
    <3>1. Exchange'
      BY <2>30 DEF Main_pick, Exchange
    <3>2. Holding'
      BY <2>30 DEF Main_pick, Holding
    <3>3. Written'
      BY <2>30 DEF Main_pick, Written
    <3>4. Caller'
      BY <2>30 DEF Main_pick, Caller
    <3>5. AnswerNotDropped'
      BY <2>30 DEF Main_pick, AnswerNotDropped
    <3>6. QED
      BY <3>1, <3>2, <3>3, <3>4, <3>5
  <2>4. CASE Main_markWaiting
    <3>1. Exchange'
      <4>1. Asking /\ Asking'
        BY <2>4 DEF Main_markWaiting, Caller
      <4>2. UNCHANGED <<idx, rpc, msg, toSub, fromSub, answered, lost>>
        BY <2>4 DEF Main_markWaiting
      <4>3. QED
        BY <4>1, <4>2 DEF Exchange
    <3>2. Holding'
      <4>1. /\ idx \in Ids /\ curstate' = [curstate EXCEPT ![idx] = 1]
            /\ mpc' = "spin" /\ mpc = "sent" /\ curstate[idx] = 0
            /\ UNCHANGED <<idx, rpc, msg, netVars, history, i, avaSubMG>>
        BY <2>4 DEF Main_markWaiting, Caller
      <4>2. rpc \in {"setState", "setFirst", "setSecond"} => msg.ID \in Ids
        BY DEF Ok
      <4>3. rpc \in {"setFirst", "setSecond"} => curstate'[msg.ID] = 2
        BY <4>1, <4>2 DEF Holding
      <4>4. QED
        BY <4>1, <4>3 DEF Holding
    <3>3. Written'
      BY <2>4 DEF Main_markWaiting, Written
    <3>4. Caller'
      BY <2>4 DEF Main_markWaiting, Caller
    <3>5. AnswerNotDropped'
      <4>1. Asking /\ Asking'
        BY <2>4 DEF Main_markWaiting, Caller
      <4>2. UNCHANGED <<idx, rpc, msg, toSub, fromSub, answered, lost>>
        BY <2>4 DEF Main_markWaiting
      <4>3. QED
        BY <4>1, <4>2 DEF AnswerNotDropped
    <3>6. QED
      BY <3>1, <3>2, <3>3, <3>4, <3>5
  <2>5. CASE Main_leaveSpin
    <3>1. Exchange'
      <4>1. ~Asking /\ ~Asking' /\ UNCHANGED <<idx, rpc, msg, netVars, history>>
        BY <2>5 DEF Main_leaveSpin, Caller
      <4>2. QED
        BY <4>1 DEF Exchange
    <3>2. Holding'
      <4>1. ~Asking
        BY <2>5 DEF Main_leaveSpin, Caller
      <4>2. UNCHANGED <<curstate, idx, rpc, i, avaSubMG, msg, netVars, history>>
        BY <2>5 DEF Main_leaveSpin
      <4>3. QED
        BY <4>1, <4>2 DEF Holding
    <3>3. Written'
      BY <2>5 DEF Main_leaveSpin, Written
    <3>4. Caller'
      BY <2>5 DEF Main_leaveSpin, Caller
    <3>5. AnswerNotDropped'
      BY <2>5 DEF Main_leaveSpin, AnswerNotDropped
    <3>6. QED
      BY <3>1, <3>2, <3>3, <3>4, <3>5
  <2>6. CASE Main_readFirst
    <3>1. Exchange'
      BY <2>6 DEF Main_readFirst, Exchange
    <3>2. Holding'
      BY <2>6 DEF Main_readFirst, Holding
    <3>3. Written'
      BY <2>6 DEF Main_readFirst, Written
    <3>4. Caller'
      <4>1. idx \in Ids /\ dest'.first = addr[idx].first /\ mpc' = "readSecond"
        BY <2>6 DEF Main_readFirst, Address
      <4>2. addr[idx].first \in {NoHost, answered[idx].first}
        BY <4>1 DEF Written
      <4>3. UNCHANGED <<curstate, idx, ret, answered>>
        BY <2>6 DEF Main_readFirst
      <4>4. QED
        BY <2>6, <4>1, <4>2, <4>3 DEF Main_readFirst, Caller
    <3>5. AnswerNotDropped'
      BY <2>6 DEF Main_readFirst, AnswerNotDropped
    <3>6. QED
      BY <3>1, <3>2, <3>3, <3>4, <3>5
  <2>7. CASE Main_readSecond
    <3>1. Exchange'
      BY <2>7 DEF Main_readSecond, Exchange
    <3>2. Holding'
      BY <2>7 DEF Main_readSecond, Holding
    <3>3. Written'
      BY <2>7 DEF Main_readSecond, Written
    <3>4. Caller'
      <4>1. /\ idx \in Ids /\ dest'.second = addr[idx].second
            /\ dest'.first = dest.first
            /\ mpc' = "return" /\ ret' = idx
        BY <2>7 DEF Main_readSecond, Address
      <4>2. addr[idx].second \in {0, answered[idx].second}
        BY <4>1 DEF Written
      <4>3. UNCHANGED <<curstate, idx, answered>>
        BY <2>7 DEF Main_readSecond
      <4>4. QED
        BY <2>7, <4>1, <4>2, <4>3 DEF Main_readSecond, Caller
    <3>5. AnswerNotDropped'
      BY <2>7 DEF Main_readSecond, AnswerNotDropped
    <3>6. QED
      BY <3>1, <3>2, <3>3, <3>4, <3>5
  <2>8. CASE Main_return
    <3>1. Exchange'
      BY <2>8 DEF Main_return, Exchange
    <3>2. Holding'
      BY <2>8 DEF Main_return, Holding
    <3>3. Written'
      BY <2>8 DEF Main_return, Written
    <3>4. Caller'
      BY <2>8 DEF Main_return, Caller
    <3>5. AnswerNotDropped'
      BY <2>8 DEF Main_return, AnswerNotDropped
    <3>6. QED
      BY <3>1, <3>2, <3>3, <3>4, <3>5
  <2>9. CASE Run_select
    <3>1. Exchange'
      BY <2>9 DEF Run_select, Exchange
    <3>2. Holding'
      BY <2>9 DEF Run_select, Holding
    <3>3. Written'
      BY <2>9 DEF Run_select, Written
    <3>4. Caller'
      BY <2>9 DEF Run_select, Caller
    <3>5. AnswerNotDropped'
      BY <2>9 DEF Run_select, AnswerNotDropped
    <3>6. QED
      BY <3>1, <3>2, <3>3, <3>4, <3>5
  <2>10. CASE Run_scan
    <3>1. Exchange'
      BY <2>10 DEF Run_scan, Exchange
    <3>2. Holding'
      BY <2>10 DEF Run_scan, Holding
    <3>3. Written'
      BY <2>10 DEF Run_scan, Written
    <3>4. Caller'
      BY <2>10 DEF Run_scan, Caller
    <3>5. AnswerNotDropped'
      BY <2>10 DEF Run_scan, AnswerNotDropped
    <3>6. QED
      BY <3>1, <3>2, <3>3, <3>4, <3>5
  <2>11. CASE Run_recv
    <3>1. Exchange'
      <4>1. avaSubMG[i] \in Hosts /\ fromSub[avaSubMG[i]] # <<>>
        <5>1. i \in 1 .. Len(avaSubMG)
          BY <2>11, LenProperties DEF Run_recv
        <5>2. QED
          BY <2>11, <5>1, ElementOfSeq DEF Run_recv
      <4>2. DEFINE m == [ID |-> idx, port |-> answered[idx].second]
      <4>3. /\ Asking
            /\ fromSub[avaSubMG[i]] = <<m>>
            /\ answered[idx].first = avaSubMG[i]
            /\ \A g \in Hosts : toSub[g] = <<>>
                               /\ (g # avaSubMG[i] => fromSub[g] = <<>>)
        BY <4>1 DEF Exchange
      <4>4. msg' = m /\ fromSub' = [fromSub EXCEPT ![avaSubMG[i]] = <<>>]
        BY <2>11, <4>3, Singleton DEF Run_recv
      <4>5. /\ rpc' = "setState"
            /\ UNCHANGED <<mpc, curstate, idx, answered, toSub, avaSubMG, i, lost>>
        BY <2>11 DEF Run_recv
      <4>6. \A g \in Hosts : toSub'[g] = <<>> /\ fromSub'[g] = <<>>
        BY <4>1, <4>3, <4>4, <4>5
      <4>7. QED
        BY <4>6 DEF Exchange
    <3>2. Holding'
      <4>1. avaSubMG[i] \in Hosts /\ fromSub[avaSubMG[i]] # <<>>
        <5>1. i \in 1 .. Len(avaSubMG)
          BY <2>11, LenProperties DEF Run_recv
        <5>2. QED
          BY <2>11, <5>1, ElementOfSeq DEF Run_recv
      <4>2. DEFINE m == [ID |-> idx, port |-> answered[idx].second]
      <4>3. /\ Asking
            /\ fromSub[avaSubMG[i]] = <<m>>
            /\ answered[idx].first = avaSubMG[i]
            /\ \A g \in Hosts : toSub[g] = <<>>
                               /\ (g # avaSubMG[i] => fromSub[g] = <<>>)
        BY <4>1 DEF Exchange
      <4>4. msg' = m /\ fromSub' = [fromSub EXCEPT ![avaSubMG[i]] = <<>>]
        BY <2>11, <4>3, Singleton DEF Run_recv
      <4>5. /\ rpc' = "setState"
            /\ UNCHANGED <<mpc, curstate, idx, answered, toSub, avaSubMG, i, lost>>
        BY <2>11 DEF Run_recv
      <4>6. \A g \in Hosts : toSub'[g] = <<>> /\ fromSub'[g] = <<>>
        BY <4>1, <4>3, <4>4, <4>5
      <4>7. QED
        BY <4>3, <4>4, <4>5, <4>6 DEF Holding
    <3>3. Written'
      BY <2>11 DEF Run_recv, Written
    <3>4. Caller'
      BY <2>11 DEF Run_recv, Caller
    <3>5. AnswerNotDropped'
      <4>1. avaSubMG[i] \in Hosts /\ fromSub[avaSubMG[i]] # <<>>
        <5>1. i \in 1 .. Len(avaSubMG)
          BY <2>11, LenProperties DEF Run_recv
        <5>2. QED
          BY <2>11, <5>1, ElementOfSeq DEF Run_recv
      <4>2. DEFINE m == [ID |-> idx, port |-> answered[idx].second]
      <4>3. /\ Asking
            /\ fromSub[avaSubMG[i]] = <<m>>
            /\ answered[idx].first = avaSubMG[i]
            /\ \A g \in Hosts : toSub[g] = <<>>
                               /\ (g # avaSubMG[i] => fromSub[g] = <<>>)
        BY <4>1 DEF Exchange
      <4>4. msg' = m /\ fromSub' = [fromSub EXCEPT ![avaSubMG[i]] = <<>>]
        BY <2>11, <4>3, Singleton DEF Run_recv
      <4>5. /\ rpc' = "setState"
            /\ UNCHANGED <<mpc, curstate, idx, answered, toSub, avaSubMG, i, lost>>
        BY <2>11 DEF Run_recv
      <4>6. \A g \in Hosts : toSub'[g] = <<>> /\ fromSub'[g] = <<>>
        BY <4>1, <4>3, <4>4, <4>5
      <4>7. QED
        BY <4>4, <4>5 DEF AnswerNotDropped
    <3>6. QED
      BY <3>1, <3>2, <3>3, <3>4, <3>5
  <2>12. CASE Run_eof
    <3>1. Exchange'
      BY <2>12 DEF Run_eof, Exchange
    <3>2. Holding'
      BY <2>12 DEF Run_eof, Holding
    <3>3. Written'
      BY <2>12 DEF Run_eof, Written
    <3>4. Caller'
      BY <2>12 DEF Run_eof, Caller
    <3>5. AnswerNotDropped'
      BY <2>12 DEF Run_eof, AnswerNotDropped
    <3>6. QED
      BY <3>1, <3>2, <3>3, <3>4, <3>5
  <2>13. CASE Run_setState
    <3>1. Exchange'
      BY <2>13 DEF Run_setState, Exchange
    <3>2. Holding'
      BY <2>13 DEF Run_setState, Holding
    <3>3. Written'
      <4>1. msg.ID \in Ids
        BY <2>13 DEF Run_setState, Ok
      <4>2. /\ curstate' = [curstate EXCEPT ![msg.ID] = 2]
            /\ UNCHANGED <<addr, answered, mpc, idx>>
        BY <2>13 DEF Run_setState
      <4>3. \A id \in Ids : curstate'[id] = 0 => curstate[id] = 0
        BY <4>1, <4>2
      <4>4. QED
        BY <4>2, <4>3 DEF Written
    <3>4. Caller'
      <4>1. curstate' = [curstate EXCEPT ![msg.ID] = 2] /\ msg.ID \in Ids
        BY <2>13 DEF Run_setState, Ok
      <4>2. UNCHANGED <<addr, mpc, mainVars, answered, toSub, fromSub, lost>>
        BY <2>13 DEF Run_setState
      <4>3. QED
        BY <2>13, <4>1, <4>2, SMTT(30) DEF Caller, Run_setState
    <3>5. AnswerNotDropped'
      BY <2>13 DEF Run_setState, AnswerNotDropped
    <3>6. QED
      BY <3>1, <3>2, <3>3, <3>4, <3>5
  <2>14. CASE Run_setFirst
    <3>1. Exchange'
      BY <2>14 DEF Run_setFirst, Exchange
    <3>2. Holding'
      BY <2>14 DEF Run_setFirst, Holding
    <3>3. Written'
      <4>1. msg.ID \in Ids /\ avaSubMG[i] = answered[msg.ID].first
        BY <2>14 DEF Run_setFirst, Ok, Holding
      <4>2. /\ addr' = [addr EXCEPT ![msg.ID].first = avaSubMG[i]]
            /\ UNCHANGED <<curstate, answered, mpc, idx>>
        BY <2>14 DEF Run_setFirst
      <4>3. ASSUME NEW id \in Ids
            PROVE  /\ addr'[id].first \in {NoHost, answered[id].first}
                   /\ addr'[id].second \in {0, answered[id].second}
        BY <4>1, <4>2 DEF Written, Address
      <4>4. QED
        BY <4>2, <4>3 DEF Written
    <3>4. Caller'
      BY <2>14 DEF Run_setFirst, Caller
    <3>5. AnswerNotDropped'
      BY <2>14 DEF Run_setFirst, AnswerNotDropped
    <3>6. QED
      BY <3>1, <3>2, <3>3, <3>4, <3>5
  <2>15. CASE Run_setSecond
    <3>1. Exchange'
      BY <2>15 DEF Run_setSecond, Exchange
    <3>2. Holding'
      BY <2>15 DEF Run_setSecond, Holding
    <3>3. Written'
      <4>1. msg.ID \in Ids /\ msg.port = answered[msg.ID].second
        BY <2>15 DEF Run_setSecond, Ok, Holding
      <4>2. /\ addr' = [addr EXCEPT ![msg.ID].second = msg.port]
            /\ UNCHANGED <<curstate, answered, mpc, idx>>
        BY <2>15 DEF Run_setSecond
      <4>3. ASSUME NEW id \in Ids
            PROVE  /\ addr'[id].first \in {NoHost, answered[id].first}
                   /\ addr'[id].second \in {0, answered[id].second}
        BY <4>1, <4>2 DEF Written, Address
      <4>4. QED
        BY <4>2, <4>3 DEF Written
    <3>4. Caller'
      BY <2>15 DEF Run_setSecond, Caller
    <3>5. AnswerNotDropped'
      BY <2>15 DEF Run_setSecond, AnswerNotDropped
    <3>6. QED
      BY <3>1, <3>2, <3>3, <3>4, <3>5
  <2>16. CASE Run_accept
    <3>1. Exchange'
      BY <2>16 DEF Run_accept, Exchange
    <3>2. Holding'
      BY <2>16 DEF Run_accept, Holding
    <3>3. Written'
      BY <2>16 DEF Run_accept, Written
    <3>4. Caller'
      BY <2>16 DEF Run_accept, Caller
    <3>5. AnswerNotDropped'
      BY <2>16 DEF Run_accept, AnswerNotDropped
    <3>6. QED
      BY <3>1, <3>2, <3>3, <3>4, <3>5
  <2>17. ASSUME NEW h \in Hosts, Sub_connect(h)
         PROVE  IInv'
    <3>1. Exchange'
      BY <2>17 DEF Sub_connect, Exchange
    <3>2. Holding'
      BY <2>17 DEF Sub_connect, Holding
    <3>3. Written'
      BY <2>17 DEF Sub_connect, Written
    <3>4. Caller'
      BY <2>17 DEF Sub_connect, Caller
    <3>5. AnswerNotDropped'
      BY <2>17 DEF Sub_connect, AnswerNotDropped
    <3>6. QED
      BY <3>1, <3>2, <3>3, <3>4, <3>5
  <2>18. ASSUME NEW h \in Hosts, Sub_answer(h)
         PROVE  IInv'
    <3>1. Exchange'
      <4>1. /\ Asking /\ rpc # "setState" /\ idx \in Ids
            /\ toSub[h] = <<idx>>
            /\ answered[idx] = NoAddr
            /\ \A g \in Hosts : fromSub[g] = <<>> /\ (g # h => toSub[g] = <<>>)
        BY <2>18 DEF Sub_answer, Exchange
      <4>2. Head(toSub[h]) = idx /\ Tail(toSub[h]) = <<>>
        BY <4>1, Singleton
      <4>3. PICK p \in Ports :
              /\ fromSub' = [fromSub EXCEPT ![h] = <<[ID |-> idx, port |-> p]>>]
              /\ answered' = [answered EXCEPT ![idx] = [first |-> h, second |-> p]]
        <5>1. PICK p \in Ports :
                /\ fromSub' = [fromSub EXCEPT
                                ![h] = Append(@, [ID |-> Head(toSub[h]), port |-> p])]
                /\ answered' = [answered EXCEPT
                                 ![Head(toSub[h])] = [first |-> h, second |-> p]]
          BY <2>18 DEF Sub_answer
        <5>2. Append(fromSub[h], [ID |-> idx, port |-> p])
                = <<[ID |-> idx, port |-> p]>>
          BY <4>1, Singleton
        <5>3. QED
          BY <4>2, <5>1, <5>2
      <4>4. toSub' = [toSub EXCEPT ![h] = <<>>]
        BY <2>18, <4>2 DEF Sub_answer
      <4>5. UNCHANGED <<avaSubMG, curstate, addr, mpc, idx, ret, dest, rpc, i, msg,
                        lost>>
        BY <2>18 DEF Sub_answer
      <4>6. \A g \in Hosts : toSub'[g] = <<>> /\ (g # h => fromSub'[g] = <<>>)
        BY <4>1, <4>3, <4>4
      <4>7. /\ fromSub'[h] = <<[ID |-> idx, port |-> p]>>
            /\ answered'[idx] = [first |-> h, second |-> p]
        BY <4>1, <4>3
      <4>8. Asking' /\ rpc' # "setState" /\ idx' = idx
        BY <4>1, <4>5
      <4>9. answered'[idx].first = h /\ answered'[idx].second = p
        BY <4>7
      <4>10. QED
        BY <4>6, <4>7, <4>8, <4>9 DEF Exchange
    <3>2. Holding'
      <4>1. /\ Asking /\ rpc # "setState" /\ idx \in Ids
            /\ toSub[h] = <<idx>>
            /\ answered[idx] = NoAddr
            /\ \A g \in Hosts : fromSub[g] = <<>> /\ (g # h => toSub[g] = <<>>)
        BY <2>18 DEF Sub_answer, Exchange
      <4>2. Head(toSub[h]) = idx /\ Tail(toSub[h]) = <<>>
        BY <4>1, Singleton
      <4>3. PICK p \in Ports :
              /\ fromSub' = [fromSub EXCEPT ![h] = <<[ID |-> idx, port |-> p]>>]
              /\ answered' = [answered EXCEPT ![idx] = [first |-> h, second |-> p]]
        <5>1. PICK p \in Ports :
                /\ fromSub' = [fromSub EXCEPT
                                ![h] = Append(@, [ID |-> Head(toSub[h]), port |-> p])]
                /\ answered' = [answered EXCEPT
                                 ![Head(toSub[h])] = [first |-> h, second |-> p]]
          BY <2>18 DEF Sub_answer
        <5>2. Append(fromSub[h], [ID |-> idx, port |-> p])
                = <<[ID |-> idx, port |-> p]>>
          BY <4>1, Singleton
        <5>3. QED
          BY <4>2, <5>1, <5>2
      <4>4. toSub' = [toSub EXCEPT ![h] = <<>>]
        BY <2>18, <4>2 DEF Sub_answer
      <4>5. UNCHANGED <<avaSubMG, curstate, addr, mpc, idx, ret, dest, rpc, i, msg,
                        lost>>
        BY <2>18 DEF Sub_answer
      <4>6. rpc \in {"setFirst", "setSecond"} => msg.ID \in Ids /\ msg.ID # idx
        BY <4>1 DEF Holding, Ok
      <4>7. QED
        BY <4>1, <4>3, <4>5, <4>6 DEF Holding
    <3>3. Written'
      <4>1. /\ Asking /\ rpc # "setState" /\ idx \in Ids
            /\ toSub[h] = <<idx>>
            /\ answered[idx] = NoAddr
            /\ \A g \in Hosts : fromSub[g] = <<>> /\ (g # h => toSub[g] = <<>>)
        BY <2>18 DEF Sub_answer, Exchange
      <4>2. Head(toSub[h]) = idx /\ Tail(toSub[h]) = <<>>
        BY <4>1, Singleton
      <4>3. PICK p \in Ports :
              /\ fromSub' = [fromSub EXCEPT ![h] = <<[ID |-> idx, port |-> p]>>]
              /\ answered' = [answered EXCEPT ![idx] = [first |-> h, second |-> p]]
        <5>1. PICK p \in Ports :
                /\ fromSub' = [fromSub EXCEPT
                                ![h] = Append(@, [ID |-> Head(toSub[h]), port |-> p])]
                /\ answered' = [answered EXCEPT
                                 ![Head(toSub[h])] = [first |-> h, second |-> p]]
          BY <2>18 DEF Sub_answer
        <5>2. Append(fromSub[h], [ID |-> idx, port |-> p])
                = <<[ID |-> idx, port |-> p]>>
          BY <4>1, Singleton
        <5>3. QED
          BY <4>2, <5>1, <5>2
      <4>4. toSub' = [toSub EXCEPT ![h] = <<>>]
        BY <2>18, <4>2 DEF Sub_answer
      <4>5. UNCHANGED <<avaSubMG, curstate, addr, mpc, idx, ret, dest, rpc, i, msg,
                        lost>>
        BY <2>18 DEF Sub_answer
      <4>6. addr[idx].first = NoHost /\ addr[idx].second = 0
        <5>1. answered[idx].first = NoHost /\ answered[idx].second = 0
          BY <4>1 DEF NoAddr
        <5>2. QED
          BY <4>1, <5>1 DEF Written
      <4>7. curstate[idx] = 0 => mpc = "sent"
        BY <4>1 DEF Caller
      <4>8. \A id \in Ids : id # idx => answered'[id] = answered[id]
        BY <4>3
      <4>9. QED
        BY <4>5, <4>6, <4>7, <4>8 DEF Written
    <3>4. Caller'
      <4>1. /\ Asking /\ rpc # "setState" /\ idx \in Ids
            /\ toSub[h] = <<idx>>
            /\ answered[idx] = NoAddr
            /\ \A g \in Hosts : fromSub[g] = <<>> /\ (g # h => toSub[g] = <<>>)
        BY <2>18 DEF Sub_answer, Exchange
      <4>2. Head(toSub[h]) = idx /\ Tail(toSub[h]) = <<>>
        BY <4>1, Singleton
      <4>3. PICK p \in Ports :
              /\ fromSub' = [fromSub EXCEPT ![h] = <<[ID |-> idx, port |-> p]>>]
              /\ answered' = [answered EXCEPT ![idx] = [first |-> h, second |-> p]]
        <5>1. PICK p \in Ports :
                /\ fromSub' = [fromSub EXCEPT
                                ![h] = Append(@, [ID |-> Head(toSub[h]), port |-> p])]
                /\ answered' = [answered EXCEPT
                                 ![Head(toSub[h])] = [first |-> h, second |-> p]]
          BY <2>18 DEF Sub_answer
        <5>2. Append(fromSub[h], [ID |-> idx, port |-> p])
                = <<[ID |-> idx, port |-> p]>>
          BY <4>1, Singleton
        <5>3. QED
          BY <4>2, <5>1, <5>2
      <4>4. toSub' = [toSub EXCEPT ![h] = <<>>]
        BY <2>18, <4>2 DEF Sub_answer
      <4>5. UNCHANGED <<avaSubMG, curstate, addr, mpc, idx, ret, dest, rpc, i, msg,
                        lost>>
        BY <2>18 DEF Sub_answer
      <4>6. QED
        BY <4>1, <4>5 DEF Caller
    <3>5. AnswerNotDropped'
      <4>1. /\ Asking /\ rpc # "setState" /\ idx \in Ids
            /\ toSub[h] = <<idx>>
            /\ answered[idx] = NoAddr
            /\ \A g \in Hosts : fromSub[g] = <<>> /\ (g # h => toSub[g] = <<>>)
        BY <2>18 DEF Sub_answer, Exchange
      <4>2. Head(toSub[h]) = idx /\ Tail(toSub[h]) = <<>>
        BY <4>1, Singleton
      <4>3. PICK p \in Ports :
              /\ fromSub' = [fromSub EXCEPT ![h] = <<[ID |-> idx, port |-> p]>>]
              /\ answered' = [answered EXCEPT ![idx] = [first |-> h, second |-> p]]
        <5>1. PICK p \in Ports :
                /\ fromSub' = [fromSub EXCEPT
                                ![h] = Append(@, [ID |-> Head(toSub[h]), port |-> p])]
                /\ answered' = [answered EXCEPT
                                 ![Head(toSub[h])] = [first |-> h, second |-> p]]
          BY <2>18 DEF Sub_answer
        <5>2. Append(fromSub[h], [ID |-> idx, port |-> p])
                = <<[ID |-> idx, port |-> p]>>
          BY <4>1, Singleton
        <5>3. QED
          BY <4>2, <5>1, <5>2
      <4>4. toSub' = [toSub EXCEPT ![h] = <<>>]
        BY <2>18, <4>2 DEF Sub_answer
      <4>5. UNCHANGED <<avaSubMG, curstate, addr, mpc, idx, ret, dest, rpc, i, msg,
                        lost>>
        BY <2>18 DEF Sub_answer
      <4>6. [ID |-> idx, port |-> p] \in ToSet(fromSub'[h])
        <5>1. fromSub'[h] = <<[ID |-> idx, port |-> p]>>
          BY <4>3
        <5>2. QED
          BY <5>1, Singleton
      <4>7. QED
        BY <4>5, <4>6 DEF AnswerNotDropped
    <3>6. QED
      BY <3>1, <3>2, <3>3, <3>4, <3>5
  <2>19. ASSUME NEW h \in Hosts, Sub_close(h)
         PROVE  IInv'
    <3>1. Exchange'
      <4>1. /\ toSub' = [toSub EXCEPT ![h] = <<>>]
            /\ UNCHANGED <<mpc, curstate, idx, rpc, answered, fromSub>>
        BY <2>19 DEF Sub_close
      <4>2. \A g \in Hosts : toSub'[g] # <<>> => g # h /\ toSub'[g] = toSub[g]
        BY <4>1
      <4>3. \A g \in Hosts : toSub[g] = <<>> => toSub'[g] = <<>>
        BY <4>1
      <4>4. QED
        BY <4>1, <4>2, <4>3, ZenonT(40) DEF Exchange
    <3>2. Holding'
      BY <2>19 DEF Sub_close, Holding
    <3>3. Written'
      BY <2>19 DEF Sub_close, Written
    <3>4. Caller'
      BY <2>19 DEF Sub_close, Caller
    <3>5. AnswerNotDropped'
      BY <2>19 DEF Sub_close, AnswerNotDropped
    <3>6. QED
      BY <3>1, <3>2, <3>3, <3>4, <3>5
  <2>20. CASE UNCHANGED vars
    <3>1. Exchange'
      BY <2>20 DEF vars, Exchange
    <3>2. Holding'
      BY <2>20 DEF vars, Holding
    <3>3. Written'
      BY <2>20 DEF vars, Written
    <3>4. Caller'
      BY <2>20 DEF vars, Caller
    <3>5. AnswerNotDropped'
      BY <2>20 DEF vars, AnswerNotDropped
    <3>6. QED
      BY <3>1, <3>2, <3>3, <3>4, <3>5
  <2>21. QED
    BY <2>1, <2>2, <2>3, <2>4, <2>5, <2>6, <2>7, <2>8, <2>9, <2>10, <2>11, <2>12, <2>13, <2>14, <2>15, <2>16, <2>17, <2>18, <2>19, <2>20,
       <2>30
       DEF Next, Main, Run, Sub
<1>3. QED
  BY <1>1, <1>2, TypeCorrect, PTL DEF Spec

-----------------------------------------------------------------------------
(* What the invariant is for.                                              *)

\* The address that startFFmpeg returns never belongs to another session.
THEOREM NoForeign == Spec => []NoForeignAddress
<1>1. IInv => NoForeignAddress
  BY DEF IInv, Caller, NoForeignAddress
<1>2. QED
  BY <1>1, IInvHolds, PTL

\* At most one START or OK_FOR_START is in flight, so recv never coalesces two.
THEOREM SingleExchange == Spec => []OneExchange
<1>1. IInv => OneExchange
  <2> SUFFICES ASSUME IInv
               PROVE  OneExchange
    OBVIOUS
  <2>1. \A h \in Hosts : toSub[h] \in Seq(Ids) /\ fromSub[h] \in Seq(Ok)
    BY DEF IInv, TypeOK
  <2>2. idx \in Nat
    BY SubMGAssumption DEF IInv, TypeOK
  <2>3. \A h \in Hosts : Len(toSub[h]) + Len(fromSub[h]) <= 1
    <3> SUFFICES ASSUME NEW h \in Hosts
                 PROVE  Len(toSub[h]) + Len(fromSub[h]) <= 1
      OBVIOUS
    <3>1. CASE toSub[h] # <<>>
      <4>1. toSub[h] = <<idx>> /\ fromSub[h] = <<>>
        BY <3>1 DEF IInv, Exchange
      <4>2. QED
        BY <2>2, <4>1, Singleton
    <3>2. CASE fromSub[h] # <<>>
      <4>1. /\ fromSub[h] = <<[ID |-> idx, port |-> answered[idx].second]>>
            /\ toSub[h] = <<>>
        BY <3>2 DEF IInv, Exchange
      <4>2. Len(fromSub[h]) = 1
        BY <4>1, Singleton
      <4>3. QED
        BY <4>1, <4>2
    <3>3. CASE toSub[h] = <<>> /\ fromSub[h] = <<>>
      BY <3>3
    <3>4. QED
      BY <3>1, <3>2, <3>3
  <2>4. ASSUME NEW g \in Hosts, NEW h \in Hosts,
               toSub[g] \o fromSub[g] # <<>>, toSub[h] \o fromSub[h] # <<>>
        PROVE  g = h
    <3>1. \A f \in Hosts : toSub[f] = <<>> /\ fromSub[f] = <<>>
                             => toSub[f] \o fromSub[f] = <<>>
      BY <2>1, ConcatEmptySeq
    <3>2. toSub[g] # <<>> \/ fromSub[g] # <<>>
      BY <2>4, <3>1
    <3>3. toSub[h] # <<>> \/ fromSub[h] # <<>>
      BY <2>4, <3>1
    <3>4. QED
      BY <3>2, <3>3 DEF IInv, Exchange
  <2>5. QED
    BY <2>3, <2>4 DEF OneExchange
<1>2. QED
  BY <1>1, IInvHolds, PTL

\* The answer to a START that is waited for is never dropped by the gateway.
THEOREM NothingDropped == Spec => []AnswerNotDropped
<1>1. IInv => AnswerNotDropped
  BY DEF IInv
<1>2. QED
  BY <1>1, IInvHolds, PTL

\* curstate of every session goes 0, 1, 2: the control thread's wait for a
\* non-zero state is what keeps the signalling thread's late store of 1 from
\* overwriting the 2.
THEOREM StatesInOrder == Spec => StateOrder
<1>1. IInv /\ [Next]_vars =>
        [\A id \in Ids : curstate'[id] \in {curstate[id], curstate[id] + 1}]_vars
  <2> SUFFICES ASSUME IInv, Next
               PROVE  \A id \in Ids :
                        curstate'[id] \in {curstate[id], curstate[id] + 1}
    OBVIOUS
  <2> USE DEF IInv, TypeOK
  <2>1. CASE UNCHANGED curstate
    BY <2>1
  <2>2. CASE Main_markWaiting
    BY <2>2 DEF Main_markWaiting, Caller
  <2>3. CASE Run_setState
    <3>1. msg.ID \in Ids /\ curstate[msg.ID] = 1
      BY <2>3 DEF Run_setState, Holding, Asking, Caller, Ok
    <3>2. QED
      BY <2>3, <3>1 DEF Run_setState
  <2>4. QED
    BY <2>1, <2>2, <2>3
       DEF Next, Main, Run, Sub, Main_getVacID, Main_check, Main_pick, Main_send,
           Main_leaveSpin, Main_readFirst, Main_readSecond, Main_return,
           Run_select, Run_scan, Run_recv, Run_eof, Run_setFirst,
           Run_setSecond, Run_accept, Sub_connect, Sub_answer, Sub_close
<1>2. QED
  BY <1>1, IInvHolds, PTL DEF Spec, StateOrder

-----------------------------------------------------------------------------
(* The list of sub MGs.                                                     *)

\* What is left of a sequence when an element is erased, place by place.
LEMMA RemoveAtElements ==
  ASSUME NEW S, NEW s \in Seq(S), NEW n \in 1 .. Len(s)
  PROVE  /\ Len(RemoveAt(s, n)) = Len(s) - 1
         /\ \A k \in 1 .. Len(s) - 1 :
              RemoveAt(s, n)[k] = IF k < n THEN s[k] ELSE s[k + 1]
<1> DEFINE front == SubSeq(s, 1, n - 1)
           back == SubSeq(s, n + 1, Len(s))
<1>1. Len(s) \in Nat /\ n \in Nat /\ n >= 1 /\ n <= Len(s)
  BY LenProperties
<1>2. /\ front \in Seq(S) /\ Len(front) = n - 1
      /\ \A k \in 1 .. n - 1 : front[k] = s[k]
  <2>1. \A k \in 1 .. n - 1 : s[k] \in S
    BY <1>1, ElementOfSeq
  <2>2. QED
    BY <1>1, <2>1, SubSeqProperties
<1>3. /\ back \in Seq(S) /\ Len(back) = Len(s) - n
      /\ \A k \in 1 .. Len(s) - n : back[k] = s[n + k]
  <2>1. \A k \in n + 1 .. Len(s) : s[k] \in S
    BY <1>1, ElementOfSeq
  <2>2. QED
    BY <1>1, <2>1, SubSeqProperties
<1> HIDE DEF front, back
<1>4. /\ Len(front \o back) = Len(s) - 1
      /\ \A k \in 1 .. Len(s) - 1 :
           (front \o back)[k] = IF k <= n - 1 THEN front[k] ELSE back[k - (n - 1)]
  <2>1. Len(front) + Len(back) = Len(s) - 1
    BY <1>1, <1>2, <1>3
  <2>2. /\ Len(front \o back) = Len(front) + Len(back)
        /\ \A k \in 1 .. Len(front) + Len(back) :
             (front \o back)[k] =
               IF k <= Len(front) THEN front[k] ELSE back[k - Len(front)]
    <3>1. front \in Seq(S) /\ back \in Seq(S)
      BY <1>2, <1>3
    <3>2. QED
      BY <3>1, ConcatProperties
  <2>3. Len(front) = n - 1
    BY <1>2
  <2>4. QED
    BY <2>1, <2>2, <2>3
<1>5. ASSUME NEW k \in 1 .. Len(s) - 1
      PROVE  (front \o back)[k] = IF k < n THEN s[k] ELSE s[k + 1]
  <2>1. CASE k < n
    <3>1. k <= n - 1 /\ k \in 1 .. n - 1
      BY <1>1, <2>1
    <3>2. (front \o back)[k] = front[k]
      BY <1>4, <3>1
    <3>3. QED
      BY <1>2, <2>1, <3>1, <3>2
  <2>2. CASE ~(k < n)
    <3> DEFINE j == k - (n - 1)
    <3>1. /\ ~(k <= n - 1)
          /\ j \in 1 .. Len(s) - n
          /\ n + j = k + 1
      BY <1>1, <2>2
    <3>2. (front \o back)[k] = back[j]
      BY <1>4, <3>1
    <3> HIDE DEF j
    <3>3. back[j] = s[n + j]
      BY <1>3, <3>1
    <3>4. QED
      BY <2>2, <3>1, <3>2, <3>3
  <2>3. QED
    BY <2>1, <2>2
<1>6. QED
  BY <1>4, <1>5 DEF RemoveAt, front, back

\* Erasing an entry, or appending one that is new, lists no host twice.
LEMMA RemoveKeepsApart ==
  ASSUME NEW S, NEW s \in Seq(S), NEW n \in 1 .. Len(s), IsInjective(s)
  PROVE  IsInjective(RemoveAt(s, n))
<1> DEFINE t == RemoveAt(s, n)
<1>1. /\ DOMAIN s = 1 .. Len(s) /\ Len(s) \in Nat /\ n \in Nat
      /\ t \in Seq(S)
  BY LenProperties, RemoveAtType
<1>2. /\ Len(t) = Len(s) - 1
      /\ \A k \in 1 .. Len(s) - 1 : t[k] = IF k < n THEN s[k] ELSE s[k + 1]
  BY RemoveAtElements
<1>3. DOMAIN t = 1 .. Len(s) - 1
  BY <1>1, <1>2, LenProperties
<1> HIDE DEF t
<1>4. ASSUME NEW a \in DOMAIN t, NEW b \in DOMAIN t, t[a] = t[b]
      PROVE  a = b
  <2> DEFINE c == IF a < n THEN a ELSE a + 1
             d == IF b < n THEN b ELSE b + 1
  <2>1. c \in DOMAIN s /\ d \in DOMAIN s /\ s[c] = s[d]
    BY <1>1, <1>2, <1>3, <1>4
  <2>2. c = d
    BY <2>1 DEF IsInjective
  <2>3. QED
    BY <1>1, <1>3, <2>2
<1>5. QED
  BY <1>4 DEF IsInjective, t

LEMMA AppendKeepsApart ==
  ASSUME NEW S, NEW s \in Seq(S), NEW e \in S, e \notin ToSet(s), IsInjective(s)
  PROVE  IsInjective(Append(s, e))
<1>1. /\ DOMAIN s = 1 .. Len(s) /\ Len(s) \in Nat
      /\ DOMAIN Append(s, e) = 1 .. Len(s) + 1
      /\ \A k \in 1 .. Len(s) : Append(s, e)[k] = s[k]
      /\ Append(s, e)[Len(s) + 1] = e
  BY LenProperties, AppendProperties
<1>2. \A k \in 1 .. Len(s) : s[k] # e
  BY <1>1 DEF ToSet
<1>3. QED
  BY <1>1, <1>2 DEF IsInjective

\* However hosts connect, close and connect again, and wherever the scan is when they
\* do, no host is listed twice: what accept refuses is still listed, although its
\* connection may have gone.
THEOREM NoDuplicates == Spec => []ListedOnce
<1>1. Init => ListedOnce
  BY EmptySeq DEF Init, ListedOnce, IsInjective
<1>2. TypeOK /\ ListedOnce /\ [Next]_vars => ListedOnce'
  <2> SUFFICES ASSUME TypeOK, ListedOnce, [Next]_vars
               PROVE  ListedOnce'
    OBVIOUS
  <2>1. avaSubMG \in Seq(Hosts) /\ IsInjective(avaSubMG)
    BY DEF TypeOK, ListedOnce
  <2>2. CASE UNCHANGED avaSubMG
    BY <2>1, <2>2 DEF ListedOnce
  <2>3. CASE Run_eof
    <3>1. i \in 1 .. Len(avaSubMG) /\ avaSubMG' = RemoveAt(avaSubMG, i)
      BY <2>3, LenProperties DEF Run_eof, TypeOK
    <3>2. QED
      BY <2>1, <3>1, RemoveKeepsApart DEF ListedOnce
  <2>4. CASE Run_accept
    <3>1. CASE NoHost \in fds /\ Head(backlog) \notin ToSet(avaSubMG)
      <4>1. backlog \in Seq(Hosts) /\ backlog # <<>>
        BY <3>1 DEF TypeOK
      <4>2. Head(backlog) \in Hosts
        BY <4>1, HeadTailProperties
      <4>3. avaSubMG' = Append(avaSubMG, Head(backlog))
        BY <2>4, <3>1 DEF Run_accept
      <4>4. QED
        BY <2>1, <3>1, <4>2, <4>3, AppendKeepsApart DEF ListedOnce
    <3>2. CASE ~(NoHost \in fds /\ Head(backlog) \notin ToSet(avaSubMG))
      BY <2>2, <2>4, <3>2 DEF Run_accept
    <3>3. QED
      BY <3>1, <3>2
  <2>5. QED
    BY <2>2, <2>3, <2>4
       DEF Next, Main, Run, Sub, Main_getVacID, Main_check, Main_pick, Main_send,
           Main_markWaiting, Main_leaveSpin, Main_readFirst, Main_readSecond,
           Main_return, Run_select, Run_scan, Run_recv, Run_setState, Run_setFirst,
           Run_setSecond, Sub_connect, Sub_answer, Sub_close, vars
<1>3. QED
  BY <1>1, <1>2, TypeCorrect, PTL DEF Spec
==============================================================================
