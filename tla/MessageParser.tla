---------------------------- MODULE MessageParser -----------------------------
(***************************************************************************)
(* Signalling messages and their text (messageparser.cpp, commontype.h).     *)
(* A JSON object is a function from the names of its members to their values; *)
(* the JSON library, which is external, writes and reads back the same object. *)
(***************************************************************************)
EXTENDS Integers

\* What a member that no constructor sets holds.
Indeterminate == "indeterminate"

\* RoapType and ErrorType.
offer == 1
answer == 2
candidate == 4
none == -1

NoRoap == [type |-> Indeterminate, seq |-> -1, label |-> -1, error |-> none, msgSize |-> -1,
           moreComingFlag |-> Indeterminate, offerSessionID |-> "", answerSessionID |-> "",
           sdp |-> "", tiebreaker |-> "", msgContent |-> ""]
NoMessage == [type |-> Indeterminate, from |-> "", to |-> "", roap |-> NoRoap]

isMember(json, name) == name \in DOMAIN json
member(json, name, otherwise) == IF isMember(json, name) THEN json[name] ELSE otherwise

\* The description of an offer and of an answer is a member of a member; another
\* object's text, or a text's member, is no text at all.
sdpOf(roap, type) ==
  IF ~isMember(roap, "sdp") THEN ""
  ELSE IF type \in {offer, answer}
  THEN IF isMember(roap.sdp, "sdp") THEN roap.sdp.sdp ELSE ""
  ELSE member(roap.sdp, "text", "")

parserSessionMessage(session) ==
  LET roap == session.roap
      type == member(roap, "type", NoRoap.type)
      get(name, field) == member(roap, name, NoRoap[field])
  IN  [type |-> member(session, "type", NoMessage.type),
       from |-> member(session, "from", NoMessage.from),
       to |-> member(session, "to", NoMessage.to),
       roap |->
         IF ~isMember(session, "roap") THEN NoRoap
         ELSE [type |-> type, sdp |-> sdpOf(roap, type), seq |-> get("seq", "seq"),
               offerSessionID |-> get("offerSessionId", "offerSessionID"),
               answerSessionID |-> get("answerSessionId", "answerSessionID"),
               label |-> get("label", "label"), error |-> get("error", "error"),
               moreComingFlag |-> get("moreComingFlag", "moreComingFlag"),
               tiebreaker |-> get("tiebreaker", "tiebreaker"),
               msgSize |-> get("msgSize", "msgSize"),
               msgContent |-> get("msgContent", "msgContent")]]

\* Json::Value(NULL) is the number 0 where NULL is a plain number.
orNull(number) == IF number = -1 THEN 0 ELSE number

text(string) == [text |-> string]

wrapped(roap) ==
  IF roap.type \in {offer, answer}
  THEN [sdp |-> roap.sdp, type |-> IF roap.type = offer THEN "offer" ELSE "answer"]
  ELSE text(roap.sdp)

packageSessionMessage(message) ==
  LET roap == message.roap IN
  [type |-> message.type, from |-> message.from, to |-> message.to,
   roap |-> [type |-> roap.type, seq |-> roap.seq, sdp |-> wrapped(roap),
             offerSessionId |-> roap.offerSessionID, answerSessionId |-> roap.answerSessionID,
             label |-> orNull(roap.label), error |-> orNull(roap.error),
             msgSize |-> orNull(roap.msgSize), moreComingFlag |-> roap.moreComingFlag,
             tiebreaker |-> roap.tiebreaker, msgContent |-> roap.msgContent]]
=============================================================================
