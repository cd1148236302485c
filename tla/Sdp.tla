--------------------------------- MODULE Sdp ----------------------------------
(***************************************************************************)
(* Session descriptions and candidates as the agents read and write them     *)
(* (webagent.cpp, imsagent.cpp, candidate.cpp).  A description is a sequence   *)
(* of lines, a line a record of its kind and of the values that are looked     *)
(* for in it; an agent's fields are a record.                                *)
(***************************************************************************)
EXTENDS Integers, Sequences, SequencesExt

NULL == "NULL"
NoPayload == -1
PCMA == 8
PT_VP8_DEFAULT == 112
PT_H264_DEFAULT == 98
PT_H263_DEFAULT == 102

\* What a variable without an initial value holds.
Unset == "unset"

\* The lines of a kind, and their first one.
linesOf(sdp, kind) == SelectSeq(sdp, LAMBDA line : line.kind = kind)
first(lines, value(_), otherwise) == IF lines = <<>> THEN otherwise ELSE value(lines[1])

media(sdp, m) == SelectSeq(sdp, LAMBDA line : line.kind = "m" /\ line.media = m)

\* The word "video" may be in a line of media, of its identifier or of the bundle.
mentionsVideo(sdp) ==
  \E i \in DOMAIN sdp : sdp[i].kind \in {"m", "mid", "bundle"} /\ sdp[i].media = "video"

stypeOf(sdp) == IF mentionsVideo(sdp) THEN "VIDEO" ELSE "AUDIO"

\* The first line of audio lists format 8.
hasPcma(sdp) == first(media(sdp, "audio"), LAMBDA line : Contains(line.formats, PCMA), FALSE)

\* The payload of the first rtpmap that names the codec.
payloadOf(sdp, codecs, otherwise) ==
  first(SelectSeq(linesOf(sdp, "rtpmap"), LAMBDA line : line.codec \in codecs),
        LAMBDA line : line.payload, otherwise)

-----------------------------------------------------------------------------
(* The web agent.                                                          *)

WebAgent == [aPayload |-> PCMA, vPayload |-> PT_VP8_DEFAULT,
             audioSSRC |-> "222222222", videoSSRC |-> "333333333",
             videoSSRCFromWeb |-> "", cryptoFromWeb |-> "",
             cryptoToWeb |-> "pCC0edHOwQOuwX0m4+135nil9xt5Lr9exVF7Gs4m",
             credentials |-> <<"", "">>]

getIceInfo(sdp) == <<first(linesOf(sdp, "ufrag"), LAMBDA line : line.value, ""),
                     first(linesOf(sdp, "pwd"), LAMBDA line : line.value, "")>>

\* The key behind the first crypto line of the one suite that is known.
getCryptoInfo(sdp) ==
  first(SelectSeq(linesOf(sdp, "crypto"), LAMBDA line : line.suite = "AES_CM_128_HMAC_SHA1_80"),
        LAMBDA line : line.value, NULL)

\* Behind the first line of video, the first line of a source.
videoSource(sdp, otherwise) ==
  LET video == {i \in DOMAIN sdp : sdp[i].kind = "m" /\ sdp[i].media = "video"}
      begin == CHOOSE i \in video : \A j \in video : i <= j
  IN  IF video = {} THEN otherwise
      ELSE first(linesOf(SubSeq(sdp, begin, Len(sdp)), "ssrc"), LAMBDA line : line.value, otherwise)

\* The fields are set whether or not the description turns out to be supported.
handleSdpFromWeb(agent, sdp) ==
  LET stype == stypeOf(sdp)
      ice == getIceInfo(sdp)
      vp8 == payloadOf(sdp, {"VP8"}, NoPayload)
  IN  [stype |-> stype,
       supportFlag |-> hasPcma(sdp) /\ (stype = "VIDEO" => vp8 # NoPayload),
       agent |->
         [agent EXCEPT
            !.cryptoFromWeb = IF linesOf(sdp, "crypto") # <<>> THEN getCryptoInfo(sdp) ELSE @,
            !.credentials = IF "" \in {ice[1], ice[2]} THEN @ ELSE ice,
            !.videoSSRCFromWeb = videoSource(sdp, @),
            !.vPayload = IF stype = "VIDEO" /\ vp8 # NoPayload THEN vp8 ELSE @]]

\* The lines of one medium, with placeholders for what is replaced at the end.
webMedia(m, payload, codec, ssrc) ==
  << [kind |-> "m", media |-> m, port |-> 1, formats |-> <<payload>>],
     [kind |-> "c", value |-> "0.0.0.0"], [kind |-> "ufrag", value |-> "V6oIgATQATtWFDI1"],
     [kind |-> "pwd", value |-> "0fvI8mFb2+EFTVarDx/RHNvW"], [kind |-> "mid", media |-> m],
     [kind |-> "crypto", suite |-> "AES_CM_128_HMAC_SHA1_80",
      value |-> "gnXrE0MSrzWLNu4VzjRm/A4d3ANy0gnpvDNXQlWd"],
     [kind |-> "rtpmap", payload |-> payload, codec |-> codec],
     [kind |-> "ssrc", value |-> ssrc] >>

replaced(sdp, kind, value) ==
  [i \in DOMAIN sdp |-> IF sdp[i].kind = kind THEN [sdp[i] EXCEPT !.value = value] ELSE sdp[i]]

\* Plausible slip: only the first key is replaced.
replaceCryptoFirst(sdp, crypto) ==
  LET keys == {i \in DOMAIN sdp : sdp[i].kind = "crypto"}
  IN  [i \in DOMAIN sdp |-> IF i \in keys /\ \A j \in keys : i <= j
                            THEN [sdp[i] EXCEPT !.value = crypto] ELSE sdp[i]]

replaceCrypto(sdp, crypto) == replaced(sdp, "crypto", crypto)

replaceUfragPwd(sdp, local) == replaced(replaced(sdp, "ufrag", local[1]), "pwd", local[2])

\* With the local credentials, a user fragment and a password.
createSdpToWeb(agent, stype, local) ==
  LET bundle == <<[kind |-> "bundle", media |-> IF stype = "VIDEO" THEN "video" ELSE "audio"]>>
      audio == webMedia("audio", agent.aPayload, "PCMA", agent.audioSSRC)
      video == webMedia("video", agent.vPayload, "VP8", agent.videoSSRC)
      sdp == bundle \o audio \o (IF stype = "VIDEO" THEN video ELSE <<>>)
  IN  replaceCrypto(replaceUfragPwd(sdp, local), agent.cryptoToWeb)

-----------------------------------------------------------------------------
(* The IMS agent.                                                          *)

\* SIPCodec names the video codecs that are switched on.
ImsAgent(SIPCodec) ==
  [aPayload |-> PCMA,
   vPayload |-> CASE "H264" \in SIPCodec -> PT_H264_DEFAULT
                  [] "H264" \notin SIPCodec /\ "H263" \in SIPCodec -> PT_H263_DEFAULT
                  [] OTHER -> Unset,
   audio |-> <<"", 0>>, video |-> <<"", 0>>]

getRemoteIpAndPort(sdp) ==
  LET port(m) == first(media(sdp, m), LAMBDA line : line.port, Unset)
  IN  [ip |-> first(linesOf(sdp, "c"), LAMBDA line : line.value, ""),
       aport |-> port("audio"), vport |-> port("video")]

\* A description without the codec is as well supported; the payload stays what it was.
handleSdpFromIMS(agent, sdp, SIPCodec) ==
  LET remote == getRemoteIpAndPort(sdp)
      stype == stypeOf(sdp)
      known == IF "H264" \in SIPCodec THEN {"H264"}
               ELSE IF "H263" \in SIPCodec THEN {"H263", "H263-1998"} ELSE {}
  IN  [stype |-> stype, supportFlag |-> hasPcma(sdp),
       agent |-> [agent EXCEPT
                    !.audio = <<remote.ip, remote.aport>>, !.video = <<remote.ip, remote.vport>>,
                    !.vPayload = IF stype = "VIDEO" THEN payloadOf(sdp, known, @) ELSE @]]

\* The address in every description for the IMS, whatever host the gateway runs on.
HardCodedHost == "10.109.247.140"

\* With that address and the ports the helpers listen on.
createSdpToIMS(agent, stype, SIPCodec, audioPort, videoPort) ==
  LET codec == IF "H264" \in SIPCodec THEN "H264" ELSE "H263-1998"
      video == << [kind |-> "m", media |-> "video", port |-> videoPort,
                   formats |-> <<agent.vPayload>>],
                  [kind |-> "rtpmap", payload |-> agent.vPayload, codec |-> codec] >>
  IN  << [kind |-> "c", value |-> HardCodedHost],
         [kind |-> "m", media |-> "audio", port |-> audioPort, formats |-> <<agent.aPayload>>],
         [kind |-> "rtpmap", payload |-> agent.aPayload, codec |-> "PCMA"] >>
        \o IF stype = "VIDEO" /\ SIPCodec \cap {"H264", "H263", "H263P"} # {} THEN video ELSE <<>>

-----------------------------------------------------------------------------
(* Candidates: the words of a line and the object made of it.               *)

\* The words are looked for in this order, anywhere in the line; the last of them is
\* not the word that other implementations use.
typeOf(words) ==
  CASE "host" \in words -> "HOST"
    [] "host" \notin words /\ "srflx" \in words -> "SERVER_REFLEXIVE"
    [] words \cap {"host", "srflx"} = {} /\ "prflx" \in words -> "PEER_REFLEXIVE"
    [] words \cap {"host", "srflx", "prflx"} = {} /\ "relayed" \in words -> "RELAYED"
    [] OTHER -> "HOST"

\* Every transport is UDP.
Candidate(line) ==
  [type |-> typeOf(line.words), transport |-> "UDP", foundation |-> line.foundation,
   component_id |-> line.component, priority |-> line.priority,
   ip |-> line.ip, port |-> line.port]

\* The line that the agent makes of a candidate of its own.
candidateLine(c) ==
  [foundation |-> c.foundation, component |-> c.component_id, priority |-> c.priority,
   ip |-> c.ip, port |-> c.port,
   words |-> {"udp", "typ", CASE c.type = "HOST" -> "host"
                              [] c.type = "SERVER_REFLEXIVE" -> "srflx"
                              [] c.type = "PEER_REFLEXIVE" -> "prflx"
                              [] OTHER -> "relayed"}]
=============================================================================
