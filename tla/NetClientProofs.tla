-------------------------- MODULE NetClientProofs --------------------------
(***************************************************************************)
(* Proofs about module NetClient, for every number of clients and threads, *)
(* every partition of the threads, and any server that keeps               *)
(* ServerContract, dies, or announces as often as it likes: what a run     *)
(* measures, what the dumps hold, when an assertion fails, and that nobody *)
(* waits for ever.                                                         *)
(*                                                                         *)
(* The invariant has a part for each thing that is handed from one thread  *)
(* to another: requests and responses, the announcement of the ROI, the    *)
(* samples, the announcement of the end, the files; and one (TornInv) for  *)
(* what a dump may miss of the entries that finiReq is pushing meanwhile.  *)
(* All of it but the client's own invariants holds after the process       *)
(* ended, too.                                                             *)
(***************************************************************************)
EXTENDS NetClient, ClientProofs, SequenceTheorems

USE ClientOfAssumption

\* The client's own invariants: they hold while the process runs.
ClientOK == ClientTypeOK /\ StartInv /\ GateInv /\ IdInv

Sent == [type : {"RESPONSE"}, id : Nat]
        \cup [type : {"ROI_BEGIN", "FINISH"}, id : {<<>>}]

Types ==
  /\ asked \in [Clients -> SUBSET Nat] /\ toClient \in [Clients -> Seq(Sent)]
  /\ gone \in BOOLEAN /\ sendDone \subseteq Threads
  /\ nread \in [Clients -> Nat]
  /\ recvLeaked \in [Clients -> BOOLEAN]
  /\ rpc \in [Threads -> {"recv", "fini", "push", "tids", "startroi",
                          "publish", "count", "finish", "stats", "info", "end"}]
  /\ resp \in [Threads -> Frames] /\ size \in [Threads -> SUBSET Nat]
  /\ torn \subseteq Threads
  /\ liveClients \in Int /\ lats \in Seq(Dumped) /\ reqInfo \in Seq(Dumped)
  /\ liveLock \in Threads \cup {NoThread}
  /\ tmpSjrnTimes \in [Clients -> SUBSET Nat] /\ numStartRoi \in Nat
  /\ mon \in [at : {"wait", "sweep", "stopped"}, next : Clients, requests : Nat]
  /\ shown \in [Clients -> SUBSET Nat]
  /\ proc \in {"running", "aborted", "exited", "sigpipe", "sigsegv"}

\* A receiver whose response finiReq has still to account for; the steps of
\* finiReq that do, and those that only go on.
Holding(t) == rpc[t] \in {"fini", "push"}
HandleResponse(t) == PushSjrn(t) \/ SkipResponse(t)
GoOn(t) == PushStart(t) \/ PushTids(t)

\* What the loop of a dump may write.
Dumps(t) == {Written(t, intact) : intact \in {b \in BOOLEAN : b \/ MayFault(t)}}

\* The requests of client c that receivers have still to be given to finiReq,
\* and those whose response was.
OwedOn(c) == UNION {owed[t] : t \in ThreadsOf(c)}
HeldOn(c) == UNION {HeldBy(t) : t \in ThreadsOf(c)}
Handled(c) == ReadOn(c) \ HeldOn(c)

\* Frame i on connection c.
IsFrame(c, i, type) == i \in DOMAIN toClient[c] /\ toClient[c][i].type = type

\* Responses are to requests that were asked, one to each.
StreamInvOf(c) ==
  /\ nread[c] <= Len(toClient[c])
  /\ \A i \in DOMAIN toClient[c] :
       IsFrame(c, i, "RESPONSE") => toClient[c][i].id \in asked[c]
  /\ \A i, j \in DOMAIN toClient[c] :
       /\ IsFrame(c, i, "RESPONSE") /\ IsFrame(c, j, "RESPONSE")
       /\ toClient[c][i].id = toClient[c][j].id
       => i = j
  /\ asked[c] \subseteq IdsBelow(c, startedReqs[c])
StreamInv == \A c \in Clients : StreamInvOf(c)

\* A response that was read is in the hands of one receiver, or was handled.
HeldInv ==
  /\ \A t \in Threads : Holding(t) =>
       /\ resp[t].type = "RESPONSE"
       /\ resp[t].id \in ReadOn(ClientOf[t])
  /\ \A t, u \in Threads :
       /\ t # u /\ ClientOf[t] = ClientOf[u]
       /\ Holding(t) /\ Holding(u)
       => resp[t].id # resp[u].id

\* A request that was asked stays owed until finiReq got its response, and is
\* not in flight from then on.
AnswerInv ==
  \A c \in Clients :
    /\ asked[c] \ Handled(c) \subseteq OwedOn(c)
    /\ inFlightReqs[c] \cap Handled(c) = {}

\* A response a receiver holds is to a request in flight: finiReq will find it.
InFlightInv == \A c \in Clients : HeldOn(c) \subseteq inFlightReqs[c]

\* Samples are of responses that were handled, in the ROI.
SampleInv ==
  \A c \in Clients :
    /\ samples[c] \subseteq Handled(c)
    /\ status[c] # "ROI" => samples[c] = {}

\* The announcement of the ROI: it was read before it took effect; one receiver
\* makes it take effect; and if it was made once, no other has it.
RoiRead(c) == \E i \in 1 .. nread[c] : IsFrame(c, i, "ROI_BEGIN")
InRoi(t) == rpc[t] \in {"publish", "count"}
Once(c, type) ==
  \A i, j \in DOMAIN toClient[c] :
    IsFrame(c, i, type) /\ IsFrame(c, j, type) => i = j
RoiInvOf(c) ==
  /\ RoiRead(c) <=>
       status[c] = "ROI" \/ \E t \in ThreadsOf(c) : rpc[t] = "startroi"
  /\ \A t \in ThreadsOf(c) : InRoi(t) => status[c] = "ROI"
  /\ \A t, u \in ThreadsOf(c) : InRoi(t) /\ InRoi(u) => t = u
  /\ Once(c, "ROI_BEGIN") =>
       \A t \in ThreadsOf(c) : rpc[t] = "startroi" =>
         /\ status[c] # "ROI"
         /\ \A u \in ThreadsOf(c) : rpc[u] = "startroi" => t = u
RoiInv == \A c \in Clients : RoiInvOf(c)

\* The monitor starts when every client was counted, and a client was counted
\* once.
RoiClients ==
  {c \in Clients : /\ status[c] = "ROI"
                   /\ \A t \in ThreadsOf(c) : ~InRoi(t)}
MonInv ==
  /\ numStartRoi = Cardinality(RoiClients)
  /\ MonitorAccounts

\* The responses on connection c that came before the ROI; at most one for each
\* receiver but the one that began the ROI is measured.
Early(c) ==
  {toClient[c][i].id : i \in {j \in DOMAIN toClient[c] :
     /\ IsFrame(c, j, "RESPONSE")
     /\ \A k \in 1 .. j : ~IsFrame(c, k, "ROI_BEGIN")}}
EarlyInv ==
  \A c \in Clients : status[c] = "ROI" =>
    Cardinality((samples[c] \cup HeldOn(c)) \cap Early(c))
      < Cardinality(ThreadsOf(c))

\* The announcement of the end: as for the ROI, until the client has dumped.
FinishRead(c) == \E i \in 1 .. nread[c] : IsFrame(c, i, "FINISH")
ToDump(t) == rpc[t] \in {"finish", "stats"}
Finishing(t) == rpc[t] \in {"finish", "stats", "info"}
FinishInvOf(c) ==
  /\ FinishRead(c) <=> \/ \E t \in ThreadsOf(c) : ToDump(t)
                       \/ \E k \in DOMAIN lats : lats[k].client = c
  /\ Once(c, "FINISH") =>
       /\ \A t, u \in ThreadsOf(c) : Finishing(t) /\ Finishing(u) => t = u
       /\ \A k, l \in DOMAIN lats :
            lats[k].client = c /\ lats[l].client = c => k = l
       /\ \A k \in DOMAIN lats : lats[k].client = c =>
            \A t \in ThreadsOf(c) : ~ToDump(t)
FinishInv == \A c \in Clients : FinishInvOf(c)

\* The files: what lock_live_clients protects.
Dumping(t) == rpc[t] \in {"stats", "info"}
FileInv ==
  /\ proc # "exited" =>
       /\ \A t \in Threads : Dumping(t) <=> liveLock = t
       /\ liveLock = NoThread =>
            /\ liveClients > 0 /\ Len(lats) = Len(reqInfo)
            /\ Len(lats) = NClients - liveClients
       /\ \A t \in Threads : rpc[t] = "stats" =>
            /\ Len(lats) = Len(reqInfo) /\ liveClients >= 0
            /\ Len(lats) = NClients - liveClients - 1
       /\ \A t \in Threads : rpc[t] = "info" =>
            /\ Len(lats) = Len(reqInfo) + 1 /\ liveClients >= 0
            /\ Len(lats) = NClients - liveClients
            /\ lats[Len(lats)].client = ClientOf[t]
            /\ lats[Len(lats)].ids \subseteq size[t]
  /\ proc = "exited" => Len(lats) = NClients /\ Len(reqInfo) = NClients
  /\ \A k \in DOMAIN reqInfo :
       /\ lats[k].client = reqInfo[k].client
       /\ lats[k].ids \subseteq reqInfo[k].ids
  /\ \A t \in Threads : rpc[t] = "stats" => size[t] \subseteq samples[ClientOf[t]]
  /\ \A k \in DOMAIN lats : lats[k].ids \subseteq samples[lats[k].client]

\* Damage: a loop counted an entry that is not there only in the second dump,
\* and one that may have read freed memory was left behind by the vectors.
TornInv ==
  /\ \A t \in torn : rpc[t] = "info"
  /\ \A k \in DOMAIN lats :
       lats[k].intact \/ lats[k].ids # samples[lats[k].client]

\* A client with one receiver has handled the frames up to here, and measured
\* the responses after the first ROI_BEGIN.
Unhandled(t) == rpc[t] \in {"fini", "push", "startroi"}
HandledTo(c, t) == IF Unhandled(t) THEN nread[c] - 1 ELSE nread[c]
MeasuredTo(c, n) ==
  {toClient[c][i].id : i \in {j \in 1 .. n :
     /\ IsFrame(c, j, "RESPONSE")
     /\ \E k \in 1 .. j : IsFrame(c, k, "ROI_BEGIN")}}
SoloInvOf(c, t) ==
  /\ samples[c] = MeasuredTo(c, HandledTo(c, t))
  /\ status[c] = "ROI" <=>
       \E i \in 1 .. HandledTo(c, t) : IsFrame(c, i, "ROI_BEGIN")
  /\ Unhandled(t) => nread[c] > 0 /\ toClient[c][nread[c]] = resp[t]
  /\ rpc[t] = "startroi" => IsFrame(c, nread[c], "ROI_BEGIN")
  /\ Finishing(t) => IsFrame(c, nread[c], "FINISH")
  /\ Dumping(t) /\ proc # "exited" => size[t] = samples[c]
  /\ \A k \in DOMAIN lats : lats[k].client = c =>
       \E n \in 1 .. nread[c] :
         /\ IsFrame(c, n, "FINISH")
         /\ lats[k] = [client |-> c, ids |-> MeasuredTo(c, n), intact |-> TRUE]
SoloInv ==
  \A t \in Threads : ThreadsOf(ClientOf[t]) = {t} => SoloInvOf(ClientOf[t], t)

\* And its two dumps are the same, since it handles nothing in between.
SoloFilesOf(c, t) ==
  /\ Dumping(t) /\ proc # "exited" => t \notin torn
  /\ rpc[t] = "info" /\ proc # "exited" => lats[Len(lats)].ids = size[t]
  /\ \A k \in DOMAIN reqInfo : lats[k].client = c => reqInfo[k] = lats[k]
SoloFiles ==
  \A t \in Threads : ThreadsOf(ClientOf[t]) = {t} => SoloFilesOf(ClientOf[t], t)

\* Why an assertion failed, if one did.
AbortInv == AbortsOnlyByRoiBegin

NetInv ==
  /\ proc = "running" => ClientOK
  /\ Types /\ StreamInv /\ HeldInv /\ AnswerInv /\ InFlightInv /\ SampleInv
  /\ RoiInv /\ MonInv /\ EarlyInv /\ FinishInv /\ FileInv /\ SoloInv /\ AbortInv
  /\ TornInv /\ SoloFiles

-----------------------------------------------------------------------------
(* What the steps of the client's functions change                         *)

\* A step of a sender, seen from the receivers: requests are added, in flight,
\* to the requests owed, and to those asked.
SenderEffect(t) ==
  /\ proc = "running" /\ proc' \in {"running", "sigpipe"}
  /\ UNCHANGED <<toClient, gone, recvVars, dumpVars, monVars, samples, ready,
                 publishing>>
  /\ startedReqs' \in [Clients -> Nat] /\ asked' \in [Clients -> SUBSET Nat]
  /\ sendDone' \subseteq Threads
  /\ \A u \in Threads : owed[u] \subseteq owed'[u]
  /\ \A c \in Clients :
       /\ status'[c] = "ROI" <=> status[c] = "ROI"
       /\ startedReqs[c] <= startedReqs'[c]
       /\ inFlightReqs'[c] \cap IdsBelow(c, startedReqs[c]) \subseteq inFlightReqs[c]
       /\ inFlightReqs[c] \subseteq inFlightReqs'[c]
       /\ asked[c] \subseteq asked'[c]
       /\ asked'[c] \ asked[c] \subseteq IdsBelow(c, startedReqs[c])
       /\ asked'[c] # asked[c] => t \in ThreadsOf(c) /\ asked'[c] \ asked[c] \subseteq owed'[t]

LEMMA GenerateEffect ==
  ASSUME Types, ClientOK, NEW t \in Threads, Generate(t)
  PROVE  SenderEffect(t)
<1> USE DEF ClientOK, ClientTypeOK
<1>0. /\ UNCHANGED <<netVars, recvVars, dumpVars, monVars>>
      /\ proc = "running" /\ pc[t] # "ret"
  BY DEF Generate, StartReqStep, StartReq, BarrierWait, InitDist, CheckStatus,
         CheckStarted, CvWait, GenReq, Return
<1>1. CASE \/ StartReq(t) \/ BarrierWait(t) \/ CheckStatus(t)
           \/ CheckStarted(t) \/ CvWait(t)
  <2>1. UNCHANGED <<status, startedReqs, inFlightReqs, samples, ready,
                    publishing, owed, proc>>
    BY <1>1 DEF StartReq, BarrierWait, CheckStatus, CheckStarted, CvWait,
                clientVars
  <2> QED BY <1>0, <2>1 DEF SenderEffect, Types, netVars
<1>2. CASE InitDist(t)
  <2>1. /\ UNCHANGED <<startedReqs, inFlightReqs, samples, ready, publishing,
                       owed, proc>>
        /\ \/ status' = status
           \/ /\ ~dist[ClientOf[t]]
              /\ status' = [status EXCEPT ![ClientOf[t]] = "WARMUP"]
    BY <1>2 DEF InitDist
  <2>2. ~dist[ClientOf[t]] => status[ClientOf[t]] = "INIT"
    BY DEF StartInv, StartInvOf
  <2>3. \A c \in Clients : status'[c] = "ROI" <=> status[c] = "ROI"
    BY <2>1, <2>2
  <2> QED BY <1>0, <2>1, <2>3 DEF SenderEffect, Types, netVars
<1>3. CASE GenReq(t)
  <2> DEFINE c == ClientOf[t]
             n == startedReqs[c]
             id == ReqId(c, n)
  <2>1. /\ startedReqs' = [startedReqs EXCEPT ![c] = n + 1]
        /\ inFlightReqs' = [inFlightReqs EXCEPT ![c] = inFlightReqs[c] \cup {id}]
        /\ UNCHANGED <<status, samples, ready, publishing, owed, proc>>
    BY <1>3 DEF GenReq
  <2>2. id \notin IdsBelow(c, n)
    BY NextIdIsNew
  <2> HIDE DEF id
  <2>3. \A d \in Clients :
          /\ startedReqs[d] <= startedReqs'[d]
          /\ inFlightReqs'[d] \cap IdsBelow(d, startedReqs[d]) \subseteq inFlightReqs[d]
          /\ inFlightReqs[d] \subseteq inFlightReqs'[d]
    BY <2>1, <2>2
  <2>4. startedReqs' \in [Clients -> Nat]
    BY <2>1
  <2> QED BY <1>0, <2>1, <2>3, <2>4 DEF SenderEffect, Types, netVars
<1> QED BY <1>0, <1>1, <1>2, <1>3 DEF Generate, StartReqStep, Return, Goto

LEMMA SenderSteps ==
  ASSUME Types, proc = "running" => ClientOK, NEW t \in Threads, SendStep(t)
  PROVE  SenderEffect(t)
<1>0. proc = "running"
  BY DEF SendStep, Generate, Send, SendToNobody, SendFail, SigPipe, Return,
         StartReqStep, StartReq, BarrierWait, InitDist, CheckStatus,
         CheckStarted, CvWait, GenReq
<1> USE DEF ClientOK, ClientTypeOK
<1>1. CASE Generate(t)
  BY <1>0, <1>1, GenerateEffect
<1>2. ASSUME Return(t), UNCHANGED <<gone, sendDone, toClient, recvVars, dumpVars, monVars>>,
             asked' = asked \/ asked' = [asked EXCEPT ![ClientOf[t]] = asked[ClientOf[t]] \cup {req[t]}]
      PROVE  SenderEffect(t)
  <2> DEFINE c == ClientOf[t]
  <2>1. /\ owed' = [owed EXCEPT ![t] = owed[t] \cup {req[t]}]
        /\ pc[t] = "ret" /\ UNCHANGED <<clientVars, proc>>
    BY <1>2 DEF Return, Goto
  <2>2. req[t] \in IdsBelow(c, startedReqs[c])
    BY <1>0, <2>1 DEF IdInv, Holds
  <2>3. t \in ThreadsOf(c) /\ req[t] \in Nat
    BY <1>0 DEF ThreadsOf
  <2>4. /\ asked' \in [Clients -> SUBSET Nat]
        /\ \A d \in Clients :
             /\ asked[d] \subseteq asked'[d]
             /\ asked'[d] \ asked[d] \subseteq IdsBelow(d, startedReqs[d])
             /\ asked'[d] # asked[d] => d = c /\ asked'[d] \ asked[d] \subseteq {req[t]}
    <3>1. asked \in [Clients -> SUBSET Nat] /\ c \in Clients
      BY DEF Types
    <3>2. CASE asked' = asked
      BY <3>1, <3>2
    <3>3. CASE asked' = [asked EXCEPT ![c] = asked[c] \cup {req[t]}]
      <4> HIDE DEF c
      <4>1. asked[c] \cup {req[t]} \in SUBSET Nat
        BY <2>3, <3>1
      <4>2. asked' \in [Clients -> SUBSET Nat]
        BY <3>1, <3>3, <4>1
      <4>3. \A d \in Clients : asked'[d] = IF d = c THEN asked[c] \cup {req[t]} ELSE asked[d]
        BY <3>1, <3>3
      <4> QED BY <2>2, <4>2, <4>3
    <3> QED BY <1>2, <3>2, <3>3
  <2>5. \A u \in Threads : owed[u] \subseteq owed'[u]
    BY <1>0, <2>1
  <2>6. req[t] \in owed'[t]
    BY <1>0, <2>1
  <2> QED BY <1>0, <1>2, <2>1, <2>3, <2>4, <2>5, <2>6 DEF SenderEffect, clientVars, Types
<1>3. CASE Send(t)
  BY <1>2, <1>3 DEF Send, Server!Ask
<1>4. CASE SendToNobody(t)
  BY <1>2, <1>4 DEF SendToNobody, netVars
<1>5. CASE SendFail(t) \/ SigPipe(t)
  <2>1. /\ UNCHANGED <<clientVars, owed, asked, toClient, gone, recvVars, dumpVars,
                       monVars>>
        /\ sendDone' \subseteq Threads /\ proc' \in {"running", "sigpipe"}
    BY <1>0, <1>5 DEF SendFail, SigPipe, netVars, threadVars, Types
  <2> QED BY <1>0, <2>1 DEF SenderEffect, clientVars, Types
<1> QED BY <1>1, <1>3, <1>4, <1>5 DEF SendStep

\* A response that is handled is to a request that is owed, so finiReq finds it.
LEMMA ResponseEffect ==
  ASSUME NetInv, NEW t \in Threads, HandleResponse(t)
  PROVE  LET c == ClientOf[t]
             id == resp[t].id
         IN /\ proc = "running" /\ Holding(t)
            /\ id \in ReadOn(c) /\ id \in inFlightReqs[c] /\ id \notin Handled(c)
            /\ \E u \in ThreadsOf(c) :
                 id \in owed[u] /\ FiniReq(u, id) /\ owed' = [owed EXCEPT ![u] = owed[u] \ {id}]
            /\ inFlightReqs' = [inFlightReqs EXCEPT ![c] = inFlightReqs[c] \ {id}]
            /\ samples' = [samples EXCEPT ![c] =
                 IF status[c] = "ROI" THEN samples[c] \cup {id} ELSE samples[c]]
            /\ tmpSjrnTimes' = [tmpSjrnTimes EXCEPT ![c] =
                 tmpSjrnTimes[c] \cup (samples'[c] \ samples[c])]
            /\ \/ resp' = [resp EXCEPT ![t] = NoFrame] /\ rpc' = [rpc EXCEPT ![t] = "recv"]
               \/ resp' = resp /\ rpc' = [rpc EXCEPT ![t] = "tids"]
            /\ UNCHANGED <<proc, status, dist, startedReqs, ready, publishing,
                           netVars, nread, recvLeaked, dumpVars, numStartRoi,
                           mon, shown>>
<1> DEFINE c == ClientOf[t]
           id == resp[t].id
           u == Sender(t, id)
<1>1. /\ Holding(t) /\ FiniReq(u, id) /\ proc = "running"
      /\ tmpSjrnTimes' = [tmpSjrnTimes EXCEPT ![c] =
           tmpSjrnTimes[c] \cup (samples'[c] \ samples[c])]
      /\ \/ resp' = [resp EXCEPT ![t] = NoFrame] /\ rpc' = [rpc EXCEPT ![t] = "recv"]
         \/ resp' = resp /\ rpc' = [rpc EXCEPT ![t] = "tids"]
      /\ UNCHANGED <<netVars, nread, recvLeaked, dumpVars, numStartRoi,
                     mon, shown>>
  BY DEF HandleResponse, PushSjrn, SkipResponse, Fini, RecvAt, RecvGoto, Holding
<1>2. t \in ThreadsOf(c) /\ c \in Clients
  BY DEF ThreadsOf
<1>3. id \in ReadOn(c)
  BY <1>1 DEF NetInv, HeldInv
<1>4. id \notin Handled(c)
  <2>1. id \in HeldBy(t)
    BY <1>1 DEF HeldBy, Holding
  <2> QED BY <1>2, <2>1 DEF Handled, HeldOn
<1>5. id \in asked[c]
  <2>1. PICK i \in 1 .. nread[c] : toClient[c][i].type = "RESPONSE" /\ toClient[c][i].id = id
    BY <1>3 DEF ReadOn
  <2>2. i \in DOMAIN toClient[c]
    BY <1>2, <2>1 DEF NetInv, Types, StreamInv, StreamInvOf
  <2> QED BY <1>2, <2>1, <2>2 DEF NetInv, StreamInv, StreamInvOf, IsFrame
<1>6. id \in OwedOn(c)
  BY <1>2, <1>4, <1>5 DEF NetInv, AnswerInv
<1>7. u \in ThreadsOf(c) /\ id \in owed[u]
  BY <1>6 DEF OwedOn, Sender
<1> HIDE DEF u
<1>8. u \in Threads /\ ClientOf[u] = c
  BY <1>7 DEF ThreadsOf
<1>9. id \in inFlightReqs[c]
  BY <1>1, <1>7, <1>8, FiniReqFinds DEF NetInv, ClientOK
<1>10. /\ inFlightReqs' = [inFlightReqs EXCEPT ![c] = inFlightReqs[c] \ {id}]
       /\ samples' = [samples EXCEPT ![c] =
            IF status[c] = "ROI" THEN samples[c] \cup {id} ELSE samples[c]]
       /\ owed' = [owed EXCEPT ![u] = owed[u] \ {id}]
       /\ UNCHANGED <<proc, status, dist, startedReqs, ready, publishing>>
  BY <1>1, <1>8, <1>9 DEF FiniReq, Measured
<1> QED BY <1>1, <1>3, <1>4, <1>7, <1>9, <1>10

\* The other steps of finiReq only move the receiver.
LEMMA GoOnEffect ==
  ASSUME NEW t \in Threads, GoOn(t)
  PROVE  /\ proc = "running"
         /\ \/ rpc[t] = "fini" /\ rpc' = [rpc EXCEPT ![t] = "push"] /\ resp' = resp
            \/ /\ rpc[t] = "tids" /\ rpc' = [rpc EXCEPT ![t] = "recv"]
               /\ resp' = [resp EXCEPT ![t] = NoFrame]
         /\ UNCHANGED <<vars, netVars, nread, recvLeaked, dumpVars, monVars>>
  BY DEF GoOn, PushStart, PushTids, RecvAt, RecvGoto

\* ROI_BEGIN takes effect in the warm-up, and fails an assertion otherwise.
LEMMA RoiEffect ==
  ASSUME NetInv, NEW t \in Threads, HandleRoiBegin(t)
  PROVE  LET c == ClientOf[t]
         IN /\ proc = "running" /\ rpc[t] = "startroi" /\ StartRoi(c)
            /\ UNCHANGED <<startedReqs, inFlightReqs, owed, netVars, dumpVars,
                           nread, recvLeaked, resp, numStartRoi, mon, shown>>
            /\ \/ /\ status[c] = "WARMUP" /\ proc' = "running"
                  /\ status' = [status EXCEPT ![c] = "ROI"]
                  /\ samples' = [samples EXCEPT ![c] = {}]
                  /\ tmpSjrnTimes' = [tmpSjrnTimes EXCEPT ![c] = {}]
                  /\ rpc' = [rpc EXCEPT ![t] = "publish"]
               \/ /\ status[c] # "WARMUP" /\ proc' = "aborted"
                  /\ UNCHANGED <<status, samples, rpc, tmpSjrnTimes>>
  BY DEF HandleRoiBegin, RecvAt, RecvGoto, StartRoi, EnterRoi, threadVars,
         recvVars, monVars

-----------------------------------------------------------------------------
(* The client's own invariants                                             *)

LEMMA RoiKeepsClient ==
  ASSUME ClientOK, NEW c \in Clients, StartRoi(c), status[c] = "WARMUP"
  PROVE  ClientOK'
<1> USE DEF ClientOK
<1>1. /\ status' = [status EXCEPT ![c] = "ROI"]
      /\ samples' = [samples EXCEPT ![c] = {}]
      /\ dist' = [dist EXCEPT ![c] = TRUE]
      /\ publishing' = [publishing EXCEPT ![c] = TRUE]
      /\ UNCHANGED <<barrier, ready, startedReqs, inFlightReqs, pc, req, owed, proc>>
  BY DEF StartRoi, EnterRoi, threadVars
<1>2. ClientTypeOK'
  BY <1>1 DEF ClientTypeOK
<1>3. StartInv'
  <2> SUFFICES ASSUME NEW d \in Clients
               PROVE  StartInvOf(d)'
    BY DEF StartInv
  <2>1. StartInvOf(d) /\ ThreadsOf(d)' = ThreadsOf(d)
    BY DEF StartInv, ThreadsOf
  <2>2. dist'[d] = dist[d] /\ (status'[d] # "INIT" <=> status[d] # "INIT")
    BY <1>1, <2>1 DEF StartInvOf, ClientTypeOK
  <2> QED BY <1>1, <2>1, <2>2 DEF StartInvOf
<1>4. GateInv'
  BY <1>1 DEF GateInv, ClientTypeOK
<1>5. IdInv'
  BY <1>1, IdInvUnchanged DEF IdInv
<1> QED BY <1>2, <1>3, <1>4, <1>5

LEMMA ClientStepKeeps ==
  ASSUME ClientOK, [ClientNext]_vars
  PROVE  ClientOK'
  BY TypeStep, StartInvStep, GateInvStep, IdInvStep DEF ClientOK

\* A sender that finds the server gone drops its request: it stays in flight.
LEMMA DropKeepsClient ==
  ASSUME ClientOK, NEW t \in Threads, SendFail(t)
  PROVE  ClientOK'
<1> USE DEF ClientOK, ClientTypeOK
<1>1. /\ pc[t] = "ret" /\ pc' = [pc EXCEPT ![t] = "idle"]
      /\ req' = [req EXCEPT ![t] = 0]
      /\ UNCHANGED <<clientVars, owed, proc>>
  BY DEF SendFail, Goto
<1>2. ClientTypeOK'
  BY <1>1 DEF clientVars, PC
<1>3. StartInv'
  BY <1>1 DEF StartInv, StartInvOf, ThreadsOf, clientVars, Mid
<1>4. GateInv'
  BY <1>1 DEF GateInv, clientVars
<1>5. IdInv'
  <2>1. \A u \in Threads : Holds(u)' \subseteq Holds(u) /\ (pc'[u] = "ret" => pc[u] = "ret" /\ req'[u] = req[u])
    BY <1>1 DEF Holds
  <2>2. \A c \in Clients : IdsBelow(c, startedReqs[c])' = IdsBelow(c, startedReqs[c])
    BY <1>1 DEF IdsBelow, clientVars
  <2> QED BY <1>1, <2>1, <2>2 DEF IdInv, clientVars
<1> QED BY <1>2, <1>3, <1>4, <1>5

LEMMA ClientOKStep ==
  ASSUME NetInv, [NetClientNext]_netClientVars, proc' = "running"
  PROVE  ClientOK'
<1>1. CASE UNCHANGED vars
  BY <1>1, ClientStepKeeps DEF NetInv, vars
<1>2. ASSUME NEW t \in Threads, SendStep(t)
      PROVE  ClientOK'
  <2>0. proc = "running" /\ ClientOK
    BY <1>2, SenderSteps DEF SenderEffect, NetInv
  <2>1. CASE Generate(t) \/ Send(t) \/ SendToNobody(t)
    <3>1. ClientNext
      BY <2>1 DEF Generate, Send, SendToNobody, StartReqStep, ClientNext
    <3> QED BY <2>0, <3>1, ClientStepKeeps
  <2>2. CASE SendFail(t)
    BY <2>0, <2>2, DropKeepsClient
  <2>3. CASE SigPipe(t)
    BY <2>3 DEF SigPipe
  <2> QED BY <1>2, <2>1, <2>2, <2>3 DEF SendStep
<1>3. ASSUME NEW t \in Threads, HandleResponse(t)
      PROVE  ClientOK'
  <2>1. PICK u \in ThreadsOf(ClientOf[t]) :
          resp[t].id \in owed[u] /\ FiniReq(u, resp[t].id)
    BY <1>3, ResponseEffect
  <2>2. u \in Threads /\ ClientOK
    BY <1>3, ResponseEffect DEF ThreadsOf, NetInv
  <2>3. ClientNext
    BY <2>1, <2>2 DEF ClientNext
  <2> QED BY <2>2, <2>3, ClientStepKeeps
<1>4. ASSUME NEW t \in Threads, HandleRoiBegin(t)
      PROVE  ClientOK'
  BY <1>4, RoiEffect, RoiKeepsClient DEF NetInv
<1>5. ASSUME NEW t \in Threads, Publish(t)
      PROVE  ClientOK'
  <2>1. ClientNext /\ proc = "running"
    BY <1>5 DEF Publish, RecvAt, ClientNext
  <2> QED BY <2>1, ClientStepKeeps DEF NetInv
<1>6. ASSUME NEW t \in Threads, EndInfo(t) \/ DumpFault(t)
      PROVE  UNCHANGED vars
  <2>1. UNCHANGED <<clientVars, threadVars>> /\ proc = "running"
    BY <1>6 DEF EndInfo, DumpFault, RecvAt
  <2> QED BY <2>1 DEF vars
<1>7. ASSUME NEW t \in Threads,
             \/ Recv(t) \/ RecvFail(t) \/ GoOn(t) \/ CountRoi(t) \/ BeginStats(t)
             \/ EndStats(t)
      PROVE  UNCHANGED vars
  BY <1>7, GoOnEffect DEF Recv, RecvFail, CountRoi, BeginStats, EndStats
<1>8. MonStart \/ MonSweep => UNCHANGED vars
  BY DEF MonStart, MonSweep
<1>9. ASSUME NEW c \in Clients,
             Answer(c) \/ \E type \in {"ROI_BEGIN", "FINISH"} : Announce(c, type)
      PROVE  UNCHANGED vars
  BY <1>9 DEF Answer, Announce
<1>10. Die => UNCHANGED vars
  BY DEF Die
<1> QED BY <1>1, <1>2, <1>3, <1>4, <1>5, <1>6, <1>7, <1>8, <1>9, <1>10
        DEF NetClientNext, RecvStep, HandleResponse, GoOn, netClientVars

-----------------------------------------------------------------------------
(* The server writes                                                       *)

\* What the server writes is at the end of one stream, and a response is to a
\* request that was asked and not answered.
ServerWrites(c, f) ==
  /\ f \in Sent
  /\ toClient' = [toClient EXCEPT ![c] = Append(toClient[c], f)]
  /\ f.type = "RESPONSE" =>
       /\ f.id \in asked[c]
       /\ \A i \in DOMAIN toClient[c] :
            IsFrame(c, i, "RESPONSE") => toClient[c][i].id # f.id
  /\ UNCHANGED <<vars, asked, gone, sendDone, recvVars, dumpVars, monVars>>

LEMMA ServerEffect ==
  ASSUME NetInv, NEW c \in Clients,
         Answer(c) \/ \E type \in {"ROI_BEGIN", "FINISH"} : Announce(c, type)
  PROVE  \E f \in Sent : ServerWrites(c, f)
<1>1. CASE Answer(c)
  <2>1. PICK id \in asked[c] : Server!Answer(c, id)
    BY <1>1 DEF Answer
  <2> DEFINE f == [type |-> "RESPONSE", id |-> id]
  <2>2. id \in Nat
    BY DEF NetInv, Types
  <2>3. f \in Sent
    BY <2>2 DEF Sent
  <2>4. \A i \in DOMAIN toClient[c] :
          IsFrame(c, i, "RESPONSE") => toClient[c][i].id # id
    BY <2>1 DEF Server!Answer, Server!Answered, IsFrame
  <2>5. /\ toClient' = [toClient EXCEPT ![c] = Append(toClient[c], f)]
        /\ UNCHANGED <<vars, asked, gone, sendDone, recvVars, dumpVars, monVars>>
    BY <1>1, <2>1 DEF Answer, Server!Answer, Server!Write
  <2> QED BY <2>1, <2>3, <2>4, <2>5 DEF ServerWrites
<1>2. ASSUME NEW type \in {"ROI_BEGIN", "FINISH"}, Announce(c, type)
      PROVE  \E f \in Sent : ServerWrites(c, f)
  <2> DEFINE f == [type |-> type, id |-> <<>>]
  <2>1. f \in Sent /\ f.type # "RESPONSE"
    BY DEF Sent
  <2>2. /\ toClient' = [toClient EXCEPT ![c] = Append(toClient[c], f)]
        /\ UNCHANGED <<vars, asked, gone, sendDone, recvVars, dumpVars, monVars>>
    BY <1>2 DEF Announce, Server!Announce, Server!Write
  <2> QED BY <2>1, <2>2 DEF ServerWrites
<1> QED BY <1>1, <1>2

\* The streams grow: frame n stays frame n.
LEMMA FramesStay ==
  ASSUME NetInv, NEW c \in Clients, NEW f \in Sent, ServerWrites(c, f)
  PROVE  /\ toClient' \in [Clients -> Seq(Sent)]
         /\ Len(toClient'[c]) = Len(toClient[c]) + 1
         /\ toClient'[c][Len(toClient[c]) + 1] = f
         /\ \A d \in Clients \ {c} : toClient'[d] = toClient[d]
         /\ \A d \in Clients : /\ DOMAIN toClient[d] = 1 .. Len(toClient[d])
                               /\ DOMAIN toClient'[d] = 1 .. Len(toClient'[d])
                               /\ Len(toClient[d]) \in Nat
                               /\ nread[d] \in Nat /\ nread[d] <= Len(toClient[d])
                               /\ Len(toClient[d]) <= Len(toClient'[d])
         /\ \A d \in Clients : \A i \in DOMAIN toClient[d] :
              i \in DOMAIN toClient'[d] /\ toClient'[d][i] = toClient[d][i]
<1>1. toClient \in [Clients -> Seq(Sent)] /\ nread \in [Clients -> Nat]
  BY DEF NetInv, Types
<1>2. toClient' = [toClient EXCEPT ![c] = Append(toClient[c], f)]
  BY DEF ServerWrites
<1>3. Append(toClient[c], f) \in Seq(Sent)
  BY <1>1
<1>4. toClient' \in [Clients -> Seq(Sent)]
  BY <1>1, <1>2, <1>3
<1>5. toClient'[c] = Append(toClient[c], f) /\ \A d \in Clients \ {c} : toClient'[d] = toClient[d]
  BY <1>1, <1>2
<1>6. /\ Len(toClient'[c]) = Len(toClient[c]) + 1
      /\ toClient'[c][Len(toClient[c]) + 1] = f
      /\ \A i \in 1 .. Len(toClient[c]) : toClient'[c][i] = toClient[c][i]
  BY <1>1, <1>5, AppendProperties
<1>7. \A d \in Clients : /\ DOMAIN toClient[d] = 1 .. Len(toClient[d])
                         /\ DOMAIN toClient'[d] = 1 .. Len(toClient'[d])
                         /\ Len(toClient[d]) \in Nat
                         /\ nread[d] \in Nat /\ nread[d] <= Len(toClient[d])
  BY <1>1, <1>4, LenProperties DEF NetInv, StreamInv, StreamInvOf
<1>8. \A d \in Clients : Len(toClient[d]) <= Len(toClient'[d])
  BY <1>5, <1>6, <1>7
<1>9. ASSUME NEW d \in Clients, NEW i \in DOMAIN toClient[d]
      PROVE  i \in DOMAIN toClient'[d] /\ toClient'[d][i] = toClient[d][i]
  <2>1. CASE d = c
    BY <1>5, <1>6, <1>7, <2>1
  <2>2. CASE d # c
    BY <1>5, <2>2
  <2> QED BY <2>1, <2>2
<1> QED BY <1>4, <1>5, <1>6, <1>7, <1>8, <1>9

\* So what was read is the same, and so is what is derived from it.
LEMMA ReadStays ==
  ASSUME NetInv, NEW c \in Clients, NEW f \in Sent, ServerWrites(c, f)
  PROVE  /\ \A d \in Clients :
              /\ ReadOn(d)' = ReadOn(d) /\ HeldOn(d)' = HeldOn(d)
              /\ Handled(d)' = Handled(d)
              /\ RoiRead(d)' = RoiRead(d) /\ FinishRead(d)' = FinishRead(d)
              /\ RoiRead(d) => Early(d)' = Early(d)
              /\ \A type : Once(d, type)' => Once(d, type)
              /\ \A n \in 0 .. nread[d] : MeasuredTo(d, n)' = MeasuredTo(d, n)
         /\ \A d \in Clients : \A i \in 1 .. nread[d] : \A type :
              IsFrame(d, i, type)' = IsFrame(d, i, type)
         /\ \A d \in Clients : \A i \in DOMAIN toClient[d] : \A type :
              IsFrame(d, i, type)' = IsFrame(d, i, type)
<1>1. UNCHANGED <<nread, rpc, resp>>
  BY DEF ServerWrites, recvVars
<1>2. ASSUME NEW d \in Clients
      PROVE  /\ nread[d] \in Nat
             /\ \A i \in 1 .. nread[d] :
                  /\ i \in DOMAIN toClient[d] /\ i \in DOMAIN toClient'[d]
                  /\ toClient'[d][i] = toClient[d][i]
             /\ \A i \in DOMAIN toClient[d] :
                  i \in DOMAIN toClient'[d] /\ toClient'[d][i] = toClient[d][i]
  BY FramesStay
<1>3. ASSUME NEW d \in Clients, NEW i \in DOMAIN toClient[d], NEW type
      PROVE  IsFrame(d, i, type)' = IsFrame(d, i, type)
  BY <1>2 DEF IsFrame
<1>4. ASSUME NEW d \in Clients
      PROVE  /\ ReadOn(d)' = ReadOn(d) /\ HeldOn(d)' = HeldOn(d)
             /\ Handled(d)' = Handled(d)
             /\ RoiRead(d)' = RoiRead(d) /\ FinishRead(d)' = FinishRead(d)
  <2>1. ReadOn(d)' = ReadOn(d)
    BY <1>1, <1>2 DEF ReadOn
  <2>2. HeldOn(d)' = HeldOn(d)
    BY <1>1 DEF HeldOn, HeldBy, ThreadsOf
  <2>3. RoiRead(d)' = RoiRead(d) /\ FinishRead(d)' = FinishRead(d)
    BY <1>1, <1>2 DEF RoiRead, FinishRead, IsFrame
  <2> QED BY <2>1, <2>2, <2>3 DEF Handled
<1>5. ASSUME NEW d \in Clients, NEW type, Once(d, type)'
      PROVE  Once(d, type)
  BY <1>2, <1>5 DEF Once, IsFrame
<1>6. ASSUME NEW d \in Clients, NEW n \in 0 .. nread[d]
      PROVE  MeasuredTo(d, n)' = MeasuredTo(d, n)
  <2> DEFINE S == {j \in 1 .. n : /\ IsFrame(d, j, "RESPONSE")
                                  /\ \E k \in 1 .. j : IsFrame(d, k, "ROI_BEGIN")}
  <2>1. \A j \in 1 .. n : j \in 1 .. nread[d] /\ \A k \in 1 .. j : k \in 1 .. nread[d]
    BY <1>2
  <2>2. S' = S
    BY <1>2, <2>1 DEF IsFrame
  <2>3. \A j \in S : toClient'[d][j] = toClient[d][j]
    BY <1>2, <2>1
  <2> QED BY <2>2, <2>3 DEF MeasuredTo
<1>7. ASSUME NEW d \in Clients, RoiRead(d)
      PROVE  Early(d)' = Early(d)
  <2> DEFINE S == {j \in DOMAIN toClient[d] :
                     /\ IsFrame(d, j, "RESPONSE")
                     /\ \A k \in 1 .. j : ~IsFrame(d, k, "ROI_BEGIN")}
  <2>1. PICK m \in 1 .. nread[d] : IsFrame(d, m, "ROI_BEGIN")
    BY <1>7 DEF RoiRead
  <2>2. /\ DOMAIN toClient[d] = 1 .. Len(toClient[d]) /\ Len(toClient[d]) \in Nat
        /\ DOMAIN toClient'[d] = 1 .. Len(toClient'[d])
        /\ nread[d] \in Nat /\ nread[d] <= Len(toClient[d])
        /\ Len(toClient[d]) <= Len(toClient'[d])
    BY FramesStay
  <2>3. \A j \in DOMAIN toClient'[d] : j \in S' <=> j \in S
    <3> SUFFICES ASSUME NEW j \in DOMAIN toClient'[d]
                 PROVE  j \in S' <=> j \in S
      OBVIOUS
    <3>1. CASE j \in DOMAIN toClient[d]
      <4>1. \A k \in 1 .. j : k \in DOMAIN toClient[d]
        BY <2>2, <3>1
      <4> QED BY <1>3, <3>1, <4>1
    <3>2. CASE j \notin DOMAIN toClient[d]
      <4>1. m \in 1 .. j
        BY <2>2, <3>2
      <4>2. m \in DOMAIN toClient[d]
        BY <2>1 DEF IsFrame
      <4>3. IsFrame(d, m, "ROI_BEGIN")'
        BY <1>3, <2>1, <4>2
      <4> QED BY <3>2, <4>1, <4>3
    <3> QED BY <3>1, <3>2
  <2>4. S' = S
    BY <1>2, <2>3
  <2>5. \A j \in S : toClient'[d][j] = toClient[d][j]
    BY <1>2
  <2> QED BY <2>4, <2>5 DEF Early
<1> QED BY <1>2, <1>3, <1>4, <1>5, <1>6, <1>7

-----------------------------------------------------------------------------
(* The steps of the process and of the server                              *)

LEMMA NetSteps ==
  ASSUME NetInv, [NetClientNext]_netClientVars
  PROVE  \/ UNCHANGED netClientVars
         \/ \E t \in Threads :
              \/ SenderEffect(t) \/ Recv(t) \/ RecvFail(t) \/ GoOn(t)
              \/ HandleResponse(t) \/ HandleRoiBegin(t) \/ Publish(t)
              \/ CountRoi(t) \/ BeginStats(t) \/ EndStats(t) \/ EndInfo(t)
              \/ DumpFault(t)
         \/ MonStart \/ MonSweep \/ Die
         \/ \E c \in Clients : \E f \in Sent : ServerWrites(c, f)
<1>1. ASSUME NEW t \in Threads, SendStep(t)
      PROVE  SenderEffect(t)
  BY <1>1, SenderSteps DEF NetInv
<1>2. ASSUME NEW c \in Clients,
             Answer(c) \/ \E type \in {"ROI_BEGIN", "FINISH"} : Announce(c, type)
      PROVE  \E f \in Sent : ServerWrites(c, f)
  BY <1>2, ServerEffect
<1> QED BY <1>1, <1>2 DEF NetClientNext, RecvStep, HandleResponse, GoOn

\* A frame that is read is one of the three that are sent.
LEMMA RecvEffect ==
  ASSUME NetInv, NEW t \in Threads, Recv(t)
  PROVE  LET c == ClientOf[t]
             n == nread[c] + 1
         IN /\ proc = "running" /\ rpc[t] = "recv"
            /\ c \in Clients /\ t \in ThreadsOf(c)
            /\ n \in DOMAIN toClient[c] /\ toClient[c][n] \in Sent
            /\ nread' = [nread EXCEPT ![c] = n]
            /\ resp' = [resp EXCEPT ![t] = toClient[c][n]]
            /\ \/ /\ toClient[c][n].type = "RESPONSE"
                  /\ rpc' = [rpc EXCEPT ![t] = "fini"]
               \/ /\ toClient[c][n].type = "ROI_BEGIN"
                  /\ rpc' = [rpc EXCEPT ![t] = "startroi"]
               \/ /\ toClient[c][n].type = "FINISH"
                  /\ rpc' = [rpc EXCEPT ![t] = "finish"]
            /\ UNCHANGED <<vars, netVars, recvLeaked, dumpVars, monVars>>
<1> DEFINE c == ClientOf[t]
           n == nread[c] + 1
<1>1. c \in Clients /\ t \in ThreadsOf(c)
  BY DEF ThreadsOf
<1>2. toClient[c] \in Seq(Sent) /\ nread[c] \in Nat
  BY <1>1 DEF NetInv, Types
<1>3. n <= Len(toClient[c]) /\ nread' = [nread EXCEPT ![c] = n]
  BY DEF Recv, Counted
<1>4. n \in DOMAIN toClient[c] /\ toClient[c][n] \in Sent
  BY <1>2, <1>3
<1> HIDE DEF n
<1>5. toClient[c][n].type \in {"RESPONSE", "ROI_BEGIN", "FINISH"}
  BY <1>4 DEF Sent
<1>6. \/ toClient[c][n].type = "RESPONSE" /\ Handler(toClient[c][n].type) = "fini"
      \/ toClient[c][n].type = "ROI_BEGIN" /\ Handler(toClient[c][n].type) = "startroi"
      \/ toClient[c][n].type = "FINISH" /\ Handler(toClient[c][n].type) = "finish"
  BY <1>5 DEF Handler
<1>7. /\ proc = "running" /\ rpc[t] = "recv"
      /\ rpc' = [rpc EXCEPT ![t] = Handler(toClient[c][n].type)]
      /\ resp' = [resp EXCEPT ![t] = toClient[c][n]]
      /\ UNCHANGED <<vars, netVars, recvLeaked, dumpVars, monVars>>
  BY DEF Recv, RecvAt, RecvGoto, n
<1> QED BY <1>1, <1>3, <1>4, <1>6, <1>7 DEF n

\* Finitely many responses were read.
LEMMA ReadIsFinite ==
  ASSUME Types, NEW c \in Clients
  PROVE  IsFiniteSet(ReadOn(c))
<1> DEFINE S == {j \in 1 .. nread[c] : toClient[c][j].type = "RESPONSE"}
           g == [i \in S |-> toClient[c][i].id]
<1>1. IsFiniteSet(1 .. nread[c])
  BY FS_Interval DEF Types
<1>2. IsFiniteSet(S)
  BY <1>1, FS_Subset
<1>3. ReadOn(c) = {toClient[c][i].id : i \in S}
  BY DEF ReadOn
<1> HIDE DEF S
<1>4. g \in Surjection(S, ReadOn(c))
  BY <1>3 DEF Surjection
<1> QED BY <1>2, <1>4, FS_Surjection

-----------------------------------------------------------------------------
(* Types                                                                   *)

LEMMA DumpsType ==
  ASSUME NetInv, NEW t \in Threads, NEW d \in Dumps(t)
  PROVE  /\ d \in Dumped /\ d.client = ClientOf[t] /\ d.ids = size[t]
         /\ d.intact \/ MayFault(t)
         /\ ~MayFault(t) =>
              d = [client |-> ClientOf[t], ids |-> size[t], intact |-> TRUE]
<1>1. ClientOf[t] \in Clients /\ size[t] \in SUBSET Nat
  BY DEF NetInv, Types
<1>2. PICK b \in BOOLEAN : /\ b \/ MayFault(t)
                           /\ d = [client |-> ClientOf[t], ids |-> size[t], intact |-> b]
  BY DEF Dumps, Written
<1> QED BY <1>1, <1>2 DEF Dumped

\* With one receiver, which is not in finiReq, the vectors have the same entries.
LEMMA SoloVectors ==
  ASSUME NEW t \in Threads, ThreadsOf(ClientOf[t]) = {t},
         rpc[t] \notin {"push", "tids"}
  PROVE  /\ StartTimes(ClientOf[t]) = samples[ClientOf[t]]
         /\ Tids(ClientOf[t]) = samples[ClientOf[t]]
<1>1. InFini(ClientOf[t], "push") = {} /\ InFini(ClientOf[t], "tids") = {}
  BY DEF InFini
<1> QED BY <1>1 DEF StartTimes, Tids

\* No vector shrinks below sjrnTimes.
LEMMA StartTimesType ==
  ASSUME NetInv, NEW c \in Clients, proc = "running"
  PROVE  StartTimes(c) \in SUBSET Nat /\ samples[c] \subseteq StartTimes(c)
<1>1. samples[c] \in SUBSET Nat
  BY DEF NetInv, ClientOK, ClientTypeOK
<1>2. InFini(c, "push") \subseteq Nat
  <2> SUFFICES ASSUME NEW t \in ThreadsOf(c), rpc[t] = "push"
               PROVE  resp[t].id \in Nat
    BY DEF InFini
  <2>1. t \in Threads /\ resp[t] \in Frames /\ resp[t].type = "RESPONSE"
    BY DEF ThreadsOf, NetInv, Types, HeldInv, Holding
  <2> QED BY <2>1 DEF Frames
<1> QED BY <1>1, <1>2 DEF StartTimes

LEMMA TypesStep ==
  ASSUME NetInv, [NetClientNext]_netClientVars
  PROVE  Types'
<1>0. Types
  BY DEF NetInv
<1> USE DEF Types
<1>1. CASE UNCHANGED netClientVars
  BY <1>0, <1>1 DEF netClientVars, vars, netVars, recvVars, dumpVars, monVars
<1>2. ASSUME NEW t \in Threads, SenderEffect(t)
      PROVE  Types'
  BY <1>0, <1>2 DEF SenderEffect, recvVars, dumpVars, monVars
<1>3. ASSUME NEW t \in Threads, Recv(t)
      PROVE  Types'
  <2>1. toClient[ClientOf[t]][nread[ClientOf[t]] + 1] \in Frames
    BY <1>3, RecvEffect DEF Sent, Frames
  <2>2. nread' \in [Clients -> Nat]
    <3>1. nread' = [nread EXCEPT ![ClientOf[t]] = nread[ClientOf[t]] + 1]
      BY <1>3, RecvEffect
    <3> QED BY <1>0, <3>1
  <2>3. resp' \in [Threads -> Frames]
    <3>1. resp' = [resp EXCEPT ![t] = toClient[ClientOf[t]][nread[ClientOf[t]] + 1]]
      BY <1>3, RecvEffect
    <3> QED BY <1>0, <2>1, <3>1
  <2>5. \/ rpc' = [rpc EXCEPT ![t] = "fini"]
        \/ rpc' = [rpc EXCEPT ![t] = "startroi"]
        \/ rpc' = [rpc EXCEPT ![t] = "finish"]
    BY <1>3, RecvEffect
  <2>4. UNCHANGED <<vars, netVars, recvLeaked, dumpVars, monVars>>
    BY <1>3, RecvEffect
  <2> QED BY <1>0, <2>2, <2>3, <2>4, <2>5 DEF vars, netVars, dumpVars, monVars
<1>20. ASSUME NEW t \in Threads, GoOn(t)
       PROVE  Types'
  <2>1. NoFrame \in Frames
    BY DEF NoFrame, Frames
  <2>2. /\ \/ rpc' = [rpc EXCEPT ![t] = "push"] /\ resp' = resp
           \/ rpc' = [rpc EXCEPT ![t] = "recv"] /\ resp' = [resp EXCEPT ![t] = NoFrame]
        /\ UNCHANGED <<vars, netVars, nread, recvLeaked, dumpVars, monVars>>
    BY <1>20, GoOnEffect
  <2> QED BY <1>0, <2>1, <2>2 DEF vars, netVars, dumpVars, monVars
<1>4. ASSUME NEW t \in Threads, RecvFail(t)
      PROVE  Types'
  BY <1>0, <1>4 DEF RecvFail, RecvAt, RecvGoto, vars, netVars, dumpVars, monVars
<1>5. ASSUME NEW t \in Threads, HandleResponse(t)
      PROVE  Types'
  <2> DEFINE c == ClientOf[t]
             id == resp[t].id
  <2>1. id \in Nat /\ c \in Clients /\ NoFrame \in Frames
    <3>1. Holding(t)
      BY <1>5, ResponseEffect
    <3>2. resp[t] \in Frames /\ resp[t].type = "RESPONSE"
      BY <1>0, <3>1 DEF NetInv, HeldInv
    <3> QED BY <3>2 DEF Frames, NoFrame
  <2>2. samples'[c] \ samples[c] \subseteq {id}
    <3>1. samples \in [Clients -> SUBSET Nat]
      BY <1>5, ResponseEffect DEF NetInv, ClientOK, ClientTypeOK
    <3>2. samples' = [samples EXCEPT ![c] =
            IF status[c] = "ROI" THEN samples[c] \cup {id} ELSE samples[c]]
      BY <1>5, ResponseEffect
    <3> QED BY <2>1, <3>1, <3>2
  <2>3. tmpSjrnTimes' = [tmpSjrnTimes EXCEPT ![c] =
          tmpSjrnTimes[c] \cup (samples'[c] \ samples[c])]
    BY <1>5, ResponseEffect
  <2>4. tmpSjrnTimes' \in [Clients -> SUBSET Nat]
    BY <1>0, <2>1, <2>2, <2>3
  <2>5. /\ \/ resp' = [resp EXCEPT ![t] = NoFrame] /\ rpc' = [rpc EXCEPT ![t] = "recv"]
           \/ resp' = resp /\ rpc' = [rpc EXCEPT ![t] = "tids"]
        /\ UNCHANGED <<proc, netVars, nread, recvLeaked, dumpVars, numStartRoi,
                       mon, shown>>
    BY <1>5, ResponseEffect
  <2> QED BY <1>0, <2>1, <2>4, <2>5 DEF netVars, dumpVars
<1>6. ASSUME NEW t \in Threads, HandleRoiBegin(t)
      PROVE  Types'
  BY <1>0, <1>6, RoiEffect DEF netVars, dumpVars
<1>7. ASSUME NEW t \in Threads, Publish(t)
      PROVE  Types'
  BY <1>0, <1>7 DEF Publish, RecvAt, RecvGoto, PublishReady, netVars, dumpVars, monVars
<1>8. ASSUME NEW t \in Threads, CountRoi(t)
      PROVE  Types'
  BY <1>0, <1>8 DEF CountRoi, RecvAt, RecvGoto, vars, netVars, dumpVars, NoFrame, Frames
<1>9. ASSUME NEW t \in Threads, BeginStats(t)
      PROVE  Types'
  <2>1. samples[ClientOf[t]] \in SUBSET Nat
    BY <1>9 DEF BeginStats, RecvAt, NetInv, ClientOK, ClientTypeOK
  <2> QED BY <1>0, <1>9, <2>1 DEF BeginStats, RecvAt, RecvGoto, SjrnTimes, Opened,
             vars, netVars, monVars
<1>10. ASSUME NEW t \in Threads, EndStats(t)
       PROVE  Types'
  <2>1. StartTimes(ClientOf[t]) \in SUBSET Nat
    BY <1>10, StartTimesType DEF EndStats, RecvAt
  <2>2. lats' \in Seq(Dumped)
    <3>1. PICK d \in Dumps(t) : lats' = Append(lats, d)
      BY <1>10 DEF EndStats, Dumps
    <3> QED BY <1>0, <3>1, DumpsType
  <2>3. torn' \subseteq Threads
    BY <1>0, <1>10 DEF EndStats
  <2> QED BY <1>0, <1>10, <2>1, <2>2, <2>3 DEF EndStats, RecvAt, RecvGoto, Opened,
             vars, netVars, monVars
<1>11. ASSUME NEW t \in Threads, EndInfo(t)
       PROVE  Types'
  <2>1. reqInfo' \in Seq(Dumped)
    <3>1. PICK d \in Dumps(t) : reqInfo' = Append(reqInfo, d)
      BY <1>11 DEF EndInfo, Dumps
    <3> QED BY <1>0, <3>1, DumpsType
  <2>2. /\ size' = [size EXCEPT ![t] = {}] /\ torn' = torn \ {t}
        /\ UNCHANGED <<netVars, nread, recvLeaked, liveClients, lats, monVars>>
        /\ proc' = "exited" \/ proc' = proc
        /\ liveLock' = liveLock \/ liveLock' = NoThread
        /\ rpc' = rpc \/ rpc' = [rpc EXCEPT ![t] = "recv"]
        /\ resp' = resp \/ resp' = [resp EXCEPT ![t] = NoFrame]
    <3>1. CASE liveClients = 0
      BY <1>11, <3>1 DEF EndInfo
    <3>2. CASE liveClients # 0
      BY <1>11, <3>2 DEF EndInfo, RecvGoto, LeftUnlocked
    <3> QED BY <3>1, <3>2
  <2>3. NoFrame \in Frames
    BY DEF NoFrame, Frames
  <2>4. resp' \in [Threads -> Frames]
    BY <1>0, <2>2, <2>3
  <2>5. rpc' \in [Threads -> {"recv", "fini", "push", "tids", "startroi",
                              "publish", "count", "finish", "stats", "info", "end"}]
    BY <1>0, <2>2
  <2>6. size' \in [Threads -> SUBSET Nat]
    BY <1>0, <2>2
  <2> QED BY <1>0, <2>1, <2>2, <2>4, <2>5, <2>6 DEF netVars, monVars
<1>12. ASSUME NEW t \in Threads, DumpFault(t)
       PROVE  Types'
  BY <1>0, <1>12 DEF DumpFault, netVars, recvVars, dumpVars, monVars
<1>13. CASE MonStart
  BY <1>0, <1>13 DEF MonStart, vars, netVars, recvVars, dumpVars
<1>14. CASE MonSweep
  <2> DEFINE c == mon.next
             k == Cardinality(tmpSjrnTimes[c])
  <2>1. c \in Clients /\ mon.requests \in Nat
    BY <1>0
  <2>2. tmpSjrnTimes[c] \subseteq ReadOn(c)
    BY <2>1 DEF NetInv, MonInv, MonitorAccounts, SampleInv, Handled
  <2>3. k \in Nat
    BY <1>0, <2>1, <2>2, ReadIsFinite, FS_Subset, FS_CardinalityType
  <2> HIDE DEF k
  <2>4. mon' \in [at : {"wait", "sweep", "stopped"}, next : Clients, requests : Nat]
    <3>1. c + 1 < NClients => c + 1 \in Clients
      BY <2>1, NClientsAssumption DEF Clients
    <3>2. 0 \in Clients
      BY NClientsAssumption DEF Clients
    <3>3. mon.requests + k \in Nat
      BY <2>1, <2>3
    <3>4. \/ mon' = [mon EXCEPT !.next = c + 1, !.requests = mon.requests + k] /\ c + 1 < NClients
          \/ mon' = [at |-> "sweep", next |-> 0, requests |-> 0]
          \/ mon' = [at |-> "stopped", next |-> 0, requests |-> 0]
      BY <1>14 DEF MonSweep, k
    <3>5. mon' = [mon EXCEPT !.next = c + 1, !.requests = mon.requests + k] =>
            mon' = [at |-> mon.at, next |-> c + 1, requests |-> mon.requests + k]
      BY <1>0
    <3> HIDE DEF c
    <3> QED BY <1>0, <3>1, <3>2, <3>3, <3>4, <3>5
  <2>5. /\ shown' = [shown EXCEPT ![c] = shown[c] \cup tmpSjrnTimes[c]]
        /\ tmpSjrnTimes' = [tmpSjrnTimes EXCEPT ![c] = {}]
        /\ UNCHANGED <<vars, netVars, recvVars, dumpVars, numStartRoi>>
    BY <1>14 DEF MonSweep, AfterSweep
  <2> QED BY <1>0, <2>1, <2>4, <2>5 DEF vars, netVars, recvVars, dumpVars
<1>15. CASE Die
  BY <1>0, <1>15 DEF Die, vars, recvVars, dumpVars, monVars
<1>16. ASSUME NEW c \in Clients, NEW f \in Sent, ServerWrites(c, f)
       PROVE  Types'
  <2>1. toClient' \in [Clients -> Seq(Sent)]
    BY <1>16, FramesStay
  <2> QED BY <1>0, <1>16, <2>1 DEF ServerWrites, vars, recvVars, dumpVars, monVars
<1> QED BY <1>1, <1>2, <1>3, <1>4, <1>5, <1>6, <1>7, <1>8, <1>9, <1>10, <1>11, <1>12,
           <1>13, <1>14, <1>15, <1>16, <1>20, NetSteps

-----------------------------------------------------------------------------
(* Steps that hand over no request, response or sample                     *)

Quiet ==
  /\ UNCHANGED <<asked, toClient, nread, status, startedReqs, inFlightReqs,
                 samples, owed>>
  /\ \A t \in Threads :
       /\ Holding(t)' <=> Holding(t)
       /\ rpc'[t] = "startroi" <=> rpc[t] = "startroi"
       /\ Holding(t) => resp'[t] = resp[t]
       /\ InRoi(t)' => InRoi(t)

LEMMA EndInfoEffect ==
  ASSUME NEW t \in Threads, EndInfo(t)
  PROVE  /\ proc = "running" /\ rpc[t] = "info"
         /\ \E d \in Dumps(t) : reqInfo' = Append(reqInfo, d)
         /\ size' = [size EXCEPT ![t] = {}] /\ torn' = torn \ {t}
         /\ UNCHANGED <<clientVars, threadVars, netVars, nread, recvLeaked,
                        liveClients, lats, monVars>>
         /\ \/ /\ liveClients = 0 /\ proc' = "exited"
               /\ UNCHANGED <<liveLock, rpc, resp>>
            \/ /\ liveClients # 0 /\ proc' = proc /\ liveLock' = NoThread
               /\ resp' = [resp EXCEPT ![t] = NoFrame]
               /\ rpc' = [rpc EXCEPT ![t] = "recv"]
<1>0. \E d \in Dumps(t) : reqInfo' = Append(reqInfo, d)
  BY DEF EndInfo, Dumps
<1>1. CASE liveClients = 0
  BY <1>0, <1>1 DEF EndInfo, RecvAt
<1>2. CASE liveClients # 0
  BY <1>0, <1>2 DEF EndInfo, RecvAt, RecvGoto, LeftUnlocked
<1> QED BY <1>1, <1>2

LEMMA QuietSteps ==
  ASSUME NetInv
  PROVE  /\ UNCHANGED netClientVars => Quiet
         /\ \A t \in Threads :
              \/ RecvFail(t) \/ GoOn(t) \/ Publish(t) \/ CountRoi(t) \/ BeginStats(t)
              \/ EndStats(t) \/ EndInfo(t) \/ DumpFault(t)
              => Quiet
         /\ MonStart \/ MonSweep \/ Die => Quiet
<1>0. rpc \in [Threads -> {"recv", "fini", "push", "tids", "startroi",
                          "publish", "count", "finish", "stats", "info", "end"}]
      /\ resp \in [Threads -> Frames]
  BY DEF NetInv, Types
<1>1. UNCHANGED netClientVars => Quiet
  BY DEF Quiet, InRoi, Holding, netClientVars, vars, clientVars, threadVars, netVars, recvVars
<1>2. ASSUME NEW t \in Threads, RecvFail(t) \/ BeginStats(t) \/ EndStats(t) \/ DumpFault(t)
      PROVE  Quiet
  BY <1>0, <1>2 DEF RecvFail, BeginStats, EndStats, DumpFault, RecvAt, RecvGoto, Quiet, InRoi, Holding,
                    vars, clientVars, threadVars, netVars, recvVars
<1>3. ASSUME NEW t \in Threads, Publish(t) \/ CountRoi(t)
      PROVE  Quiet
  BY <1>0, <1>3 DEF Publish, PublishReady, CountRoi, RecvAt, RecvGoto, Quiet, InRoi, Holding,
                    vars, clientVars, threadVars, netVars
<1>4. ASSUME NEW t \in Threads, EndInfo(t)
      PROVE  Quiet
  <2>1. /\ UNCHANGED <<asked, toClient, nread, status, startedReqs, inFlightReqs,
                       samples, owed>>
        /\ rpc[t] = "info"
    BY <1>4, EndInfoEffect DEF clientVars, threadVars, netVars
  <2>2. \/ UNCHANGED <<rpc, resp>>
        \/ /\ resp' = [resp EXCEPT ![t] = NoFrame]
           /\ rpc' = [rpc EXCEPT ![t] = "recv"]
    BY <1>4, EndInfoEffect
  <2> QED BY <1>0, <2>1, <2>2 DEF Quiet, InRoi, Holding
<1>5. MonStart \/ MonSweep \/ Die => Quiet
  BY DEF MonStart, MonSweep, Die, Quiet, InRoi, Holding, vars, clientVars, threadVars, netVars, recvVars
<1>6. ASSUME NEW t \in Threads, GoOn(t)
      PROVE  Quiet
  <2>1. /\ UNCHANGED <<asked, toClient, nread, status, startedReqs, inFlightReqs,
                       samples, owed>>
        /\ \/ rpc[t] = "fini" /\ rpc' = [rpc EXCEPT ![t] = "push"] /\ resp' = resp
           \/ /\ rpc[t] = "tids" /\ rpc' = [rpc EXCEPT ![t] = "recv"]
              /\ resp' = [resp EXCEPT ![t] = NoFrame]
    BY <1>6, GoOnEffect DEF vars, clientVars, threadVars, netVars
  <2> QED BY <1>0, <2>1 DEF Quiet, InRoi, Holding
<1> QED BY <1>1, <1>2, <1>3, <1>4, <1>5, <1>6

LEMMA HandOvers ==
  ASSUME NetInv, [NetClientNext]_netClientVars
  PROVE  \/ Quiet
         \/ \E t \in Threads : SenderEffect(t) \/ Recv(t) \/ HandleResponse(t)
                               \/ HandleRoiBegin(t)
         \/ \E c \in Clients : \E f \in Sent : ServerWrites(c, f)
  BY NetSteps, QuietSteps

-----------------------------------------------------------------------------
(* Requests, responses and samples                                         *)

LEMMA StreamStep ==
  ASSUME NetInv, [NetClientNext]_netClientVars
  PROVE  StreamInv'
<1>0. Types /\ StreamInv
  BY DEF NetInv
<1> SUFFICES ASSUME NEW c \in Clients
             PROVE  StreamInvOf(c)'
  BY DEF StreamInv
<1> USE DEF StreamInvOf, IsFrame
<1>1. StreamInvOf(c)
  BY <1>0 DEF StreamInv
<1>2. ASSUME UNCHANGED <<asked, toClient, nread, startedReqs>>
      PROVE  StreamInvOf(c)'
  BY <1>1, <1>2 DEF IdsBelow
<1>3. CASE Quiet
  BY <1>2, <1>3 DEF Quiet
<1>4. ASSUME NEW t \in Threads, SenderEffect(t)
      PROVE  StreamInvOf(c)'
  <2>1. UNCHANGED <<toClient, nread>> /\ asked[c] \subseteq asked'[c]
    BY <1>4 DEF SenderEffect, recvVars
  <2>2. asked'[c] \subseteq IdsBelow(c, startedReqs[c])
    BY <1>1, <1>4 DEF SenderEffect
  <2>3. IdsBelow(c, startedReqs[c]) \subseteq IdsBelow(c, startedReqs'[c])
    <3>1. startedReqs \in [Clients -> Nat] /\ startedReqs' \in [Clients -> Nat]
      BY <1>4 DEF SenderEffect, NetInv, ClientOK, ClientTypeOK
    <3>2. startedReqs[c] <= startedReqs'[c]
      BY <1>4 DEF SenderEffect
    <3> QED BY <3>1, <3>2, FewerIds
  <2>4. IdsBelow(c, startedReqs[c])' = IdsBelow(c, startedReqs'[c])
    BY DEF IdsBelow
  <2> QED BY <1>1, <2>1, <2>2, <2>3, <2>4
<1>5. ASSUME NEW t \in Threads, Recv(t)
      PROVE  StreamInvOf(c)'
  <2> DEFINE d == ClientOf[t]
  <2>1. /\ nread' = [nread EXCEPT ![d] = nread[d] + 1]
        /\ nread[d] + 1 \in DOMAIN toClient[d] /\ d \in Clients
        /\ UNCHANGED <<asked, toClient, startedReqs>>
    BY <1>5, RecvEffect DEF vars, clientVars, netVars
  <2>2. nread'[c] <= Len(toClient[c])
    BY <1>0, <1>1, <2>1 DEF Types
  <2> QED BY <1>1, <2>1, <2>2 DEF IdsBelow
<1>6. ASSUME NEW t \in Threads, HandleResponse(t)
      PROVE  StreamInvOf(c)'
  BY <1>2, <1>6, ResponseEffect DEF netVars
<1>7. ASSUME NEW t \in Threads, HandleRoiBegin(t)
      PROVE  StreamInvOf(c)'
  BY <1>2, <1>7, RoiEffect DEF netVars
<1>8. ASSUME NEW d \in Clients, NEW f \in Sent, ServerWrites(d, f)
      PROVE  StreamInvOf(c)'
  <2> DEFINE n == Len(toClient[d]) + 1
  <2>1. UNCHANGED <<asked, nread, startedReqs>>
    BY <1>8 DEF ServerWrites, recvVars, vars, clientVars
  <2>2. /\ nread[c] <= Len(toClient[c]) /\ Len(toClient[c]) <= Len(toClient'[c])
        /\ \A i \in DOMAIN toClient[c] : toClient'[c][i] = toClient[c][i]
        /\ nread[c] \in Nat /\ Len(toClient[c]) \in Nat /\ Len(toClient'[c]) \in Nat
    BY <1>8, FramesStay
  <2>3. nread'[c] <= Len(toClient'[c])
    BY <2>1, <2>2
  <2>4. \A i \in DOMAIN toClient'[c] : i \in DOMAIN toClient[c] \/ (c = d /\ i = n)
    <3>1. /\ DOMAIN toClient[c] = 1 .. Len(toClient[c])
          /\ DOMAIN toClient'[c] = 1 .. Len(toClient'[c])
      BY <1>8, FramesStay
    <3>2. CASE c = d
      <4>1. Len(toClient'[d]) = n
        BY <1>8, FramesStay
      <4> QED BY <2>2, <3>1, <3>2, <4>1
    <3>3. CASE c # d
      BY <1>8, <3>3, FramesStay
    <3> QED BY <3>2, <3>3
  <2>5. c = d => toClient'[c][n] = f
    BY <1>8, FramesStay
  <2>6. f.type = "RESPONSE" =>
          /\ f.id \in asked[d]
          /\ \A i \in DOMAIN toClient[d] :
               toClient[d][i].type = "RESPONSE" => toClient[d][i].id # f.id
    BY <1>8 DEF ServerWrites
  <2> HIDE DEF n
  <2>7. \A i \in DOMAIN toClient'[c] :
          toClient'[c][i].type = "RESPONSE" => toClient'[c][i].id \in asked'[c]
    BY <1>1, <2>1, <2>2, <2>4, <2>5, <2>6
  <2>8. \A i, j \in DOMAIN toClient'[c] :
          /\ toClient'[c][i].type = "RESPONSE" /\ toClient'[c][j].type = "RESPONSE"
          /\ toClient'[c][i].id = toClient'[c][j].id
          => i = j
    BY <1>1, <2>2, <2>4, <2>5, <2>6
  <2> QED BY <1>1, <2>1, <2>3, <2>7, <2>8 DEF IdsBelow
<1> QED BY <1>3, <1>4, <1>5, <1>6, <1>7, <1>8, HandOvers

\* Steps that leave the frames that were read with their receivers.
LEMMA SameSets ==
  ASSUME UNCHANGED <<toClient, nread>>,
         \A t \in Threads : /\ Holding(t)' <=> Holding(t)
                            /\ Holding(t) => resp'[t] = resp[t],
         NEW c \in Clients
  PROVE  ReadOn(c)' = ReadOn(c) /\ HeldOn(c)' = HeldOn(c) /\ Handled(c)' = Handled(c)
<1>1. ReadOn(c)' = ReadOn(c)
  BY DEF ReadOn
<1>2. \A t \in Threads : HeldBy(t)' = HeldBy(t)
  BY DEF HeldBy, Holding
<1>3. HeldOn(c)' = HeldOn(c)
  BY <1>2 DEF HeldOn, ThreadsOf
<1> QED BY <1>1, <1>3 DEF Handled

LEMMA KeepsSets ==
  ASSUME NetInv, NEW t \in Threads, SenderEffect(t) \/ HandleRoiBegin(t) \/ Quiet,
         NEW c \in Clients
  PROVE  ReadOn(c)' = ReadOn(c) /\ HeldOn(c)' = HeldOn(c) /\ Handled(c)' = Handled(c)
<1>1. CASE SenderEffect(t)
  BY <1>1, SameSets DEF SenderEffect, recvVars, Holding
<1>2. CASE HandleRoiBegin(t)
  <2>1. UNCHANGED <<toClient, nread, resp>> /\ rpc[t] = "startroi"
    BY <1>2, RoiEffect DEF netVars
  <2>2. rpc' = rpc \/ rpc' = [rpc EXCEPT ![t] = "publish"]
    BY <1>2, RoiEffect
  <2>3. \A u \in Threads : Holding(u)' <=> Holding(u)
    BY <2>1, <2>2 DEF NetInv, Types, Holding
  <2> QED BY <2>1, <2>3, SameSets
<1>3. CASE Quiet
  BY <1>3, SameSets DEF Quiet
<1> QED BY <1>1, <1>2, <1>3

\* A response that is read is new, and held by its receiver.
LEMMA RecvSets ==
  ASSUME NetInv, NEW t \in Threads, Recv(t)
  PROVE  LET c == ClientOf[t]
             f == toClient[c][nread[c] + 1]
             new == IF f.type = "RESPONSE" THEN {f.id} ELSE {}
         IN /\ ReadOn(c)' = ReadOn(c) \cup new
            /\ HeldOn(c)' = HeldOn(c) \cup new
            /\ \A id \in new : id \notin ReadOn(c)
            /\ \A u \in ThreadsOf(c) : HeldBy(u) \subseteq ReadOn(c)
            /\ \A d \in Clients : Handled(d)' = Handled(d)
            /\ \A d \in Clients \ {c} : ReadOn(d)' = ReadOn(d) /\ HeldOn(d)' = HeldOn(d)
            /\ \A u \in Threads \ {t} : HeldBy(u)' = HeldBy(u)
            /\ HeldBy(t) = {} /\ HeldBy(t)' = new
<1> DEFINE c == ClientOf[t]
           n == nread[c] + 1
           f == toClient[c][n]
           new == IF f.type = "RESPONSE" THEN {f.id} ELSE {}
<1>0. Types /\ StreamInv /\ HeldInv
  BY DEF NetInv
<1>1. /\ rpc[t] = "recv" /\ c \in Clients /\ t \in ThreadsOf(c)
      /\ n \in DOMAIN toClient[c]
      /\ nread' = [nread EXCEPT ![c] = n]
      /\ resp' = [resp EXCEPT ![t] = f]
      /\ toClient' = toClient
  BY RecvEffect DEF netVars
<1>2. \/ f.type = "RESPONSE" /\ rpc' = [rpc EXCEPT ![t] = "fini"]
      \/ f.type = "ROI_BEGIN" /\ rpc' = [rpc EXCEPT ![t] = "startroi"]
      \/ f.type = "FINISH" /\ rpc' = [rpc EXCEPT ![t] = "finish"]
  BY RecvEffect
<1>3. nread \in [Clients -> Nat] /\ \A d \in Clients : nread[d] <= Len(toClient[d])
  BY <1>0 DEF Types, StreamInv, StreamInvOf
<1>4. \A d \in Clients : toClient[d] \in Seq(Sent)
  BY <1>0 DEF Types
<1>5. \A d \in Clients : DOMAIN toClient[d] = 1 .. Len(toClient[d])
  BY <1>4
<1>6. /\ HeldBy(t) = {}
      /\ \A u \in Threads \ {t} : HeldBy(u)' = HeldBy(u)
  BY <1>0, <1>1, <1>2 DEF Types, HeldBy
<1>7. HeldBy(t)' = new
  BY <1>0, <1>1, <1>2 DEF Types, HeldBy
<1>8. \A id \in new : id \notin ReadOn(c)
  <2> SUFFICES ASSUME f.type = "RESPONSE", f.id \in ReadOn(c)
               PROVE  FALSE
    OBVIOUS
  <2>1. PICK j \in 1 .. nread[c] : toClient[c][j].type = "RESPONSE" /\ toClient[c][j].id = f.id
    BY DEF ReadOn
  <2>2. j \in DOMAIN toClient[c] /\ j # n
    BY <1>1, <1>3, <1>5
  <2> QED BY <1>0, <1>1, <2>1, <2>2 DEF StreamInv, StreamInvOf, IsFrame
<1>9. \A u \in ThreadsOf(c) : HeldBy(u) \subseteq ReadOn(c)
  BY <1>0 DEF HeldInv, HeldBy, Holding, ThreadsOf
<1>10. ReadOn(c)' = ReadOn(c) \cup new
  <2>1. nread'[c] = n /\ 1 .. n = (1 .. nread[c]) \cup {n}
    BY <1>1, <1>3
  <2> HIDE DEF n, f
  <2>2. ReadOn(c)' = {toClient[c][i].id : i \in {j \in (1 .. nread[c]) \cup {n} :
                        toClient[c][j].type = "RESPONSE"}}
    BY <1>1, <2>1 DEF ReadOn
  <2> QED BY <2>2 DEF ReadOn, f
<1>11. \A d \in Clients \ {c} : ReadOn(d)' = ReadOn(d)
  BY <1>1, <1>3 DEF ReadOn
<1> HIDE DEF n, f, new
<1>12. HeldOn(c)' = HeldOn(c) \cup new
  BY <1>1, <1>6, <1>7 DEF HeldOn, ThreadsOf
<1>13. \A d \in Clients \ {c} : HeldOn(d)' = HeldOn(d)
  <2> SUFFICES ASSUME NEW d \in Clients \ {c}
               PROVE  HeldOn(d)' = HeldOn(d)
    OBVIOUS
  <2>1. \A u \in ThreadsOf(d) : u \in Threads \ {t}
    BY DEF ThreadsOf
  <2>2. ThreadsOf(d)' = ThreadsOf(d)
    BY DEF ThreadsOf
  <2> QED BY <1>6, <2>1, <2>2 DEF HeldOn
<1>14. \A d \in Clients : Handled(d)' = Handled(d)
  <2>1. Handled(c)' = Handled(c)
    BY <1>8, <1>10, <1>12 DEF Handled
  <2>2. \A d \in Clients \ {c} : Handled(d)' = Handled(d)
    BY <1>11, <1>13 DEF Handled
  <2> QED BY <2>1, <2>2
<1> QED BY <1>6, <1>7, <1>8, <1>9, <1>10, <1>11, <1>12, <1>13, <1>14 DEF n, f, new

\* A response that finiReq gets is handled.
LEMMA ResponseSets ==
  ASSUME NetInv, NEW t \in Threads, HandleResponse(t)
  PROVE  LET c == ClientOf[t]
             id == resp[t].id
         IN /\ \A d \in Clients : ReadOn(d)' = ReadOn(d)
            /\ HeldOn(c)' = HeldOn(c) \ {id} /\ id \in HeldOn(c)
            /\ Handled(c)' = Handled(c) \cup {id}
            /\ \A d \in Clients \ {c} : HeldOn(d)' = HeldOn(d) /\ Handled(d)' = Handled(d)
            /\ \A u \in Threads \ {t} : HeldBy(u)' = HeldBy(u)
            /\ HeldBy(t)' = {}
<1> DEFINE c == ClientOf[t]
           id == resp[t].id
<1>0. Types /\ HeldInv
  BY DEF NetInv
<1>1. /\ Holding(t) /\ id \in ReadOn(c)
      /\ \/ resp' = [resp EXCEPT ![t] = NoFrame] /\ rpc' = [rpc EXCEPT ![t] = "recv"]
         \/ resp' = resp /\ rpc' = [rpc EXCEPT ![t] = "tids"]
      /\ UNCHANGED <<nread, toClient>>
  BY ResponseEffect DEF netVars
<1>2. \A d \in Clients : ReadOn(d)' = ReadOn(d)
  BY <1>1 DEF ReadOn
<1>3. /\ HeldBy(t)' = {} /\ HeldBy(t) = {id}
      /\ \A u \in Threads \ {t} : HeldBy(u)' = HeldBy(u)
  BY <1>0, <1>1 DEF Types, HeldBy, Holding
<1>4. t \in ThreadsOf(c) /\ \A u \in ThreadsOf(c) \ {t} : id \notin HeldBy(u)
  BY <1>0, <1>1 DEF HeldInv, HeldBy, Holding, ThreadsOf
<1> HIDE DEF id
<1>5. HeldOn(c)' = HeldOn(c) \ {id} /\ id \in HeldOn(c)
  BY <1>3, <1>4 DEF HeldOn, ThreadsOf
<1>6. ASSUME NEW d \in Clients \ {c}
      PROVE  HeldOn(d)' = HeldOn(d)
  <2>1. \A u \in ThreadsOf(d) : u \in Threads \ {t}
    BY DEF ThreadsOf
  <2>2. ThreadsOf(d)' = ThreadsOf(d)
    BY DEF ThreadsOf
  <2> QED BY <1>3, <2>1, <2>2 DEF HeldOn
<1>7. c \in Clients
  OBVIOUS
<1>8. Handled(c)' = Handled(c) \cup {id}
  BY <1>1, <1>2, <1>5, <1>7 DEF Handled
<1>9. \A d \in Clients \ {c} : Handled(d)' = Handled(d)
  BY <1>2, <1>6 DEF Handled
<1> QED BY <1>2, <1>3, <1>5, <1>6, <1>8, <1>9 DEF id

LEMMA HeldStep ==
  ASSUME NetInv, [NetClientNext]_netClientVars
  PROVE  HeldInv'
<1>0. Types /\ HeldInv
  BY DEF NetInv
<1>1. ASSUME \A c \in Clients : ReadOn(c) \subseteq ReadOn(c)',
             \A t \in Threads : /\ Holding(t)' => Holding(t)
                                /\ Holding(t)' => resp'[t] = resp[t]
      PROVE  HeldInv'
  BY <1>0, <1>1 DEF HeldInv
<1>2. CASE Quiet
  <2>1. \A c \in Clients : ReadOn(c)' = ReadOn(c)
    BY <1>2, SameSets DEF Quiet
  <2> QED BY <1>1, <1>2, <2>1 DEF Quiet
<1>3. ASSUME NEW t \in Threads, SenderEffect(t)
      PROVE  HeldInv'
  <2>1. \A c \in Clients : ReadOn(c)' = ReadOn(c)
    BY <1>3, KeepsSets
  <2> QED BY <1>1, <1>3, <2>1 DEF SenderEffect, recvVars, Holding
<1>4. ASSUME NEW t \in Threads, Recv(t)
      PROVE  HeldInv'
  <2> DEFINE c == ClientOf[t]
             f == toClient[c][nread[c] + 1]
  <2>1. \/ rpc' = [rpc EXCEPT ![t] = "fini"] /\ f.type = "RESPONSE"
        \/ rpc' = [rpc EXCEPT ![t] = "startroi"]
        \/ rpc' = [rpc EXCEPT ![t] = "finish"]
    BY <1>4, RecvEffect
  <2>2. resp' = [resp EXCEPT ![t] = f]
    BY <1>4, RecvEffect
  <2>3. \A d \in Clients : ReadOn(d) \subseteq ReadOn(d)'
    BY <1>4, RecvSets
  <2> HIDE DEF f
  <2>4. CASE rpc' = [rpc EXCEPT ![t] = "fini"] /\ f.type = "RESPONSE"
    <3>1. f.id \in ReadOn(c)' /\ f.id \notin ReadOn(c)
      BY <1>4, <2>4, RecvSets DEF f
    <3>2. \A u \in Threads \ {t} : rpc'[u] = rpc[u] /\ resp'[u] = resp[u]
      BY <1>0, <2>2, <2>4 DEF Types
    <3>3. Holding(t)' /\ resp'[t] = f /\ \A u \in Threads \ {t} : Holding(u)' <=> Holding(u)
      BY <1>0, <2>2, <2>4, <3>2 DEF Types, Holding
    <3>4. \A u \in Threads \ {t} : Holding(u)' /\ ClientOf[u] = c => resp'[u].id # f.id
      BY <1>0, <3>1, <3>2, <3>3 DEF HeldInv
    <3>5. \A u \in Threads : Holding(u)' =>
            resp'[u].type = "RESPONSE" /\ resp'[u].id \in ReadOn(ClientOf[u])'
      BY <1>0, <2>3, <2>4, <3>1, <3>2, <3>3 DEF HeldInv
    <3> QED BY <1>0, <3>2, <3>3, <3>4, <3>5 DEF HeldInv
  <2>5. CASE rpc' = [rpc EXCEPT ![t] = "startroi"] \/ rpc' = [rpc EXCEPT ![t] = "finish"]
    <3>1. \A u \in Threads : Holding(u)' => Holding(u) /\ resp'[u] = resp[u]
      BY <1>0, <2>2, <2>5 DEF Types, Holding
    <3> QED BY <1>1, <2>3, <3>1
  <2> QED BY <2>1, <2>4, <2>5
<1>5. ASSUME NEW t \in Threads, HandleResponse(t)
      PROVE  HeldInv'
  <2>1. \A c \in Clients : ReadOn(c)' = ReadOn(c)
    BY <1>5, ResponseSets
  <2>2. \/ rpc' = [rpc EXCEPT ![t] = "recv"] /\ resp' = [resp EXCEPT ![t] = NoFrame]
        \/ rpc' = [rpc EXCEPT ![t] = "tids"] /\ resp' = resp
    BY <1>5, ResponseEffect
  <2>3. \A u \in Threads : Holding(u)' => Holding(u) /\ resp'[u] = resp[u]
    BY <1>0, <2>2 DEF Types, Holding
  <2> QED BY <1>1, <2>1, <2>3
<1>6. ASSUME NEW t \in Threads, HandleRoiBegin(t)
      PROVE  HeldInv'
  <2>1. \A c \in Clients : ReadOn(c)' = ReadOn(c)
    BY <1>6, KeepsSets
  <2>2. resp' = resp /\ (rpc' = rpc \/ rpc' = [rpc EXCEPT ![t] = "publish"])
    BY <1>6, RoiEffect
  <2>3. \A u \in Threads : Holding(u)' => Holding(u)
    BY <1>0, <2>2 DEF Types, Holding
  <2> QED BY <1>1, <2>1, <2>2, <2>3
<1>7. ASSUME NEW c \in Clients, NEW f \in Sent, ServerWrites(c, f)
      PROVE  HeldInv'
  <2>1. \A d \in Clients : ReadOn(d)' = ReadOn(d)
    BY <1>7, ReadStays
  <2> QED BY <1>1, <1>7, <2>1 DEF ServerWrites, recvVars, Holding
<1> QED BY <1>2, <1>3, <1>4, <1>5, <1>6, <1>7, HandOvers

LEMMA AnswerStep ==
  ASSUME NetInv, [NetClientNext]_netClientVars
  PROVE  AnswerInv'
<1>0. AnswerInv
  BY DEF NetInv
<1> SUFFICES ASSUME NEW c \in Clients
             PROVE  /\ (asked[c] \ Handled(c) \subseteq OwedOn(c))'
                    /\ (inFlightReqs[c] \cap Handled(c) = {})'
  BY DEF AnswerInv
<1>1. asked[c] \ Handled(c) \subseteq OwedOn(c) /\ inFlightReqs[c] \cap Handled(c) = {}
  BY <1>0 DEF AnswerInv
<1>2. ASSUME UNCHANGED <<asked, owed, inFlightReqs>>, Handled(c)' = Handled(c)
      PROVE  /\ (asked[c] \ Handled(c) \subseteq OwedOn(c))'
             /\ (inFlightReqs[c] \cap Handled(c) = {})'
  BY <1>1, <1>2 DEF OwedOn, ThreadsOf
<1>3. CASE Quiet
  BY <1>2, <1>3, SameSets DEF Quiet
<1>4. ASSUME NEW t \in Threads, SenderEffect(t)
      PROVE  /\ (asked[c] \ Handled(c) \subseteq OwedOn(c))'
             /\ (inFlightReqs[c] \cap Handled(c) = {})'
  <2>1. Handled(c)' = Handled(c)
    BY <1>4, KeepsSets
  <2>2. OwedOn(c) \subseteq OwedOn(c)'
    BY <1>4 DEF SenderEffect, OwedOn, ThreadsOf
  <2>3. asked'[c] \ asked[c] \subseteq OwedOn(c)'
    BY <1>4 DEF SenderEffect, OwedOn, ThreadsOf
  <2>4. Handled(c) \subseteq IdsBelow(c, startedReqs[c])
    <3>1. ReadOn(c) \subseteq asked[c]
      <4> SUFFICES ASSUME NEW id \in ReadOn(c)
                   PROVE  id \in asked[c]
        OBVIOUS
      <4>1. PICK i \in 1 .. nread[c] : toClient[c][i].type = "RESPONSE" /\ toClient[c][i].id = id
        BY DEF ReadOn
      <4>2. i \in DOMAIN toClient[c]
        BY <4>1 DEF NetInv, Types, StreamInv, StreamInvOf
      <4> QED BY <4>1, <4>2 DEF NetInv, StreamInv, StreamInvOf, IsFrame
    <3> QED BY <3>1 DEF Handled, NetInv, StreamInv, StreamInvOf
  <2>5. inFlightReqs'[c] \cap Handled(c) \subseteq inFlightReqs[c]
    BY <1>4, <2>4 DEF SenderEffect
  <2> QED BY <1>1, <2>1, <2>2, <2>3, <2>5
<1>5. ASSUME NEW t \in Threads, Recv(t)
      PROVE  /\ (asked[c] \ Handled(c) \subseteq OwedOn(c))'
             /\ (inFlightReqs[c] \cap Handled(c) = {})'
  <2>1. UNCHANGED <<asked, owed, inFlightReqs>>
    BY <1>5, RecvEffect DEF vars, clientVars, threadVars, netVars
  <2>2. Handled(c)' = Handled(c)
    BY <1>5, RecvSets
  <2> QED BY <1>2, <2>1, <2>2
<1>6. ASSUME NEW t \in Threads, HandleResponse(t)
      PROVE  /\ (asked[c] \ Handled(c) \subseteq OwedOn(c))'
             /\ (inFlightReqs[c] \cap Handled(c) = {})'
  <2> DEFINE d == ClientOf[t]
             id == resp[t].id
  <2>1. PICK u \in ThreadsOf(d) : owed' = [owed EXCEPT ![u] = owed[u] \ {id}]
    BY <1>6, ResponseEffect
  <2>2. /\ inFlightReqs' = [inFlightReqs EXCEPT ![d] = inFlightReqs[d] \ {id}]
        /\ asked' = asked /\ proc = "running"
    BY <1>6, ResponseEffect DEF netVars
  <2>3. /\ Handled(d)' = Handled(d) \cup {id}
        /\ \A e \in Clients \ {d} : Handled(e)' = Handled(e)
    BY <1>6, ResponseSets
  <2>4. owed \in [Threads -> SUBSET Nat] /\ inFlightReqs \in [Clients -> SUBSET Nat]
    BY <2>2 DEF NetInv, ClientOK, ClientTypeOK
  <2> HIDE DEF id
  <2>5. \A v \in Threads : owed[v] \ {id} \subseteq owed'[v] /\ (v # u => owed'[v] = owed[v])
    BY <2>1, <2>4
  <2>6. OwedOn(d) \ {id} \subseteq OwedOn(d)' /\ \A e \in Clients \ {d} : OwedOn(e) \subseteq OwedOn(e)'
    BY <2>1, <2>5 DEF OwedOn, ThreadsOf
  <2>7. CASE c = d
    BY <1>1, <2>2, <2>3, <2>4, <2>6, <2>7
  <2>8. CASE c # d
    BY <1>1, <2>2, <2>3, <2>4, <2>6, <2>8
  <2> QED BY <2>7, <2>8
<1>7. ASSUME NEW t \in Threads, HandleRoiBegin(t)
      PROVE  /\ (asked[c] \ Handled(c) \subseteq OwedOn(c))'
             /\ (inFlightReqs[c] \cap Handled(c) = {})'
  <2>1. UNCHANGED <<asked, owed, inFlightReqs>>
    BY <1>7, RoiEffect DEF netVars
  <2>2. Handled(c)' = Handled(c)
    BY <1>7, KeepsSets
  <2> QED BY <1>2, <2>1, <2>2
<1>8. ASSUME NEW d \in Clients, NEW f \in Sent, ServerWrites(d, f)
      PROVE  /\ (asked[c] \ Handled(c) \subseteq OwedOn(c))'
             /\ (inFlightReqs[c] \cap Handled(c) = {})'
  <2>1. UNCHANGED <<asked, owed, inFlightReqs>>
    BY <1>8 DEF ServerWrites, vars, clientVars, threadVars
  <2>2. Handled(c)' = Handled(c)
    BY <1>8, ReadStays
  <2> QED BY <1>2, <2>1, <2>2
<1> QED BY <1>3, <1>4, <1>5, <1>6, <1>7, <1>8, HandOvers

LEMMA InFlightStep ==
  ASSUME NetInv, [NetClientNext]_netClientVars
  PROVE  InFlightInv'
<1> SUFFICES ASSUME NEW c \in Clients
             PROVE  (HeldOn(c) \subseteq inFlightReqs[c])'
  BY DEF InFlightInv
<1>0. HeldOn(c) \subseteq inFlightReqs[c]
  BY DEF NetInv, InFlightInv
<1>1. CASE Quiet
  BY <1>0, <1>1, SameSets DEF Quiet
<1>2. ASSUME NEW t \in Threads, SenderEffect(t)
      PROVE  (HeldOn(c) \subseteq inFlightReqs[c])'
  BY <1>0, <1>2, KeepsSets DEF SenderEffect
<1>3. ASSUME NEW t \in Threads, Recv(t)
      PROVE  (HeldOn(c) \subseteq inFlightReqs[c])'
  <2> DEFINE d == ClientOf[t]
             n == nread[d] + 1
             f == toClient[d][n]
             new == IF f.type = "RESPONSE" THEN {f.id} ELSE {}
  <2>1. proc = "running" /\ n \in DOMAIN toClient[d] /\ d \in Clients
    BY <1>3, RecvEffect
  <2>2. inFlightReqs' = inFlightReqs
    BY <1>3, RecvEffect DEF vars, clientVars
  <2>3. HeldOn(d)' = HeldOn(d) \cup new /\ \A id \in new : id \notin ReadOn(d)
    BY <1>3, RecvSets
  <2>4. \A e \in Clients \ {d} : HeldOn(e)' = HeldOn(e)
    BY <1>3, RecvSets
  <2>5. new \subseteq asked[d]
    BY <2>1 DEF NetInv, StreamInv, StreamInvOf, IsFrame
  <2>6. new \subseteq OwedOn(d)
    BY <2>1, <2>3, <2>5 DEF NetInv, AnswerInv, Handled
  <2>7. OwedOn(d) \subseteq inFlightReqs[d]
    BY <2>1 DEF NetInv, ClientOK, IdInv, Holds, OwedOn, ThreadsOf
  <2> HIDE DEF new
  <2>8. CASE c = d
    BY <1>0, <2>2, <2>3, <2>6, <2>7, <2>8
  <2>9. CASE c # d
    BY <1>0, <2>2, <2>4, <2>9
  <2> QED BY <2>8, <2>9
<1>4. ASSUME NEW t \in Threads, HandleResponse(t)
      PROVE  (HeldOn(c) \subseteq inFlightReqs[c])'
  <2> DEFINE d == ClientOf[t]
             id == resp[t].id
  <2>1. /\ inFlightReqs' = [inFlightReqs EXCEPT ![d] = inFlightReqs[d] \ {id}]
        /\ proc = "running"
    BY <1>4, ResponseEffect
  <2>2. HeldOn(d)' = HeldOn(d) \ {id} /\ \A e \in Clients \ {d} : HeldOn(e)' = HeldOn(e)
    BY <1>4, ResponseSets
  <2>3. inFlightReqs \in [Clients -> SUBSET Nat]
    BY <2>1 DEF NetInv, ClientOK, ClientTypeOK
  <2> HIDE DEF id
  <2>4. CASE c = d
    BY <1>0, <2>1, <2>2, <2>3, <2>4
  <2>5. CASE c # d
    BY <1>0, <2>1, <2>2, <2>3, <2>5
  <2> QED BY <2>4, <2>5
<1>5. ASSUME NEW t \in Threads, HandleRoiBegin(t)
      PROVE  (HeldOn(c) \subseteq inFlightReqs[c])'
  <2>1. inFlightReqs' = inFlightReqs
    BY <1>5, RoiEffect
  <2> QED BY <1>0, <1>5, <2>1, KeepsSets
<1>6. ASSUME NEW d \in Clients, NEW f \in Sent, ServerWrites(d, f)
      PROVE  (HeldOn(c) \subseteq inFlightReqs[c])'
  <2>1. inFlightReqs' = inFlightReqs
    BY <1>6 DEF ServerWrites, vars, clientVars
  <2> QED BY <1>0, <1>6, <2>1, ReadStays
<1> QED BY <1>1, <1>2, <1>3, <1>4, <1>5, <1>6, HandOvers

LEMMA SampleStep ==
  ASSUME NetInv, [NetClientNext]_netClientVars
  PROVE  SampleInv'
<1>0. SampleInv
  BY DEF NetInv
<1> SUFFICES ASSUME NEW c \in Clients
             PROVE  /\ (samples[c] \subseteq Handled(c))'
                    /\ (status[c] # "ROI" => samples[c] = {})'
  BY DEF SampleInv
<1>1. samples[c] \subseteq Handled(c) /\ (status[c] # "ROI" => samples[c] = {})
  BY <1>0 DEF SampleInv
<1>2. ASSUME samples' = samples, status'[c] = "ROI" <=> status[c] = "ROI", Handled(c)' = Handled(c)
      PROVE  /\ (samples[c] \subseteq Handled(c))'
             /\ (status[c] # "ROI" => samples[c] = {})'
  BY <1>1, <1>2
<1>3. CASE Quiet
  BY <1>2, <1>3, SameSets DEF Quiet
<1>4. ASSUME NEW t \in Threads, SenderEffect(t)
      PROVE  /\ (samples[c] \subseteq Handled(c))'
             /\ (status[c] # "ROI" => samples[c] = {})'
  <2>1. Handled(c)' = Handled(c)
    BY <1>4, KeepsSets
  <2> QED BY <1>2, <1>4, <2>1 DEF SenderEffect
<1>5. ASSUME NEW t \in Threads, Recv(t)
      PROVE  /\ (samples[c] \subseteq Handled(c))'
             /\ (status[c] # "ROI" => samples[c] = {})'
  <2>1. UNCHANGED <<samples, status>>
    BY <1>5, RecvEffect DEF vars, clientVars
  <2>2. Handled(c)' = Handled(c)
    BY <1>5, RecvSets
  <2> QED BY <1>2, <2>1, <2>2
<1>6. ASSUME NEW t \in Threads, HandleResponse(t)
      PROVE  /\ (samples[c] \subseteq Handled(c))'
             /\ (status[c] # "ROI" => samples[c] = {})'
  <2> DEFINE d == ClientOf[t]
             id == resp[t].id
  <2>1. /\ samples' = [samples EXCEPT ![d] = IF status[d] = "ROI" THEN samples[d] \cup {id} ELSE samples[d]]
        /\ status' = status /\ proc = "running"
    BY <1>6, ResponseEffect
  <2>2. samples \in [Clients -> SUBSET Nat]
    BY <2>1 DEF NetInv, ClientOK, ClientTypeOK
  <2>3. /\ Handled(d)' = Handled(d) \cup {id}
        /\ \A e \in Clients \ {d} : Handled(e)' = Handled(e)
    BY <1>6, ResponseSets
  <2> QED BY <1>1, <2>1, <2>2, <2>3
<1>7. ASSUME NEW t \in Threads, HandleRoiBegin(t)
      PROVE  /\ (samples[c] \subseteq Handled(c))'
             /\ (status[c] # "ROI" => samples[c] = {})'
  <2> DEFINE d == ClientOf[t]
  <2>1. Handled(c)' = Handled(c) /\ proc = "running"
    BY <1>7, KeepsSets, RoiEffect
  <2>2. \/ UNCHANGED <<samples, status>>
        \/ samples' = [samples EXCEPT ![d] = {}] /\ status' = [status EXCEPT ![d] = "ROI"]
    BY <1>7, RoiEffect
  <2>3. samples \in [Clients -> SUBSET Nat] /\ DOMAIN status = Clients
    BY <2>1 DEF NetInv, ClientOK, ClientTypeOK
  <2> QED BY <1>1, <2>1, <2>2, <2>3
<1>8. ASSUME NEW d \in Clients, NEW f \in Sent, ServerWrites(d, f)
      PROVE  /\ (samples[c] \subseteq Handled(c))'
             /\ (status[c] # "ROI" => samples[c] = {})'
  <2>1. UNCHANGED <<samples, status>>
    BY <1>8 DEF ServerWrites, vars, clientVars
  <2>2. Handled(c)' = Handled(c)
    BY <1>8, ReadStays
  <2> QED BY <1>2, <2>1, <2>2
<1> QED BY <1>3, <1>4, <1>5, <1>6, <1>7, <1>8, HandOvers

-----------------------------------------------------------------------------
(* The announcement of the ROI                                             *)

LEMMA RoiStep ==
  ASSUME NetInv, [NetClientNext]_netClientVars
  PROVE  RoiInv'
<1>0. Types /\ RoiInv
  BY DEF NetInv
<1> SUFFICES ASSUME NEW c \in Clients
             PROVE  RoiInvOf(c)'
  BY DEF RoiInv
<1>1. RoiInvOf(c)
  BY <1>0 DEF RoiInv
<1>2. rpc \in [Threads -> {"recv", "fini", "push", "tids", "startroi",
                           "publish", "count", "finish", "stats", "info", "end"}]
  BY <1>0 DEF Types
<1>3. ThreadsOf(c)' = ThreadsOf(c) /\ ThreadsOf(c) \subseteq Threads
  BY DEF ThreadsOf
<1>4. ASSUME RoiRead(c)' = RoiRead(c), Once(c, "ROI_BEGIN")' => Once(c, "ROI_BEGIN"),
             status'[c] = "ROI" <=> status[c] = "ROI",
             \A t \in Threads : /\ rpc'[t] = "startroi" <=> rpc[t] = "startroi"
                                /\ InRoi(t)' => InRoi(t)
      PROVE  RoiInvOf(c)'
  BY <1>1, <1>3, <1>4 DEF RoiInvOf
<1>5. toClient' = toClient /\ nread' = nread =>
        RoiRead(c)' = RoiRead(c) /\ Once(c, "ROI_BEGIN")' = Once(c, "ROI_BEGIN")
  BY DEF RoiRead, Once, IsFrame
<1>6. CASE Quiet
  BY <1>4, <1>5, <1>6 DEF Quiet
<1>7. ASSUME NEW t \in Threads, SenderEffect(t)
      PROVE  RoiInvOf(c)'
  BY <1>4, <1>5, <1>7 DEF SenderEffect, recvVars, InRoi
<1>8. ASSUME NEW t \in Threads, Recv(t)
      PROVE  RoiInvOf(c)'
  <2> DEFINE d == ClientOf[t]
             n == nread[d] + 1
             f == toClient[d][n]
  <2>1. /\ nread' = [nread EXCEPT ![d] = n]
        /\ n \in DOMAIN toClient[d] /\ d \in Clients /\ t \in ThreadsOf(d)
        /\ UNCHANGED <<toClient, status>> /\ rpc[t] = "recv"
    BY <1>8, RecvEffect DEF vars, clientVars, netVars
  <2>2. \/ rpc' = [rpc EXCEPT ![t] = "fini"] /\ f.type = "RESPONSE"
        \/ rpc' = [rpc EXCEPT ![t] = "startroi"] /\ f.type = "ROI_BEGIN"
        \/ rpc' = [rpc EXCEPT ![t] = "finish"] /\ f.type = "FINISH"
    BY <1>8, RecvEffect
  <2>3. Once(c, "ROI_BEGIN")' = Once(c, "ROI_BEGIN") /\ nread[d] \in Nat
    BY <1>0, <2>1 DEF Once, IsFrame, Types
  <2>4. c = d => (RoiRead(c)' <=> RoiRead(c) \/ f.type = "ROI_BEGIN")
    <3> SUFFICES ASSUME c = d
                 PROVE  RoiRead(c)' <=> RoiRead(c) \/ f.type = "ROI_BEGIN"
      OBVIOUS
    <3>1. nread'[d] = n /\ 1 .. n = (1 .. nread[d]) \cup {n}
      BY <1>0, <2>1, <2>3 DEF Types
    <3> HIDE DEF n
    <3> QED BY <2>1, <3>1 DEF RoiRead, IsFrame
  <2>5. c # d => RoiRead(c)' = RoiRead(c)
    BY <1>0, <2>1 DEF RoiRead, IsFrame, Types
  <2> HIDE DEF n, f
  <2>6. \A u \in Threads : InRoi(u)' => InRoi(u)
    BY <1>2, <2>2 DEF InRoi
  <2>7. CASE c # d \/ f.type # "ROI_BEGIN"
    <3>1. RoiRead(c)' <=> RoiRead(c)
      <4>1. RoiRead(c) \in BOOLEAN /\ RoiRead(c)' \in BOOLEAN
        BY DEF RoiRead
      <4> HIDE DEF d
      <4> QED BY <2>4, <2>5, <2>7
    <3>2. \A u \in ThreadsOf(c) : rpc'[u] = "startroi" <=> rpc[u] = "startroi"
      BY <1>2, <2>1, <2>2, <2>7 DEF ThreadsOf
    <3> QED BY <1>1, <1>3, <2>1, <2>3, <2>6, <3>1, <3>2 DEF RoiInvOf
  <2>8. CASE c = d /\ f.type = "ROI_BEGIN"
    <3>1. rpc' = [rpc EXCEPT ![t] = "startroi"]
      BY <2>2, <2>8
    <3>2. /\ rpc'[t] = "startroi"
          /\ \A u \in Threads \ {t} : rpc'[u] = "startroi" <=> rpc[u] = "startroi"
      BY <1>2, <3>1
    <3>3. Once(c, "ROI_BEGIN") => ~RoiRead(c)
      <4> SUFFICES ASSUME Once(c, "ROI_BEGIN"), RoiRead(c)
                   PROVE  FALSE
        OBVIOUS
      <4>1. PICK i \in 1 .. nread[c] : IsFrame(c, i, "ROI_BEGIN")
        BY DEF RoiRead
      <4>2. i # n /\ i \in DOMAIN toClient[c]
        BY <2>3, <2>8, <4>1 DEF n, IsFrame
      <4> QED BY <2>1, <2>8, <4>1, <4>2 DEF Once, IsFrame, f
    <3>4. Once(c, "ROI_BEGIN") => status[c] # "ROI" /\ \A u \in ThreadsOf(c) : rpc[u] # "startroi"
      BY <1>1, <3>3 DEF RoiInvOf
    <3>5. RoiRead(c)'
      BY <2>4, <2>8
    <3> QED BY <1>1, <1>3, <2>1, <2>3, <2>6, <2>8, <3>2, <3>4, <3>5 DEF RoiInvOf
  <2> QED BY <2>7, <2>8
<1>9. ASSUME NEW t \in Threads, HandleResponse(t)
      PROVE  RoiInvOf(c)'
  <2>1. /\ UNCHANGED <<toClient, nread, status>> /\ Holding(t)
        /\ rpc' = [rpc EXCEPT ![t] = "recv"] \/ rpc' = [rpc EXCEPT ![t] = "tids"]
    BY <1>9, ResponseEffect DEF netVars
  <2> QED BY <1>2, <1>4, <1>5, <2>1 DEF InRoi, Holding
<1>10. ASSUME NEW t \in Threads, HandleRoiBegin(t)
       PROVE  RoiInvOf(c)'
  <2> DEFINE d == ClientOf[t]
  <2>1. /\ UNCHANGED <<toClient, nread>> /\ rpc[t] = "startroi" /\ t \in ThreadsOf(d)
        /\ proc = "running"
    BY <1>10, RoiEffect DEF netVars, ThreadsOf
  <2>2. \/ UNCHANGED <<status, rpc>>
        \/ /\ status[d] = "WARMUP" /\ status' = [status EXCEPT ![d] = "ROI"]
           /\ rpc' = [rpc EXCEPT ![t] = "publish"]
    BY <1>10, RoiEffect
  <2>3. DOMAIN status = Clients
    BY <2>1 DEF NetInv, ClientOK, ClientTypeOK
  <2>4. CASE UNCHANGED <<status, rpc>>
    BY <1>4, <1>5, <2>1, <2>4 DEF InRoi
  <2>5. CASE /\ status[d] = "WARMUP" /\ status' = [status EXCEPT ![d] = "ROI"]
             /\ rpc' = [rpc EXCEPT ![t] = "publish"]
    <3>1. /\ rpc'[t] = "publish" /\ \A u \in Threads \ {t} : rpc'[u] = rpc[u]
          /\ RoiRead(c)' = RoiRead(c) /\ Once(c, "ROI_BEGIN")' = Once(c, "ROI_BEGIN")
      BY <1>2, <1>5, <2>1, <2>5
    <3>2. \A u \in Threads \ {t} : InRoi(u)' = InRoi(u)
      BY <3>1 DEF InRoi
    <3>3. CASE c # d
      <4>1. \A u \in ThreadsOf(c) : u \in Threads \ {t}
        BY <2>1, <3>3 DEF ThreadsOf
      <4>2. status'[c] = status[c]
        BY <2>3, <2>5, <3>3
      <4> QED BY <1>1, <1>3, <3>1, <3>2, <4>1, <4>2 DEF RoiInvOf
    <3>4. CASE c = d
      <4>1. status[c] # "ROI" /\ status'[c] = "ROI"
        BY <2>3, <2>5, <3>4
      <4>2. RoiRead(c)
        BY <1>1, <2>1, <3>4 DEF RoiInvOf
      <4>3. \A u \in ThreadsOf(c) : InRoi(u)' => u = t
        BY <1>1, <1>3, <3>2, <4>1 DEF RoiInvOf
      <4>4. Once(c, "ROI_BEGIN") => \A u \in ThreadsOf(c) : rpc'[u] # "startroi"
        BY <1>1, <1>3, <2>1, <3>1, <3>4 DEF RoiInvOf
      <4> QED BY <1>3, <3>1, <4>1, <4>2, <4>3, <4>4 DEF RoiInvOf
    <3> QED BY <3>3, <3>4
  <2> QED BY <2>2, <2>4, <2>5
<1>11. ASSUME NEW d \in Clients, NEW f \in Sent, ServerWrites(d, f)
       PROVE  RoiInvOf(c)'
  <2>1. UNCHANGED <<status, rpc>>
    BY <1>11 DEF ServerWrites, vars, clientVars, recvVars
  <2>2. RoiRead(c)' = RoiRead(c) /\ (Once(c, "ROI_BEGIN")' => Once(c, "ROI_BEGIN"))
    BY <1>11, ReadStays
  <2> QED BY <1>4, <2>1, <2>2 DEF InRoi
<1> QED BY <1>6, <1>7, <1>8, <1>9, <1>10, <1>11, HandOvers

-----------------------------------------------------------------------------
(* The monitor                                                             *)

LEMMA ClientsAreFinite ==
  IsFiniteSet(Clients) /\ Cardinality(Clients) = NClients
  BY NClientsAssumption, FS_Interval DEF Clients

LEMMA RoiClientsFinite ==
  /\ IsFiniteSet(RoiClients) /\ RoiClients \subseteq Clients
  /\ Cardinality(RoiClients) \in Nat /\ Cardinality(RoiClients) <= NClients
  /\ Cardinality(RoiClients) = NClients => RoiClients = Clients
<1>1. RoiClients \subseteq Clients
  BY DEF RoiClients
<1> QED BY <1>1, ClientsAreFinite, FS_Subset, FS_CardinalityType

LEMMA MonStep ==
  ASSUME NetInv, [NetClientNext]_netClientVars
  PROVE  MonInv'
<1>0. /\ Types /\ MonInv
      /\ rpc \in [Threads -> {"recv", "fini", "push", "tids", "startroi",
                              "publish", "count", "finish", "stats", "info", "end"}]
      /\ tmpSjrnTimes \in [Clients -> SUBSET Nat] /\ shown \in [Clients -> SUBSET Nat]
  BY DEF NetInv, Types
<1>1. ASSUME UNCHANGED <<samples, tmpSjrnTimes, numStartRoi, mon, shown>>,
             \A c \in Clients : status'[c] = "ROI" <=> status[c] = "ROI",
             \A t \in Threads : InRoi(t)' <=> InRoi(t)
      PROVE  MonInv'
  <2>1. RoiClients' = RoiClients
    BY <1>1 DEF RoiClients, ThreadsOf
  <2> QED BY <1>0, <1>1, <2>1 DEF MonInv, MonitorAccounts
<1>2. CASE UNCHANGED netClientVars
  BY <1>1, <1>2 DEF netClientVars, vars, clientVars, recvVars, monVars, InRoi
<1>3. ASSUME NEW t \in Threads, SenderEffect(t)
      PROVE  MonInv'
  BY <1>1, <1>3 DEF SenderEffect, recvVars, monVars, InRoi
<1>4. ASSUME NEW t \in Threads, Recv(t)
      PROVE  MonInv'
  <2>1. /\ rpc[t] = "recv" /\ UNCHANGED <<vars, monVars>>
        /\ \/ rpc' = [rpc EXCEPT ![t] = "fini"]
           \/ rpc' = [rpc EXCEPT ![t] = "startroi"]
           \/ rpc' = [rpc EXCEPT ![t] = "finish"]
    BY <1>4, RecvEffect
  <2>2. \A u \in Threads : InRoi(u)' <=> InRoi(u)
    BY <1>0, <2>1 DEF InRoi
  <2> QED BY <1>1, <2>1, <2>2 DEF vars, clientVars, monVars
<1>5. ASSUME NEW t \in Threads,
             RecvFail(t) \/ BeginStats(t) \/ EndStats(t) \/ DumpFault(t)
      PROVE  MonInv'
  <2>1. \A u \in Threads : InRoi(u)' <=> InRoi(u)
    BY <1>0, <1>5 DEF RecvFail, BeginStats, EndStats, DumpFault, RecvAt, RecvGoto, InRoi, recvVars
  <2>2. UNCHANGED <<clientVars, monVars>>
    BY <1>5 DEF RecvFail, BeginStats, EndStats, DumpFault, vars
  <2> QED BY <1>1, <2>1, <2>2 DEF clientVars, monVars
<1>20. ASSUME NEW t \in Threads, GoOn(t)
       PROVE  MonInv'
  <2>1. /\ UNCHANGED <<vars, monVars>> /\ rpc[t] \in {"fini", "tids"}
        /\ rpc' = [rpc EXCEPT ![t] = "push"] \/ rpc' = [rpc EXCEPT ![t] = "recv"]
    BY <1>20, GoOnEffect
  <2>2. \A u \in Threads : InRoi(u)' <=> InRoi(u)
    BY <1>0, <2>1 DEF InRoi
  <2> QED BY <1>1, <2>1, <2>2 DEF vars, clientVars, monVars
<1>6. ASSUME NEW t \in Threads, EndInfo(t)
      PROVE  MonInv'
  <2>1. /\ rpc[t] = "info" /\ UNCHANGED <<clientVars, monVars>>
        /\ rpc' = rpc \/ rpc' = [rpc EXCEPT ![t] = "recv"]
    BY <1>6, EndInfoEffect
  <2>2. \A u \in Threads : InRoi(u)' <=> InRoi(u)
    BY <1>0, <2>1 DEF InRoi
  <2> QED BY <1>1, <2>1, <2>2 DEF clientVars, monVars
<1>7. ASSUME NEW t \in Threads, Publish(t)
      PROVE  MonInv'
  <2>1. \A u \in Threads : InRoi(u)' <=> InRoi(u)
    BY <1>0, <1>7 DEF Publish, RecvAt, RecvGoto, InRoi
  <2> QED BY <1>1, <1>7, <2>1 DEF Publish, PublishReady, monVars
<1>8. ASSUME NEW t \in Threads, HandleResponse(t)
      PROVE  MonInv'
  <2> DEFINE c == ClientOf[t]
             id == resp[t].id
  <2>1. /\ Holding(t) /\ id \notin Handled(c) /\ proc = "running"
        /\ samples' = [samples EXCEPT ![c] =
             IF status[c] = "ROI" THEN samples[c] \cup {id} ELSE samples[c]]
        /\ tmpSjrnTimes' = [tmpSjrnTimes EXCEPT ![c] =
             tmpSjrnTimes[c] \cup (samples'[c] \ samples[c])]
        /\ rpc' = [rpc EXCEPT ![t] = "recv"] \/ rpc' = [rpc EXCEPT ![t] = "tids"]
        /\ UNCHANGED <<status, numStartRoi, mon, shown>>
    BY <1>8, ResponseEffect
  <2>2. \A u \in Threads : InRoi(u)' <=> InRoi(u)
    BY <1>0, <2>1 DEF InRoi, Holding
  <2>3. RoiClients' = RoiClients
    BY <2>1, <2>2 DEF RoiClients, ThreadsOf
  <2>4. id \notin samples[c] /\ samples \in [Clients -> SUBSET Nat]
    BY <2>1 DEF NetInv, SampleInv, ClientOK, ClientTypeOK
  <2> HIDE DEF id
  <2>5. ASSUME NEW d \in Clients
        PROVE  /\ samples'[d] = tmpSjrnTimes'[d] \cup shown'[d]
               /\ tmpSjrnTimes'[d] \cap shown'[d] = {}
    <3>1. samples[d] = tmpSjrnTimes[d] \cup shown[d] /\ tmpSjrnTimes[d] \cap shown[d] = {}
      BY <1>0 DEF MonInv, MonitorAccounts
    <3>2. CASE d = c
      <4>1. /\ samples'[c] = IF status[c] = "ROI" THEN samples[c] \cup {id} ELSE samples[c]
            /\ tmpSjrnTimes'[c] = tmpSjrnTimes[c] \cup (samples'[c] \ samples[c])
        BY <1>0, <2>1, <2>4
      <4> QED BY <2>1, <2>4, <3>1, <3>2, <4>1
    <3>3. CASE d # c
      BY <1>0, <2>1, <2>4, <3>1, <3>3
    <3> QED BY <3>2, <3>3
  <2> QED BY <1>0, <2>1, <2>3, <2>5 DEF MonInv, MonitorAccounts
<1>9. ASSUME NEW t \in Threads, HandleRoiBegin(t)
      PROVE  MonInv'
  <2> DEFINE c == ClientOf[t]
  <2>1. /\ rpc[t] = "startroi" /\ proc = "running" /\ t \in ThreadsOf(c) /\ c \in Clients
        /\ UNCHANGED <<numStartRoi, mon, shown>>
    BY <1>9, RoiEffect DEF ThreadsOf
  <2>2. \/ UNCHANGED <<status, samples, rpc, tmpSjrnTimes>>
        \/ /\ status[c] = "WARMUP"
           /\ status' = [status EXCEPT ![c] = "ROI"]
           /\ samples' = [samples EXCEPT ![c] = {}]
           /\ tmpSjrnTimes' = [tmpSjrnTimes EXCEPT ![c] = {}]
           /\ rpc' = [rpc EXCEPT ![t] = "publish"]
    BY <1>9, RoiEffect
  <2>3. CASE UNCHANGED <<status, samples, rpc, tmpSjrnTimes>>
    BY <1>1, <2>1, <2>3 DEF InRoi
  <2>4. CASE /\ status[c] = "WARMUP"
             /\ status' = [status EXCEPT ![c] = "ROI"]
             /\ samples' = [samples EXCEPT ![c] = {}]
             /\ tmpSjrnTimes' = [tmpSjrnTimes EXCEPT ![c] = {}]
             /\ rpc' = [rpc EXCEPT ![t] = "publish"]
    <3>1. DOMAIN status = Clients /\ samples \in [Clients -> SUBSET Nat]
      BY <2>1 DEF NetInv, ClientOK, ClientTypeOK
    <3>2. /\ InRoi(t)' /\ \A u \in Threads \ {t} : InRoi(u)' <=> InRoi(u)
      BY <1>0, <2>4 DEF InRoi
    <3>3. RoiClients' = RoiClients
      <4>1. c \notin RoiClients /\ c \notin RoiClients'
        BY <2>1, <2>4, <3>2 DEF RoiClients, ThreadsOf
      <4>2. ASSUME NEW d \in Clients \ {c}
            PROVE  d \in RoiClients' <=> d \in RoiClients
        <5>1. status'[d] = status[d] /\ \A u \in ThreadsOf(d) : u \in Threads \ {t}
          BY <2>4, <3>1 DEF ThreadsOf
        <5>2. ThreadsOf(d)' = ThreadsOf(d)
          BY DEF ThreadsOf
        <5> QED BY <3>2, <5>1, <5>2 DEF RoiClients
      <4>3. RoiClients \subseteq Clients /\ RoiClients' \subseteq Clients
        BY DEF RoiClients
      <4> QED BY <4>1, <4>2, <4>3
    <3>4. shown[c] = {}
      BY <1>0, <2>1, <2>4 DEF NetInv, SampleInv, MonInv, MonitorAccounts
    <3>5. \A d \in Clients : /\ samples'[d] = tmpSjrnTimes'[d] \cup shown'[d]
                             /\ tmpSjrnTimes'[d] \cap shown'[d] = {}
      BY <1>0, <2>1, <2>4, <3>1, <3>4 DEF MonInv, MonitorAccounts
    <3>6. \A d \in Clients : status[d] = "ROI" => status'[d] = "ROI"
      BY <2>4, <3>1
    <3> QED BY <1>0, <2>1, <3>3, <3>5, <3>6 DEF MonInv, MonitorAccounts
  <2> QED BY <2>2, <2>3, <2>4
<1>10. ASSUME NEW t \in Threads, CountRoi(t)
       PROVE  MonInv'
  <2> DEFINE c == ClientOf[t]
  <2>1. /\ rpc[t] = "count" /\ numStartRoi' = numStartRoi + 1
        /\ rpc' = [rpc EXCEPT ![t] = "recv"]
        /\ UNCHANGED <<vars, tmpSjrnTimes, mon, shown>>
        /\ t \in ThreadsOf(c) /\ c \in Clients
    BY <1>10 DEF CountRoi, RecvAt, RecvGoto, ThreadsOf
  <2>2. InRoi(t) /\ ~InRoi(t)' /\ \A u \in Threads \ {t} : InRoi(u)' <=> InRoi(u)
    BY <1>0, <2>1 DEF InRoi
  <2>3. RoiInvOf(c)
    BY <2>1 DEF NetInv, RoiInv
  <2>4. status[c] = "ROI" /\ \A u \in ThreadsOf(c) : ~InRoi(u)'
    BY <2>1, <2>2, <2>3 DEF RoiInvOf, ThreadsOf
  <2>5. RoiClients' = RoiClients \cup {c} /\ c \notin RoiClients
    <3>1. c \notin RoiClients /\ c \in RoiClients'
      BY <2>1, <2>2, <2>4 DEF RoiClients, vars, clientVars, ThreadsOf
    <3>2. ASSUME NEW d \in Clients \ {c}
          PROVE  d \in RoiClients' <=> d \in RoiClients
      <4>1. status'[d] = status[d] /\ \A u \in ThreadsOf(d) : u \in Threads \ {t}
        BY <2>1 DEF ThreadsOf, vars, clientVars
      <4>2. ThreadsOf(d)' = ThreadsOf(d)
        BY DEF ThreadsOf
      <4> QED BY <2>2, <4>1, <4>2 DEF RoiClients
    <3>3. RoiClients \subseteq Clients /\ RoiClients' \subseteq Clients
      BY DEF RoiClients
    <3> QED BY <3>1, <3>2, <3>3
  <2>6. Cardinality(RoiClients') = Cardinality(RoiClients) + 1
    BY <2>5, RoiClientsFinite, FS_AddElement
  <2>7. Cardinality(RoiClients)' = Cardinality(RoiClients')
    OBVIOUS
  <2> QED BY <1>0, <2>1, <2>6, <2>7 DEF MonInv, MonitorAccounts, vars, clientVars
<1>11. CASE MonStart
  <2>1. numStartRoi >= NClients /\ mon' = [mon EXCEPT !.at = "sweep"]
        /\ UNCHANGED <<vars, recvVars, tmpSjrnTimes, numStartRoi, shown>>
    BY <1>11 DEF MonStart
  <2>2. RoiClients = Clients
    BY <1>0, <2>1, RoiClientsFinite, NClientsAssumption DEF MonInv
  <2>3. \A c \in Clients : status[c] = "ROI"
    BY <2>2 DEF RoiClients
  <2>4. RoiClients' = RoiClients
    BY <2>1 DEF RoiClients, ThreadsOf, InRoi, vars, clientVars, recvVars
  <2> QED BY <1>0, <2>1, <2>3, <2>4 DEF MonInv, MonitorAccounts, vars, clientVars
<1>12. CASE MonSweep
  <2> DEFINE c == mon.next
  <2>1. /\ mon.at = "sweep"
        /\ shown' = [shown EXCEPT ![c] = shown[c] \cup tmpSjrnTimes[c]]
        /\ tmpSjrnTimes' = [tmpSjrnTimes EXCEPT ![c] = {}]
        /\ UNCHANGED <<vars, recvVars, numStartRoi>>
    BY <1>12 DEF MonSweep, AfterSweep
  <2>2. c \in Clients
    BY <1>0 DEF Types
  <2>3. RoiClients' = RoiClients
    BY <2>1 DEF RoiClients, ThreadsOf, InRoi, vars, clientVars, recvVars
  <2>4. \A d \in Clients : /\ samples[d] = tmpSjrnTimes[d] \cup shown[d]
                           /\ tmpSjrnTimes[d] \cap shown[d] = {}
    BY <1>0 DEF MonInv, MonitorAccounts
  <2>5. \A d \in Clients : /\ samples[d] = tmpSjrnTimes'[d] \cup shown'[d]
                           /\ tmpSjrnTimes'[d] \cap shown'[d] = {}
    <3> HIDE DEF c
    <3> QED BY <1>0, <2>1, <2>2, <2>4
  <2>6. \A d \in Clients : status[d] = "ROI"
    BY <1>0, <2>1 DEF MonInv, MonitorAccounts
  <2> QED BY <1>0, <2>1, <2>3, <2>5, <2>6 DEF MonInv, MonitorAccounts, vars, clientVars
<1>13. CASE Die
  BY <1>1, <1>13 DEF Die, vars, clientVars, recvVars, monVars, InRoi
<1>14. ASSUME NEW c \in Clients, NEW f \in Sent, ServerWrites(c, f)
       PROVE  MonInv'
  BY <1>1, <1>14 DEF ServerWrites, vars, clientVars, recvVars, monVars, InRoi
<1> QED BY <1>2, <1>3, <1>4, <1>5, <1>6, <1>7, <1>8, <1>9, <1>10, <1>11, <1>12,
           <1>13, <1>14, <1>20, NetSteps

-----------------------------------------------------------------------------
(* The responses of the warm-up that are measured                          *)

\* A receiver that begins the ROI holds no response, any other at most one.
LEMMA FewAreHeld ==
  ASSUME NetInv, NEW t \in Threads, rpc[t] = "startroi"
  PROVE  LET c == ClientOf[t]
         IN /\ IsFiniteSet(HeldOn(c)) /\ Cardinality(HeldOn(c)) \in Nat
            /\ Cardinality(HeldOn(c)) < Cardinality(ThreadsOf(c))
<1> DEFINE c == ClientOf[t]
           S == {u \in ThreadsOf(c) : Holding(u)}
           g == [u \in S |-> resp[u].id]
<1>1. IsFiniteSet(ThreadsOf(c)) /\ Cardinality(ThreadsOf(c)) \in Nat
  BY PassedIsFinite
<1>2. t \in ThreadsOf(c) /\ S \subseteq ThreadsOf(c) \ {t}
  BY DEF ThreadsOf, Holding
<1>3. /\ IsFiniteSet(ThreadsOf(c) \ {t})
      /\ Cardinality(ThreadsOf(c) \ {t}) = Cardinality(ThreadsOf(c)) - 1
  BY <1>1, <1>2, FS_RemoveElement
<1>4. IsFiniteSet(S) /\ Cardinality(S) <= Cardinality(ThreadsOf(c)) - 1
  BY <1>2, <1>3, FS_Subset
<1>5. HeldOn(c) = {resp[u].id : u \in S}
  BY DEF HeldOn, HeldBy, Holding
<1> HIDE DEF S
<1>6. g \in Surjection(S, HeldOn(c))
  BY <1>5 DEF Surjection
<1>7. IsFiniteSet(HeldOn(c)) /\ Cardinality(HeldOn(c)) <= Cardinality(S)
  BY <1>4, <1>6, FS_Surjection
<1>8. Cardinality(HeldOn(c)) \in Nat /\ Cardinality(S) \in Nat
  BY <1>4, <1>7, FS_CardinalityType
<1> QED BY <1>1, <1>4, <1>7, <1>8

LEMMA EarlyStep ==
  ASSUME NetInv, [NetClientNext]_netClientVars
  PROVE  EarlyInv'
<1>0. Types /\ EarlyInv
  BY DEF NetInv
<1> SUFFICES ASSUME NEW c \in Clients, status'[c] = "ROI"
             PROVE  (Cardinality((samples[c] \cup HeldOn(c)) \cap Early(c))
                       < Cardinality(ThreadsOf(c)))'
  BY DEF EarlyInv
<1> DEFINE E == (samples[c] \cup HeldOn(c)) \cap Early(c)
<1>1. /\ ThreadsOf(c)' = ThreadsOf(c)
      /\ status[c] = "ROI" => Cardinality(E) < Cardinality(ThreadsOf(c))
  BY <1>0 DEF EarlyInv, ThreadsOf
<1>2. ASSUME status[c] = "ROI", E' = E
      PROVE  (Cardinality(E) < Cardinality(ThreadsOf(c)))'
  <2> HIDE DEF E
  <2> QED BY <1>1, <1>2
<1>3. toClient' = toClient => Early(c)' = Early(c)
  BY DEF Early, IsFrame
<1>4. CASE Quiet
  <2>1. UNCHANGED <<toClient, samples, status>>
    BY <1>4 DEF Quiet
  <2>2. HeldOn(c)' = HeldOn(c)
    BY <1>4, SameSets DEF Quiet
  <2> QED BY <1>2, <1>3, <2>1, <2>2
<1>5. ASSUME NEW t \in Threads, SenderEffect(t)
      PROVE  (Cardinality(E) < Cardinality(ThreadsOf(c)))'
  <2>1. UNCHANGED <<toClient, samples>> /\ status[c] = "ROI"
    BY <1>5 DEF SenderEffect
  <2>2. HeldOn(c)' = HeldOn(c)
    BY <1>5, KeepsSets
  <2> QED BY <1>2, <1>3, <2>1, <2>2
<1>6. ASSUME NEW t \in Threads, Recv(t)
      PROVE  (Cardinality(E) < Cardinality(ThreadsOf(c)))'
  <2> DEFINE d == ClientOf[t]
             n == nread[d] + 1
             f == toClient[d][n]
  <2>1. /\ UNCHANGED <<toClient, samples, status>> /\ n \in DOMAIN toClient[d]
    BY <1>6, RecvEffect DEF vars, clientVars, netVars
  <2>2. CASE c # d \/ f.type # "RESPONSE"
    <3>1. HeldOn(c)' = HeldOn(c)
      BY <1>6, <2>2, RecvSets
    <3> QED BY <1>2, <1>3, <2>1, <3>1
  <2>3. CASE c = d /\ f.type = "RESPONSE"
    <3>1. HeldOn(c)' = HeldOn(c) \cup {f.id}
      BY <1>6, <2>3, RecvSets
    <3>2. PICK i \in 1 .. nread[c] : IsFrame(c, i, "ROI_BEGIN")
      BY <2>1 DEF NetInv, RoiInv, RoiInvOf, RoiRead
    <3>3. nread[c] \in Nat /\ i \in 1 .. n
      BY <1>0, <2>3 DEF Types
    <3>4. f.id \notin Early(c)
      <4> SUFFICES ASSUME f.id \in Early(c)
                   PROVE  FALSE
        OBVIOUS
      <4>1. PICK j \in DOMAIN toClient[c] :
              /\ IsFrame(c, j, "RESPONSE") /\ toClient[c][j].id = f.id
              /\ \A k \in 1 .. j : ~IsFrame(c, k, "ROI_BEGIN")
        BY DEF Early
      <4> HIDE DEF n
      <4>2. j = n
        BY <2>1, <2>3, <4>1 DEF NetInv, StreamInv, StreamInvOf, IsFrame
      <4> QED BY <3>2, <3>3, <4>1, <4>2
    <3> QED BY <1>2, <1>3, <2>1, <3>1, <3>4
  <2> QED BY <2>2, <2>3
<1>7. ASSUME NEW t \in Threads, HandleResponse(t)
      PROVE  (Cardinality(E) < Cardinality(ThreadsOf(c)))'
  <2> DEFINE d == ClientOf[t]
             id == resp[t].id
  <2>1. /\ UNCHANGED <<toClient, status>> /\ proc = "running"
        /\ samples' = [samples EXCEPT ![d] =
             IF status[d] = "ROI" THEN samples[d] \cup {id} ELSE samples[d]]
    BY <1>7, ResponseEffect DEF netVars
  <2>2. samples \in [Clients -> SUBSET Nat]
    BY <2>1 DEF NetInv, ClientOK, ClientTypeOK
  <2>3. CASE c # d
    <3>1. HeldOn(c)' = HeldOn(c)
      BY <1>7, <2>3, ResponseSets
    <3> QED BY <1>2, <1>3, <2>1, <2>2, <2>3, <3>1
  <2>4. CASE c = d
    <3>1. HeldOn(c)' = HeldOn(c) \ {id} /\ id \in HeldOn(c)
      BY <1>7, <2>4, ResponseSets
    <3>2. samples'[c] = samples[c] \cup {id}
      BY <2>1, <2>2, <2>4
    <3> QED BY <1>2, <1>3, <2>1, <3>1, <3>2
  <2> QED BY <2>3, <2>4
<1>8. ASSUME NEW t \in Threads, HandleRoiBegin(t)
      PROVE  (Cardinality(E) < Cardinality(ThreadsOf(c)))'
  <2> DEFINE d == ClientOf[t]
  <2>1. toClient' = toClient /\ proc = "running" /\ rpc[t] = "startroi"
    BY <1>8, RoiEffect DEF netVars
  <2>2. HeldOn(c)' = HeldOn(c)
    BY <1>8, KeepsSets
  <2>3. DOMAIN status = Clients /\ samples \in [Clients -> SUBSET Nat]
    BY <2>1 DEF NetInv, ClientOK, ClientTypeOK
  <2>4. \/ UNCHANGED <<status, samples>>
        \/ /\ status[d] = "WARMUP" /\ status' = [status EXCEPT ![d] = "ROI"]
           /\ samples' = [samples EXCEPT ![d] = {}]
    BY <1>8, RoiEffect
  <2>5. CASE UNCHANGED <<status, samples>>
    BY <1>2, <1>3, <2>1, <2>2, <2>5
  <2>6. CASE /\ status[d] = "WARMUP" /\ status' = [status EXCEPT ![d] = "ROI"]
             /\ samples' = [samples EXCEPT ![d] = {}]
    <3>1. CASE c # d
      BY <1>2, <1>3, <2>1, <2>2, <2>3, <2>6, <3>1
    <3>2. CASE c = d
      <4>1. samples'[c] = {}
        BY <2>3, <2>6, <3>2
      <4>2. E' \subseteq HeldOn(c)
        BY <2>2, <4>1
      <4>3. /\ IsFiniteSet(HeldOn(c)) /\ Cardinality(HeldOn(c)) \in Nat
            /\ Cardinality(HeldOn(c)) < Cardinality(ThreadsOf(c))
            /\ Cardinality(ThreadsOf(c)) \in Nat
        BY <2>1, <3>2, FewAreHeld, PassedIsFinite
      <4> DEFINE X == E'
      <4>4. X \subseteq HeldOn(c)
        BY <4>2
      <4> HIDE DEF X
      <4>5. IsFiniteSet(X) /\ Cardinality(X) <= Cardinality(HeldOn(c))
        BY <4>3, <4>4, FS_Subset
      <4>6. Cardinality(X) \in Nat
        BY <4>5, FS_CardinalityType
      <4>7. Cardinality(X) < Cardinality(ThreadsOf(c))
        BY <4>3, <4>5, <4>6
      <4> QED BY <1>1, <4>7 DEF X
    <3> QED BY <3>1, <3>2
  <2> QED BY <2>4, <2>5, <2>6
<1>9. ASSUME NEW d \in Clients, NEW f \in Sent, ServerWrites(d, f)
      PROVE  (Cardinality(E) < Cardinality(ThreadsOf(c)))'
  <2>1. UNCHANGED <<samples, status>>
    BY <1>9 DEF ServerWrites, vars, clientVars
  <2>2. RoiRead(c)
    BY <2>1 DEF NetInv, RoiInv, RoiInvOf
  <2>3. HeldOn(c)' = HeldOn(c) /\ Early(c)' = Early(c)
    BY <1>9, <2>2, ReadStays
  <2> QED BY <1>2, <2>1, <2>3
<1> QED BY <1>4, <1>5, <1>6, <1>7, <1>8, <1>9, HandOvers

-----------------------------------------------------------------------------
(* The files, and the announcement of the end                              *)

\* Samples are dropped when there are none.
LEMMA SamplesGrow ==
  ASSUME NetInv, [NetClientNext]_netClientVars, NEW c \in Clients
  PROVE  samples[c] \subseteq samples'[c]
<1>1. ASSUME NEW t \in Threads, HandleResponse(t)
      PROVE  samples[c] \subseteq samples'[c]
  <2>1. /\ proc = "running"
        /\ samples' = [samples EXCEPT ![ClientOf[t]] =
             IF status[ClientOf[t]] = "ROI" THEN samples[ClientOf[t]] \cup {resp[t].id}
             ELSE samples[ClientOf[t]]]
    BY <1>1, ResponseEffect
  <2>2. samples \in [Clients -> SUBSET Nat]
    BY <2>1 DEF NetInv, ClientOK, ClientTypeOK
  <2> QED BY <2>1, <2>2
<1>2. ASSUME NEW t \in Threads, HandleRoiBegin(t)
      PROVE  samples[c] \subseteq samples'[c]
  <2>1. /\ proc = "running"
        /\ \/ samples' = samples
           \/ /\ status[ClientOf[t]] = "WARMUP"
              /\ samples' = [samples EXCEPT ![ClientOf[t]] = {}]
    BY <1>2, RoiEffect
  <2>2. samples \in [Clients -> SUBSET Nat]
    BY <2>1 DEF NetInv, ClientOK, ClientTypeOK
  <2>3. status[ClientOf[t]] = "WARMUP" => samples[ClientOf[t]] = {}
    BY DEF NetInv, SampleInv
  <2> QED BY <2>1, <2>2, <2>3
<1>3. ASSUME NEW t \in Threads, SenderEffect(t)
      PROVE  samples' = samples
  BY <1>3 DEF SenderEffect
<1>4. ASSUME NEW t \in Threads, Recv(t)
      PROVE  samples' = samples
  BY <1>4, RecvEffect DEF vars, clientVars
<1>5. ASSUME NEW d \in Clients, NEW f \in Sent, ServerWrites(d, f)
      PROVE  samples' = samples
  BY <1>5 DEF ServerWrites, vars, clientVars
<1>6. Quiet => samples' = samples
  BY DEF Quiet
<1> QED BY <1>1, <1>2, <1>3, <1>4, <1>5, <1>6, HandOvers

\* The first client that dumps finds the files empty: opening them anew changes
\* nothing.
LEMMA BeginEffect ==
  ASSUME NetInv, NEW t \in Threads, BeginStats(t)
  PROVE  /\ proc = "running" /\ rpc[t] = "finish" /\ liveLock = NoThread
         /\ \A u \in Threads : ~Dumping(u)
         /\ liveClients > 0 /\ liveClients' = liveClients - 1 /\ liveLock' = t
         /\ size' = [size EXCEPT ![t] = samples[ClientOf[t]]]
         /\ rpc' = [rpc EXCEPT ![t] = "stats"]
         /\ UNCHANGED <<vars, netVars, nread, recvLeaked, resp, torn, lats, reqInfo, monVars>>
<1>1. /\ proc = "running" /\ rpc[t] = "finish" /\ liveLock = NoThread
      /\ lats' = IF liveClients = NClients THEN <<>> ELSE lats
      /\ liveClients' = liveClients - 1 /\ liveLock' = t
      /\ size' = [size EXCEPT ![t] = samples[ClientOf[t]]]
      /\ rpc' = [rpc EXCEPT ![t] = "stats"]
      /\ UNCHANGED <<vars, netVars, nread, recvLeaked, resp, torn, reqInfo, monVars>>
  BY DEF BeginStats, RecvAt, RecvGoto, CanLock, Opened, SjrnTimes
<1>2. /\ liveClients > 0 /\ Len(lats) = NClients - liveClients
      /\ \A u \in Threads : ~Dumping(u)
  BY <1>1, NetClientAssumption DEF NetInv, FileInv
<1>3. lats \in Seq(Dumped) /\ liveClients \in Int
  BY DEF NetInv, Types
<1>4. liveClients = NClients => lats = <<>>
  <2>1. liveClients = NClients => Len(lats) = 0
    BY <1>2, <1>3, NClientsAssumption
  <2> QED BY <1>3, <2>1, EmptySeq
<1> QED BY <1>1, <1>2, <1>4

LEMMA EndStatsEffect ==
  ASSUME NetInv, NEW t \in Threads, EndStats(t)
  PROVE  /\ proc = "running" /\ rpc[t] = "stats" /\ liveLock = t
         /\ \A u \in Threads \ {t} : ~Dumping(u)
         /\ \E d \in Dumps(t) : lats' = Append(lats, d)
         /\ size' = [size EXCEPT ![t] = StartTimes(ClientOf[t])]
         /\ torn' = IF StartTimes(ClientOf[t]) = Tids(ClientOf[t]) THEN torn
                    ELSE torn \cup {t}
         /\ rpc' = [rpc EXCEPT ![t] = "info"]
         /\ UNCHANGED <<vars, netVars, nread, recvLeaked, resp, reqInfo, liveClients,
                        liveLock, monVars>>
<1>1. /\ proc = "running" /\ rpc[t] = "stats"
      /\ \E d \in Dumps(t) : lats' = Append(lats, d)
      /\ reqInfo' = IF liveClients + 1 = NClients THEN <<>> ELSE reqInfo
      /\ size' = [size EXCEPT ![t] = StartTimes(ClientOf[t])]
      /\ torn' = IF StartTimes(ClientOf[t]) = Tids(ClientOf[t]) THEN torn
                 ELSE torn \cup {t}
      /\ rpc' = [rpc EXCEPT ![t] = "info"]
      /\ UNCHANGED <<vars, netVars, nread, recvLeaked, resp, liveClients, liveLock, monVars>>
  BY DEF EndStats, RecvAt, RecvGoto, Opened, Dumps
<1>2. /\ liveLock = t /\ \A u \in Threads \ {t} : ~Dumping(u)
      /\ Len(lats) = Len(reqInfo) /\ Len(lats) = NClients - liveClients - 1
  BY <1>1 DEF NetInv, FileInv, Dumping
<1>3. reqInfo \in Seq(Dumped) /\ liveClients \in Int
  BY DEF NetInv, Types
<1>4. liveClients + 1 = NClients => reqInfo = <<>>
  <2>1. liveClients + 1 = NClients => Len(reqInfo) = 0
    BY <1>2, <1>3, NClientsAssumption
  <2> QED BY <1>3, <2>1, EmptySeq
<1> QED BY <1>1, <1>2, <1>4

\* Steps that are not in the dumps, for both of the next invariants.
Aside ==
  /\ UNCHANGED dumpVars
  /\ proc' = "exited" <=> proc = "exited"
  /\ \A t \in Threads : /\ rpc'[t] = "stats" <=> rpc[t] = "stats"
                        /\ rpc'[t] = "info" <=> rpc[t] = "info"
                        /\ rpc[t] = "finish" => rpc'[t] = "finish"
                        /\ rpc'[t] = "finish" => rpc[t] = "finish" \/ Recv(t)

LEMMA AsideSteps ==
  ASSUME NetInv
  PROVE  /\ UNCHANGED netClientVars => Aside
         /\ \A t \in Threads :
              \/ SenderEffect(t) \/ Recv(t) \/ RecvFail(t) \/ GoOn(t)
              \/ HandleResponse(t) \/ HandleRoiBegin(t) \/ Publish(t) \/ CountRoi(t)
              \/ DumpFault(t)
              => Aside
         /\ MonStart \/ MonSweep \/ Die => Aside
         /\ \A c \in Clients : \A f \in Sent : ServerWrites(c, f) => Aside
<1>0. rpc \in [Threads -> {"recv", "fini", "push", "tids", "startroi",
                           "publish", "count", "finish", "stats", "info", "end"}]
  BY DEF NetInv, Types
<1>1. UNCHANGED netClientVars => Aside
  BY DEF netClientVars, vars, recvVars, Aside
<1>2. ASSUME NEW t \in Threads, SenderEffect(t)
      PROVE  Aside
  BY <1>2 DEF SenderEffect, recvVars, Aside
<1>3. ASSUME NEW t \in Threads, Recv(t)
      PROVE  Aside
  <2>1. rpc[t] = "recv" /\ UNCHANGED <<vars, dumpVars>>
    BY <1>3, RecvEffect
  <2>2. \/ rpc' = [rpc EXCEPT ![t] = "fini"] \/ rpc' = [rpc EXCEPT ![t] = "startroi"]
        \/ rpc' = [rpc EXCEPT ![t] = "finish"]
    BY <1>3, RecvEffect
  <2>3. \A u \in Threads \ {t} : rpc'[u] = rpc[u]
    BY <1>0, <2>2
  <2>4. rpc'[t] \notin {"stats", "info"}
    BY <1>0, <2>2
  <2> QED BY <1>3, <2>1, <2>3, <2>4 DEF Aside, vars
<1>4. ASSUME NEW t \in Threads,
             RecvFail(t) \/ Publish(t) \/ CountRoi(t) \/ DumpFault(t)
      PROVE  Aside
  BY <1>0, <1>4 DEF RecvFail, Publish, PublishReady, CountRoi, DumpFault, RecvAt, RecvGoto,
                    Aside, vars, recvVars
<1>5. ASSUME NEW t \in Threads, HandleResponse(t)
      PROVE  Aside
  <2>1. /\ Holding(t) /\ UNCHANGED <<proc, dumpVars>>
        /\ rpc' = [rpc EXCEPT ![t] = "recv"] \/ rpc' = [rpc EXCEPT ![t] = "tids"]
    BY <1>5, ResponseEffect
  <2> QED BY <1>0, <2>1 DEF Aside, Holding
<1>6. ASSUME NEW t \in Threads, HandleRoiBegin(t)
      PROVE  Aside
  <2>1. /\ rpc[t] = "startroi" /\ proc = "running" /\ proc' \in {"running", "aborted"}
        /\ UNCHANGED dumpVars /\ (rpc' = rpc \/ rpc' = [rpc EXCEPT ![t] = "publish"])
    BY <1>6, RoiEffect
  <2> QED BY <1>0, <2>1 DEF Aside
<1>7. MonStart \/ MonSweep \/ Die => Aside
  BY DEF MonStart, MonSweep, Die, vars, recvVars, Aside
<1>8. \A c \in Clients : \A f \in Sent : ServerWrites(c, f) => Aside
  BY DEF ServerWrites, vars, recvVars, Aside
<1>9. ASSUME NEW t \in Threads, GoOn(t)
      PROVE  Aside
  <2>1. /\ rpc[t] \in {"fini", "tids"} /\ UNCHANGED <<vars, dumpVars>>
        /\ rpc' = [rpc EXCEPT ![t] = "push"] \/ rpc' = [rpc EXCEPT ![t] = "recv"]
    BY <1>9, GoOnEffect
  <2> QED BY <1>0, <2>1 DEF Aside, vars
<1> QED BY <1>1, <1>2, <1>3, <1>4, <1>5, <1>6, <1>7, <1>8, <1>9

LEMMA DumpSteps ==
  ASSUME NetInv, [NetClientNext]_netClientVars
  PROVE  Aside \/ \E t \in Threads : BeginStats(t) \/ EndStats(t) \/ EndInfo(t)
  BY NetSteps, AsideSteps

LEMMA FileStep ==
  ASSUME NetInv, [NetClientNext]_netClientVars
  PROVE  FileInv'
<1>0. Types /\ FileInv
  BY DEF NetInv
<1>1. \A c \in Clients : samples[c] \subseteq samples'[c]
  BY SamplesGrow
<1>2. /\ lats \in Seq(Dumped) /\ reqInfo \in Seq(Dumped) /\ liveClients \in Int
      /\ size \in [Threads -> SUBSET Nat]
      /\ rpc \in [Threads -> {"recv", "fini", "push", "tids", "startroi",
                              "publish", "count", "finish", "stats", "info", "end"}]
  BY <1>0 DEF Types
<1>3. /\ DOMAIN lats = 1 .. Len(lats) /\ DOMAIN reqInfo = 1 .. Len(reqInfo)
      /\ Len(lats) \in Nat /\ Len(reqInfo) \in Nat
      /\ \A k \in DOMAIN lats : lats[k].client \in Clients
  <2>1. \A k \in DOMAIN lats : lats[k] \in Dumped
    BY <1>2
  <2>2. \A d \in Dumped : d.client \in Clients
    BY DEF Dumped
  <2>3. \A k \in DOMAIN lats : lats[k].client \in Clients
    BY <2>1, <2>2
  <2> QED BY <1>2, <2>3, LenProperties
<1>4. \A k \in DOMAIN lats : lats[k].ids \subseteq samples[lats[k].client]
  BY <1>0 DEF FileInv
<1>5. \A k \in DOMAIN reqInfo : /\ lats[k].client = reqInfo[k].client
                                /\ lats[k].ids \subseteq reqInfo[k].ids
  BY <1>0 DEF FileInv
<1>6. CASE Aside
  <2>1. UNCHANGED <<size, liveClients, liveLock, lats, reqInfo>>
    BY <1>6 DEF Aside, dumpVars
  <2>2. \A t \in Threads : Dumping(t)' <=> Dumping(t)
    BY <1>6 DEF Aside, Dumping
  <2>3. proc # "exited" =>
          /\ \A t \in Threads : Dumping(t)' <=> liveLock' = t
          /\ liveLock' = NoThread =>
               /\ liveClients' > 0 /\ Len(lats') = Len(reqInfo')
               /\ Len(lats') = NClients - liveClients'
    BY <1>0, <2>1, <2>2 DEF FileInv
  <2>4. proc # "exited" =>
          /\ \A t \in Threads : rpc'[t] = "stats" =>
               /\ Len(lats') = Len(reqInfo') /\ liveClients' >= 0
               /\ Len(lats') = NClients - liveClients' - 1
          /\ \A t \in Threads : rpc'[t] = "info" =>
               /\ Len(lats') = Len(reqInfo') + 1 /\ liveClients' >= 0
               /\ Len(lats') = NClients - liveClients'
               /\ lats'[Len(lats')].client = ClientOf[t]
               /\ lats'[Len(lats')].ids \subseteq size'[t]
    BY <1>0, <1>6, <2>1 DEF FileInv, Aside
  <2>5. proc' = "exited" => Len(lats') = NClients /\ Len(reqInfo') = NClients
    BY <1>0, <1>6, <2>1 DEF FileInv, Aside
  <2>6. \A k \in DOMAIN reqInfo' :
          /\ lats'[k].client = reqInfo'[k].client
          /\ lats'[k].ids \subseteq reqInfo'[k].ids
    BY <1>0, <2>1 DEF FileInv
  <2>7. \A t \in Threads : rpc'[t] = "stats" => size'[t] \subseteq samples'[ClientOf[t]]
    BY <1>0, <1>1, <1>6, <2>1 DEF FileInv, Aside
  <2>8. \A k \in DOMAIN lats' : lats'[k].ids \subseteq samples'[lats'[k].client]
    BY <1>1, <1>3, <1>4, <2>1
  <2> QED BY <1>6, <2>3, <2>4, <2>5, <2>6, <2>7, <2>8 DEF FileInv, Aside
<1>7. ASSUME NEW t \in Threads, BeginStats(t)
      PROVE  FileInv'
  <2>1. /\ proc = "running" /\ liveLock = NoThread
        /\ \A u \in Threads : ~Dumping(u)
        /\ liveClients > 0 /\ liveClients' = liveClients - 1 /\ liveLock' = t
        /\ size' = [size EXCEPT ![t] = samples[ClientOf[t]]]
        /\ rpc' = [rpc EXCEPT ![t] = "stats"]
        /\ UNCHANGED <<vars, lats, reqInfo>>
    BY <1>7, BeginEffect
  <2>2. rpc'[t] = "stats" /\ \A u \in Threads \ {t} : rpc'[u] \notin {"stats", "info"}
    BY <1>2, <2>1 DEF Dumping
  <2>3. Len(lats) = Len(reqInfo) /\ Len(lats) = NClients - liveClients
    BY <1>0, <2>1 DEF FileInv
  <2>4. UNCHANGED <<proc, samples>>
    BY <2>1 DEF vars, clientVars
  <2>5. size'[t] = samples[ClientOf[t]]
    BY <1>2, <2>1
  <2>6. t # NoThread
    BY NetClientAssumption
  <2>7. \A u \in Threads : Dumping(u)' <=> liveLock' = u
    BY <2>1, <2>2 DEF Dumping
  <2>8. \A u \in Threads : rpc'[u] = "stats" => size'[u] \subseteq samples'[ClientOf[u]]
    BY <2>2, <2>4, <2>5
  <2>9. /\ Len(lats') = Len(reqInfo') /\ liveClients' >= 0
        /\ Len(lats') = NClients - liveClients' - 1
    BY <1>2, <2>1, <2>3, NClientsAssumption
  <2> QED BY <1>0, <2>1, <2>2, <2>4, <2>6, <2>7, <2>8, <2>9 DEF FileInv
<1>8. ASSUME NEW t \in Threads, EndStats(t)
      PROVE  FileInv'
  <2>1. /\ proc = "running" /\ rpc[t] = "stats" /\ liveLock = t
        /\ \A u \in Threads \ {t} : ~Dumping(u)
        /\ \E d \in Dumps(t) : lats' = Append(lats, d)
        /\ size' = [size EXCEPT ![t] = StartTimes(ClientOf[t])]
        /\ rpc' = [rpc EXCEPT ![t] = "info"]
        /\ UNCHANGED <<vars, reqInfo, liveClients, liveLock>>
    BY <1>8, EndStatsEffect
  <2>2. PICK d \in Dumps(t) : lats' = Append(lats, d)
    BY <2>1
  <2>3. d \in Dumped /\ d.client = ClientOf[t] /\ d.ids = size[t]
    BY DumpsType
  <2>4. /\ Len(lats') = Len(lats) + 1 /\ lats'[Len(lats')] = d
        /\ DOMAIN lats' = 1 .. Len(lats) + 1
        /\ \A k \in 1 .. Len(lats) : lats'[k] = lats[k]
    <3>1. Append(lats, d) \in Seq(Dumped) /\ Len(Append(lats, d)) = Len(lats) + 1
      BY <1>2, <2>3, AppendProperties
    <3> QED BY <1>2, <2>2, <2>3, <3>1, AppendProperties, LenProperties
  <2>5. rpc'[t] = "info" /\ \A u \in Threads \ {t} : rpc'[u] \notin {"stats", "info"}
    BY <1>2, <2>1 DEF Dumping
  <2>6. /\ Len(lats) = Len(reqInfo) /\ Len(lats) = NClients - liveClients - 1
        /\ liveClients >= 0 /\ size[t] \subseteq samples[ClientOf[t]]
    BY <1>0, <2>1 DEF FileInv, Dumping
  <2>7. UNCHANGED <<proc, samples>> /\ samples[ClientOf[t]] \subseteq size'[t]
    BY <1>2, <2>1, StartTimesType DEF vars, clientVars
  <2>8. t # NoThread
    BY NetClientAssumption
  <2>9. \A u \in Threads : Dumping(u)' <=> liveLock' = u
    BY <2>1, <2>5 DEF Dumping
  <2>10. \A u \in Threads : rpc'[u] # "stats"
    BY <2>5
  <2>11. /\ Len(lats') = Len(reqInfo') + 1 /\ liveClients' >= 0
         /\ Len(lats') = NClients - liveClients'
    BY <1>2, <1>3, <2>1, <2>4, <2>6, NClientsAssumption
  <2>12. lats'[Len(lats')].client = ClientOf[t] /\ lats'[Len(lats')].ids \subseteq size'[t]
    BY <2>3, <2>4, <2>6, <2>7
  <2>13. \A k \in DOMAIN reqInfo' : k \in 1 .. Len(lats) /\ lats'[k] = lats[k]
    BY <1>3, <2>1, <2>4, <2>6
  <2>14. \A k \in DOMAIN lats' : lats'[k].ids \subseteq samples'[lats'[k].client]
    <3>1. \A k \in DOMAIN lats' : k \in 1 .. Len(lats) \/ k = Len(lats')
      BY <1>3, <2>4
    <3>2. \A k \in 1 .. Len(lats) : lats[k].ids \subseteq samples[lats[k].client]
      BY <1>3, <1>4
    <3> QED BY <2>3, <2>4, <2>6, <2>7, <3>1, <3>2
  <2>15. \A k \in DOMAIN reqInfo' : lats'[k].client = reqInfo'[k].client
                                    /\ lats'[k].ids \subseteq reqInfo'[k].ids
    BY <1>0, <2>1, <2>13 DEF FileInv
  <2> QED BY <2>1, <2>5, <2>7, <2>8, <2>9, <2>10, <2>11, <2>12, <2>14, <2>15 DEF FileInv
<1>9. ASSUME NEW t \in Threads, EndInfo(t)
      PROVE  FileInv'
  <2>1. /\ proc = "running" /\ rpc[t] = "info"
        /\ size' = [size EXCEPT ![t] = {}]
        /\ UNCHANGED <<samples, liveClients, lats>>
        /\ \/ /\ liveClients = 0 /\ proc' = "exited" /\ UNCHANGED <<liveLock, rpc>>
           \/ /\ liveClients # 0 /\ proc' = proc /\ liveLock' = NoThread
              /\ rpc' = [rpc EXCEPT ![t] = "recv"]
    BY <1>9, EndInfoEffect DEF clientVars
  <2>2. PICK d \in Dumps(t) : reqInfo' = Append(reqInfo, d)
    BY <1>9, EndInfoEffect
  <2>3. d \in Dumped /\ d.client = ClientOf[t] /\ d.ids = size[t]
    BY DumpsType
  <2>4. /\ Len(reqInfo') = Len(reqInfo) + 1 /\ reqInfo'[Len(reqInfo')] = d
        /\ DOMAIN reqInfo' = 1 .. Len(reqInfo) + 1
        /\ \A k \in 1 .. Len(reqInfo) : reqInfo'[k] = reqInfo[k]
    <3>1. Append(reqInfo, d) \in Seq(Dumped) /\ Len(Append(reqInfo, d)) = Len(reqInfo) + 1
      BY <1>2, <2>3, AppendProperties
    <3> QED BY <1>2, <2>2, <2>3, <3>1, AppendProperties, LenProperties
  <2>5. /\ Len(lats) = Len(reqInfo) + 1 /\ liveClients >= 0
        /\ Len(lats) = NClients - liveClients
        /\ lats[Len(lats)].client = ClientOf[t]
        /\ lats[Len(lats)].ids \subseteq size[t]
        /\ liveLock = t /\ \A u \in Threads \ {t} : ~Dumping(u)
    BY <1>0, <2>1 DEF FileInv, Dumping
  <2>6. \A k \in DOMAIN reqInfo' : /\ lats'[k].client = reqInfo'[k].client
                                   /\ lats'[k].ids \subseteq reqInfo'[k].ids
    <3>1. \A k \in DOMAIN reqInfo' : k \in 1 .. Len(reqInfo) \/ k = Len(lats)
      BY <1>3, <2>4, <2>5
    <3>2. \A k \in 1 .. Len(reqInfo) : /\ lats[k].client = reqInfo[k].client
                                       /\ lats[k].ids \subseteq reqInfo[k].ids
      BY <1>3, <1>5
    <3>3. reqInfo'[Len(lats)] = d
      BY <2>4, <2>5
    <3> QED BY <2>1, <2>3, <2>4, <2>5, <3>1, <3>2, <3>3
  <2>7. \A k \in DOMAIN lats' : lats'[k].ids \subseteq samples'[lats'[k].client]
    BY <1>0, <2>1 DEF FileInv
  <2>8. CASE liveClients = 0 /\ proc' = "exited" /\ UNCHANGED <<liveLock, rpc>>
    <3>1. Len(lats') = NClients /\ Len(reqInfo') = NClients
      BY <1>2, <2>1, <2>4, <2>5, <2>8, NClientsAssumption
    <3>2. \A u \in Threads : rpc'[u] # "stats"
      BY <2>1, <2>5, <2>8 DEF Dumping
    <3> QED BY <2>6, <2>7, <2>8, <3>1, <3>2 DEF FileInv
  <2>9. CASE /\ liveClients # 0 /\ proc' = proc /\ liveLock' = NoThread
             /\ rpc' = [rpc EXCEPT ![t] = "recv"]
    <3>1. \A u \in Threads : rpc'[u] \notin {"stats", "info"}
      BY <1>2, <2>5, <2>9 DEF Dumping
    <3>2. \A u \in Threads : ~Dumping(u)' /\ liveLock' # u
      BY <2>9, <3>1, NetClientAssumption DEF Dumping
    <3>3. /\ liveClients' > 0 /\ Len(lats') = Len(reqInfo')
          /\ Len(lats') = NClients - liveClients'
      BY <1>2, <2>1, <2>4, <2>5, <2>9
    <3> QED BY <2>1, <2>6, <2>7, <2>9, <3>1, <3>2, <3>3 DEF FileInv
  <2> QED BY <2>1, <2>8, <2>9
<1> QED BY <1>6, <1>7, <1>8, <1>9, DumpSteps

\* A dump that lost no response was of vectors that did not move.
LEMMA TornStep ==
  ASSUME NetInv, [NetClientNext]_netClientVars
  PROVE  TornInv'
<1>0. Types /\ TornInv /\ FileInv
  BY DEF NetInv
<1>1. \A c \in Clients : samples[c] \subseteq samples'[c]
  BY SamplesGrow
<1>2. /\ lats \in Seq(Dumped) /\ DOMAIN lats = 1 .. Len(lats) /\ Len(lats) \in Nat
      /\ \A k \in DOMAIN lats : lats[k].client \in Clients
  <2>1. \A k \in DOMAIN lats : lats[k] \in Dumped
    BY <1>0 DEF Types
  <2>2. \A k \in DOMAIN lats : lats[k].client \in Clients
    BY <2>1 DEF Dumped
  <2> QED BY <1>0, <2>2, LenProperties DEF Types
<1>3. rpc \in [Threads -> {"recv", "fini", "push", "tids", "startroi",
                           "publish", "count", "finish", "stats", "info", "end"}]
  BY <1>0 DEF Types
<1>4. \A k \in DOMAIN lats :
        lats[k].intact \/ lats[k].ids # samples'[lats[k].client]
  <2> SUFFICES ASSUME NEW k \in DOMAIN lats, ~lats[k].intact
               PROVE  lats[k].ids # samples'[lats[k].client]
    OBVIOUS
  <2>1. /\ lats[k].ids \subseteq samples[lats[k].client]
        /\ lats[k].ids # samples[lats[k].client]
    BY <1>0 DEF FileInv, TornInv
  <2> QED BY <1>1, <1>2, <2>1
<1>5. CASE Aside
  <2>1. UNCHANGED <<torn, lats>> /\ \A t \in Threads : rpc[t] = "info" => rpc'[t] = "info"
    BY <1>5 DEF Aside, dumpVars
  <2>2. \A t \in torn' : rpc'[t] = "info"
    BY <1>0, <2>1 DEF TornInv, Types
  <2> QED BY <1>4, <2>1, <2>2 DEF TornInv
<1>6. ASSUME NEW t \in Threads, BeginStats(t)
      PROVE  TornInv'
  <2>1. /\ rpc[t] = "finish" /\ rpc' = [rpc EXCEPT ![t] = "stats"]
        /\ UNCHANGED <<torn, lats>>
    BY <1>6, BeginEffect
  <2>2. \A u \in torn : rpc'[u] = "info"
    BY <1>0, <1>3, <2>1 DEF TornInv, Types
  <2> QED BY <1>4, <2>1, <2>2 DEF TornInv
<1>7. ASSUME NEW t \in Threads, EndStats(t)
      PROVE  TornInv'
  <2>1. /\ rpc[t] = "stats" /\ rpc' = [rpc EXCEPT ![t] = "info"]
        /\ torn' = torn \/ torn' = torn \cup {t}
        /\ proc = "running" /\ samples' = samples
    BY <1>7, EndStatsEffect DEF vars, clientVars
  <2>2. PICK d \in Dumps(t) : lats' = Append(lats, d)
    BY <1>7, EndStatsEffect
  <2>3. /\ d \in Dumped /\ d.client = ClientOf[t] /\ d.ids = size[t]
        /\ d.intact \/ MayFault(t)
    BY DumpsType
  <2>4. d.intact \/ d.ids # samples[d.client]
    BY <1>0, <2>1, <2>3 DEF MayFault, Counts, SjrnTimes, TornInv
  <2>5. \A u \in torn' : rpc'[u] = "info"
    BY <1>0, <1>3, <2>1 DEF TornInv, Types
  <2>6. /\ DOMAIN lats' = 1 .. Len(lats) + 1 /\ lats'[Len(lats) + 1] = d
        /\ \A k \in 1 .. Len(lats) : lats'[k] = lats[k]
    <3>1. Append(lats, d) \in Seq(Dumped) /\ Len(Append(lats, d)) = Len(lats) + 1
      BY <1>2, <2>3, AppendProperties
    <3> QED BY <1>2, <2>2, <2>3, <3>1, AppendProperties, LenProperties
  <2>7. ASSUME NEW k \in DOMAIN lats'
        PROVE  lats'[k].intact \/ lats'[k].ids # samples'[lats'[k].client]
    <3>1. k \in 1 .. Len(lats) \/ k = Len(lats) + 1
      BY <1>2, <2>6
    <3> QED BY <1>2, <1>4, <2>1, <2>4, <2>6, <3>1
  <2> QED BY <2>5, <2>7 DEF TornInv
<1>8. ASSUME NEW t \in Threads, EndInfo(t)
      PROVE  TornInv'
  <2>1. /\ torn' = torn \ {t} /\ lats' = lats
        /\ rpc' = rpc \/ rpc' = [rpc EXCEPT ![t] = "recv"]
    BY <1>8, EndInfoEffect
  <2>2. \A u \in torn' : rpc'[u] = "info"
    BY <1>0, <1>3, <2>1 DEF TornInv, Types
  <2> QED BY <1>4, <2>1, <2>2 DEF TornInv
<1> QED BY <1>5, <1>6, <1>7, <1>8, DumpSteps

\* Only a receiver takes a frame off a connection.
LEMMA ReadUnlessRecv ==
  ASSUME NetInv, [NetClientNext]_netClientVars, NEW c \in Clients
  PROVE  \/ \E t \in Threads : Recv(t)
         \/ /\ FinishRead(c)' <=> FinishRead(c)
            /\ Once(c, "FINISH")' => Once(c, "FINISH")
<1>1. UNCHANGED <<toClient, nread>> =>
        /\ FinishRead(c)' <=> FinishRead(c)
        /\ Once(c, "FINISH")' => Once(c, "FINISH")
  BY DEF FinishRead, Once, IsFrame
<1>2. CASE Quiet
  BY <1>1, <1>2 DEF Quiet
<1>3. ASSUME NEW t \in Threads, SenderEffect(t) \/ HandleResponse(t) \/ HandleRoiBegin(t)
      PROVE  UNCHANGED <<toClient, nread>>
  BY <1>3, ResponseEffect, RoiEffect DEF SenderEffect, recvVars, netVars
<1>4. ASSUME NEW d \in Clients, NEW f \in Sent, ServerWrites(d, f)
      PROVE  /\ FinishRead(c)' <=> FinishRead(c)
             /\ Once(c, "FINISH")' => Once(c, "FINISH")
  BY <1>4, ReadStays
<1> QED BY <1>1, <1>2, <1>3, <1>4, HandOvers

LEMMA FinishStep ==
  ASSUME NetInv, [NetClientNext]_netClientVars
  PROVE  FinishInv'
<1>0. Types /\ FinishInv /\ FileInv
  BY DEF NetInv
<1> SUFFICES ASSUME NEW c \in Clients
             PROVE  FinishInvOf(c)'
  BY DEF FinishInv
<1>1. FinishInvOf(c)
  BY <1>0 DEF FinishInv
<1>2. /\ rpc \in [Threads -> {"recv", "fini", "push", "tids", "startroi",
                              "publish", "count", "finish", "stats", "info", "end"}]
      /\ lats \in Seq(Dumped)
      /\ ThreadsOf(c)' = ThreadsOf(c) /\ ThreadsOf(c) \subseteq Threads
  BY <1>0 DEF Types, ThreadsOf
<1>3. ASSUME lats' = lats, FinishRead(c)' <=> FinishRead(c),
             Once(c, "FINISH")' => Once(c, "FINISH"),
             \A t \in Threads : (ToDump(t)' <=> ToDump(t)) /\ (Finishing(t)' => Finishing(t))
      PROVE  FinishInvOf(c)'
  BY <1>1, <1>2, <1>3 DEF FinishInvOf
<1>4. ASSUME NEW t \in Threads, BeginStats(t) \/ EndStats(t) \/ EndInfo(t)
      PROVE  /\ FinishRead(c)' <=> FinishRead(c)
             /\ Once(c, "FINISH")' <=> Once(c, "FINISH")
  BY <1>4, QuietSteps DEF Quiet, FinishRead, Once, IsFrame
<1>5. CASE Aside /\ \A t \in Threads : ~Recv(t)
  <2>1. /\ lats' = lats
        /\ \A t \in Threads : (ToDump(t)' <=> ToDump(t)) /\ (Finishing(t)' => Finishing(t))
    BY <1>5 DEF Aside, dumpVars, ToDump, Finishing
  <2> QED BY <1>3, <1>5, <2>1, ReadUnlessRecv
<1>6. ASSUME NEW t \in Threads, Recv(t)
      PROVE  FinishInvOf(c)'
  <2> DEFINE d == ClientOf[t]
             n == nread[d] + 1
             f == toClient[d][n]
  <2>1. /\ nread' = [nread EXCEPT ![d] = n]
        /\ n \in DOMAIN toClient[d] /\ d \in Clients /\ t \in ThreadsOf(d)
        /\ UNCHANGED <<toClient, proc, lats>> /\ rpc[t] = "recv" /\ proc = "running"
    BY <1>6, RecvEffect DEF vars, netVars, dumpVars
  <2>2. \/ rpc' = [rpc EXCEPT ![t] = "fini"] /\ f.type = "RESPONSE"
        \/ rpc' = [rpc EXCEPT ![t] = "startroi"] /\ f.type = "ROI_BEGIN"
        \/ rpc' = [rpc EXCEPT ![t] = "finish"] /\ f.type = "FINISH"
    BY <1>6, RecvEffect
  <2>3. Once(c, "FINISH")' = Once(c, "FINISH") /\ nread[d] \in Nat
    BY <1>0, <2>1 DEF Once, IsFrame, Types
  <2>4. c = d => (FinishRead(c)' <=> FinishRead(c) \/ f.type = "FINISH")
    <3> SUFFICES ASSUME c = d
                 PROVE  FinishRead(c)' <=> FinishRead(c) \/ f.type = "FINISH"
      OBVIOUS
    <3>1. nread'[d] = n /\ 1 .. n = (1 .. nread[d]) \cup {n}
      BY <1>0, <2>1, <2>3 DEF Types
    <3> HIDE DEF n
    <3> QED BY <2>1, <3>1 DEF FinishRead, IsFrame
  <2>5. c # d => FinishRead(c)' = FinishRead(c)
    BY <1>0, <2>1 DEF FinishRead, IsFrame, Types
  <2> HIDE DEF n, f
  <2>6. CASE c # d \/ f.type # "FINISH"
    <3>1. FinishRead(c)' <=> FinishRead(c)
      <4>1. FinishRead(c) \in BOOLEAN /\ FinishRead(c)' \in BOOLEAN
        BY DEF FinishRead
      <4> HIDE DEF d
      <4> QED BY <2>4, <2>5, <2>6
    <3>2. \A u \in ThreadsOf(c) : (ToDump(u)' <=> ToDump(u)) /\ (Finishing(u)' <=> Finishing(u))
      BY <1>2, <2>1, <2>2, <2>6 DEF ThreadsOf, ToDump, Finishing
    <3> QED BY <1>1, <1>2, <2>1, <2>3, <3>1, <3>2 DEF FinishInvOf
  <2>7. CASE c = d /\ f.type = "FINISH"
    <3>1. /\ rpc'[t] = "finish"
          /\ \A u \in Threads \ {t} : rpc'[u] = rpc[u]
      BY <1>2, <2>2, <2>7
    <3>2. /\ ToDump(t)' /\ Finishing(t)' /\ t \in ThreadsOf(c)
          /\ \A u \in Threads \ {t} : (ToDump(u)' <=> ToDump(u)) /\ (Finishing(u)' <=> Finishing(u))
      BY <2>1, <2>7, <3>1 DEF ToDump, Finishing
    <3>3. FinishRead(c)'
      BY <2>4, <2>7
    <3>4. Once(c, "FINISH") => ~FinishRead(c)
      <4> SUFFICES ASSUME Once(c, "FINISH"), FinishRead(c)
                   PROVE  FALSE
        OBVIOUS
      <4>1. PICK i \in 1 .. nread[c] : IsFrame(c, i, "FINISH")
        BY DEF FinishRead
      <4>2. i # n /\ i \in DOMAIN toClient[c]
        BY <2>3, <2>7, <4>1 DEF n, IsFrame
      <4> QED BY <2>1, <2>7, <4>1, <4>2 DEF Once, IsFrame, f
    <3>5. Once(c, "FINISH") => /\ \A u \in ThreadsOf(c) : ~ToDump(u)
                               /\ \A k \in DOMAIN lats : lats[k].client # c
      BY <1>1, <3>4 DEF FinishInvOf
    <3>6. Once(c, "FINISH") => \A u \in ThreadsOf(c) : ~Finishing(u)
      <4> SUFFICES ASSUME Once(c, "FINISH"), NEW u \in ThreadsOf(c), rpc[u] = "info"
                   PROVE  FALSE
        BY <3>5 DEF Finishing, ToDump
      <4>1. /\ Len(lats) = Len(reqInfo) + 1 /\ u \in Threads /\ ClientOf[u] = c
            /\ lats[Len(lats)].client = ClientOf[u]
        BY <1>0, <2>1 DEF FileInv, ThreadsOf
      <4>2. Len(lats) \in DOMAIN lats
        BY <1>0, <4>1 DEF Types
      <4> QED BY <3>5, <4>1, <4>2
    <3> QED BY <1>1, <1>2, <2>1, <2>3, <3>2, <3>3, <3>5, <3>6 DEF FinishInvOf
  <2> QED BY <2>6, <2>7
<1>7. ASSUME NEW t \in Threads, BeginStats(t)
      PROVE  FinishInvOf(c)'
  <2>1. /\ rpc[t] = "finish" /\ rpc' = [rpc EXCEPT ![t] = "stats"] /\ lats' = lats
    BY <1>7, BeginEffect
  <2>2. \A u \in Threads : (ToDump(u)' <=> ToDump(u)) /\ (Finishing(u)' => Finishing(u))
    BY <1>2, <2>1 DEF ToDump, Finishing
  <2> QED BY <1>3, <1>4, <1>7, <2>1, <2>2
<1>8. ASSUME NEW t \in Threads, EndStats(t)
      PROVE  FinishInvOf(c)'
  <2> DEFINE d == ClientOf[t]
  <2>1. /\ rpc[t] = "stats" /\ rpc' = [rpc EXCEPT ![t] = "info"]
        /\ t \in ThreadsOf(d) /\ d \in Clients
    BY <1>8, EndStatsEffect DEF ThreadsOf
  <2>2. PICK x \in Dumps(t) : lats' = Append(lats, x)
    BY <1>8, EndStatsEffect
  <2>3. x \in Dumped /\ x.client = d
    BY DumpsType
  <2>4. /\ Len(lats) \in Nat /\ DOMAIN lats = 1 .. Len(lats)
        /\ DOMAIN lats' = 1 .. Len(lats) + 1 /\ lats'[Len(lats) + 1] = x
        /\ \A k \in 1 .. Len(lats) : lats'[k] = lats[k]
    <3>1. Append(lats, x) \in Seq(Dumped) /\ Len(Append(lats, x)) = Len(lats) + 1
      BY <1>2, <2>3, AppendProperties
    <3> QED BY <1>2, <2>2, <2>3, <3>1, AppendProperties, LenProperties
  <2>5. /\ ToDump(t) /\ Finishing(t) /\ ~ToDump(t)'
        /\ \A u \in Threads : Finishing(u)' <=> Finishing(u)
        /\ \A u \in Threads \ {t} : ToDump(u)' <=> ToDump(u)
    BY <1>2, <2>1 DEF ToDump, Finishing
  <2>6. FinishRead(c)' <=> FinishRead(c)
    BY <1>4, <1>8
  <2>7. Once(c, "FINISH")' <=> Once(c, "FINISH")
    BY <1>4, <1>8
  <2>8. \A k \in DOMAIN lats' : \/ k \in DOMAIN lats /\ lats'[k] = lats[k]
                                \/ k = Len(lats) + 1 /\ lats'[k].client = d
    <3>1. \A k \in DOMAIN lats' : k \in 1 .. Len(lats) \/ k = Len(lats) + 1
      BY <2>4
    <3>2. lats'[Len(lats) + 1].client = d
      BY <2>3, <2>4
    <3> HIDE DEF d
    <3> QED BY <2>4, <3>1, <3>2
  <2>9. \A k \in DOMAIN lats : k \in DOMAIN lats' /\ lats'[k] = lats[k]
    BY <2>4
  <2>10. CASE c # d
    <3>1. \A u \in ThreadsOf(c) : u \in Threads \ {t}
      BY <2>1, <2>10 DEF ThreadsOf
    <3>2. \A k \in DOMAIN lats' : lats'[k].client = c => k \in DOMAIN lats /\ lats'[k] = lats[k]
      BY <2>8, <2>10
    <3> QED BY <1>1, <1>2, <2>5, <2>6, <2>7, <2>9, <3>1, <3>2 DEF FinishInvOf
  <2>11. CASE c = d
    <3>1. FinishRead(c) /\ t \in ThreadsOf(c)
      BY <1>1, <2>1, <2>5, <2>11 DEF FinishInvOf
    <3>2. Len(lats) + 1 \in DOMAIN lats' /\ lats'[Len(lats) + 1].client = c
      BY <2>3, <2>4, <2>11
    <3>3. Once(c, "FINISH") => /\ \A k \in DOMAIN lats : lats[k].client # c
                               /\ \A u \in ThreadsOf(c) : Finishing(u) => u = t
      BY <1>1, <2>5, <3>1 DEF FinishInvOf
    <3>4. \A u \in ThreadsOf(c) : ToDump(u)' => Finishing(u) /\ u # t
      BY <1>2, <2>5 DEF ToDump, Finishing
    <3>5. Once(c, "FINISH") => \A k \in DOMAIN lats' : lats'[k].client = c => k = Len(lats) + 1
      BY <2>8, <3>3
    <3> QED BY <1>2, <2>5, <2>6, <2>7, <3>1, <3>2, <3>3, <3>4, <3>5 DEF FinishInvOf
  <2> QED BY <2>10, <2>11
<1>9. ASSUME NEW t \in Threads, EndInfo(t)
      PROVE  FinishInvOf(c)'
  <2>1. /\ rpc[t] = "info" /\ lats' = lats
        /\ rpc' = rpc \/ rpc' = [rpc EXCEPT ![t] = "recv"]
    BY <1>9, EndInfoEffect
  <2>2. \A u \in Threads : (ToDump(u)' <=> ToDump(u)) /\ (Finishing(u)' => Finishing(u))
    BY <1>2, <2>1 DEF ToDump, Finishing
  <2> QED BY <1>3, <1>4, <1>9, <2>1, <2>2
<1> QED BY <1>5, <1>6, <1>7, <1>8, <1>9, DumpSteps

-----------------------------------------------------------------------------
(* A client with one receiver                                              *)

\* What one more frame adds to the measured responses.
LEMMA MeasuredNext ==
  ASSUME Types, NEW c \in Clients, NEW n \in DOMAIN toClient[c]
  PROVE  MeasuredTo(c, n) = MeasuredTo(c, n - 1) \cup
           (IF /\ IsFrame(c, n, "RESPONSE")
               /\ \E k \in 1 .. n - 1 : IsFrame(c, k, "ROI_BEGIN")
            THEN {toClient[c][n].id} ELSE {})
<1> DEFINE In(j) == /\ IsFrame(c, j, "RESPONSE")
                    /\ \E k \in 1 .. j : IsFrame(c, k, "ROI_BEGIN")
<1>1. n \in Nat \ {0}
  BY DEF Types
<1>2. 1 .. n = (1 .. n - 1) \cup {n}
  BY <1>1
<1>3. In(n) <=> /\ IsFrame(c, n, "RESPONSE")
                /\ \E k \in 1 .. n - 1 : IsFrame(c, k, "ROI_BEGIN")
  <2>1. IsFrame(c, n, "RESPONSE") => ~IsFrame(c, n, "ROI_BEGIN")
    BY DEF IsFrame
  <2> QED BY <1>2, <2>1
<1>4. MeasuredTo(c, n) = {toClient[c][i].id : i \in {j \in 1 .. n : In(j)}}
  BY DEF MeasuredTo
<1>5. MeasuredTo(c, n - 1) = {toClient[c][i].id : i \in {j \in 1 .. n - 1 : In(j)}}
  BY DEF MeasuredTo
<1> HIDE DEF In
<1>6. CASE In(n)
  <2>1. {j \in 1 .. n : In(j)} = {j \in 1 .. n - 1 : In(j)} \cup {n}
    BY <1>2, <1>6
  <2>2. MeasuredTo(c, n) = MeasuredTo(c, n - 1) \cup {toClient[c][n].id}
    BY <1>4, <1>5, <2>1
  <2> QED BY <1>3, <1>6, <2>2
<1>7. CASE ~In(n)
  <2>1. {j \in 1 .. n : In(j)} = {j \in 1 .. n - 1 : In(j)}
    BY <1>2, <1>7
  <2>2. MeasuredTo(c, n) = MeasuredTo(c, n - 1)
    BY <1>4, <1>5, <2>1
  <2> QED BY <1>3, <1>7, <2>2
<1> QED BY <1>6, <1>7

\* Steps that leave the frames that were read.
ReadKept(c) ==
  /\ nread'[c] = nread[c]
  /\ \A n \in 0 .. nread[c] : MeasuredTo(c, n)' = MeasuredTo(c, n)
  /\ \A i \in 1 .. nread[c] :
       /\ toClient'[c][i] = toClient[c][i]
       /\ \A type : IsFrame(c, i, type)' = IsFrame(c, i, type)

LEMMA StreamKept ==
  ASSUME Types, NEW c \in Clients, toClient' = toClient
  PROVE  /\ \A n : MeasuredTo(c, n)' = MeasuredTo(c, n)
         /\ \A i : \A type : IsFrame(c, i, type)' = IsFrame(c, i, type)
         /\ nread'[c] = nread[c] => ReadKept(c)
<1>1. \A i : \A type : IsFrame(c, i, type)' = IsFrame(c, i, type)
  BY DEF IsFrame
<1>2. \A n : MeasuredTo(c, n)' = MeasuredTo(c, n)
  BY DEF MeasuredTo, IsFrame
<1> QED BY <1>1, <1>2 DEF ReadKept

\* The receiver has the frames it read and has not handled, and no others.
LEMMA SoloKept ==
  ASSUME NetInv, NEW t \in Threads, ThreadsOf(ClientOf[t]) = {t},
         ReadKept(ClientOf[t]),
         samples'[ClientOf[t]] = samples[ClientOf[t]],
         status'[ClientOf[t]] = "ROI" <=> status[ClientOf[t]] = "ROI",
         Unhandled(t)' <=> Unhandled(t),
         rpc'[t] = "startroi" => rpc[t] = "startroi",
         Unhandled(t)' => resp'[t] = resp[t],
         Finishing(t)' => Finishing(t),
         Dumping(t)' /\ proc' # "exited" => size'[t] = samples[ClientOf[t]],
         \A k \in DOMAIN lats' : lats'[k].client = ClientOf[t] =>
           \/ k \in DOMAIN lats /\ lats'[k] = lats[k]
           \/ \E n \in 1 .. nread[ClientOf[t]] :
                /\ IsFrame(ClientOf[t], n, "FINISH")
                /\ lats'[k] = [client |-> ClientOf[t], ids |-> MeasuredTo(ClientOf[t], n), intact |-> TRUE]
  PROVE  SoloInvOf(ClientOf[t], t)'
<1> DEFINE c == ClientOf[t]
<1>1. SoloInvOf(c, t)
  BY DEF NetInv, SoloInv
<1>2. c \in Clients /\ nread[c] \in Nat /\ nread'[c] = nread[c]
  BY DEF NetInv, Types, ReadKept
<1>3. PICK m \in Nat : m = nread[c]
  BY <1>2
<1>4. PICK h \in Nat : h = HandledTo(c, t)
  BY <1>1, <1>2 DEF HandledTo, SoloInvOf
<1>5. h \in 0 .. m /\ (Unhandled(t) => m \in 1 .. m)
  BY <1>1, <1>2, <1>3, <1>4 DEF HandledTo, SoloInvOf
<1>6. nread'[c] = m /\ HandledTo(c, t)' = h
  BY <1>2, <1>3, <1>4 DEF HandledTo
<1>7. /\ \A n \in 0 .. m : MeasuredTo(c, n)' = MeasuredTo(c, n)
      /\ \A j \in 1 .. m :
           /\ toClient'[c][j] = toClient[c][j]
           /\ \A type : IsFrame(c, j, type)' = IsFrame(c, j, type)
  BY <1>3 DEF ReadKept
<1>8. /\ samples[c] = MeasuredTo(c, h)
      /\ status[c] = "ROI" <=> \E j \in 1 .. h : IsFrame(c, j, "ROI_BEGIN")
      /\ Unhandled(t) => toClient[c][m] = resp[t]
      /\ rpc[t] = "startroi" => IsFrame(c, m, "ROI_BEGIN")
      /\ Finishing(t) => IsFrame(c, m, "FINISH")
      /\ \A k \in DOMAIN lats : lats[k].client = c =>
           \E n \in 1 .. m :
             /\ IsFrame(c, n, "FINISH")
             /\ lats[k] = [client |-> c, ids |-> MeasuredTo(c, n), intact |-> TRUE]
  BY <1>1, <1>3, <1>4 DEF SoloInvOf
<1> SUFFICES /\ samples'[c] = MeasuredTo(c, h)'
             /\ status'[c] = "ROI" <=> \E j \in 1 .. h : IsFrame(c, j, "ROI_BEGIN")'
             /\ Unhandled(t)' => m > 0 /\ toClient'[c][m] = resp'[t]
             /\ rpc'[t] = "startroi" => IsFrame(c, m, "ROI_BEGIN")'
             /\ Finishing(t)' => IsFrame(c, m, "FINISH")'
             /\ Dumping(t)' /\ proc' # "exited" => size'[t] = samples'[c]
             /\ \A k \in DOMAIN lats' : lats'[k].client = c =>
                  \E n \in 1 .. m :
                    /\ IsFrame(c, n, "FINISH")'
                    /\ lats'[k] = [client |-> c, ids |-> MeasuredTo(c, n)', intact |-> TRUE]
  BY <1>6 DEF SoloInvOf, MeasuredTo, IsFrame
<1> HIDE DEF c
<1>9. samples'[c] = MeasuredTo(c, h)'
  BY <1>5, <1>7, <1>8 DEF c
<1>10. status'[c] = "ROI" <=> \E j \in 1 .. h : IsFrame(c, j, "ROI_BEGIN")'
  <2>1. \A j \in 1 .. h : j \in 1 .. m
    BY <1>5
  <2> QED BY <1>7, <1>8, <2>1 DEF c
<1>11. /\ Unhandled(t)' => m > 0 /\ toClient'[c][m] = resp'[t]
       /\ rpc'[t] = "startroi" => IsFrame(c, m, "ROI_BEGIN")'
  <2>1. rpc[t] = "startroi" => Unhandled(t)
    BY DEF Unhandled
  <2> QED BY <1>5, <1>7, <1>8, <2>1
<1>12. Finishing(t)' => IsFrame(c, m, "FINISH")'
  <2>1. IsFrame(c, m, "FINISH") => m \in 1 .. m
    BY <1>2 DEF IsFrame, NetInv, Types
  <2> QED BY <1>7, <1>8, <2>1
<1>13. \A k \in DOMAIN lats' : lats'[k].client = c =>
         \E n \in 1 .. m :
           /\ IsFrame(c, n, "FINISH")'
           /\ lats'[k] = [client |-> c, ids |-> MeasuredTo(c, n)', intact |-> TRUE]
  <2>1. \A n \in 1 .. m : n \in 0 .. m
    OBVIOUS
  <2>2. SUFFICES ASSUME NEW k \in DOMAIN lats', lats'[k].client = c
                 PROVE  \E n \in 1 .. m :
                          /\ IsFrame(c, n, "FINISH")
                          /\ lats'[k] = [client |-> c, ids |-> MeasuredTo(c, n), intact |-> TRUE]
    BY <1>7, <2>1
  <2> QED BY <1>3, <1>8, <2>2 DEF c
<1> QED BY <1>9, <1>10, <1>11, <1>12, <1>13 DEF c

\* Steps of others.
NotMine(t) ==
  LET c == ClientOf[t]
  IN /\ rpc'[t] = rpc[t] /\ resp'[t] = resp[t] /\ size'[t] = size[t]
     /\ nread'[c] = nread[c] /\ samples'[c] = samples[c]
     /\ status'[c] = "ROI" <=> status[c] = "ROI"
     /\ proc = "exited" => proc' = "exited"
     /\ \A k \in DOMAIN lats' : lats'[k].client = c =>
          k \in DOMAIN lats /\ lats'[k] = lats[k]

LEMMA NotMineKept ==
  ASSUME NetInv, NEW t \in Threads, ThreadsOf(ClientOf[t]) = {t},
         ReadKept(ClientOf[t]), NotMine(t)
  PROVE  SoloInvOf(ClientOf[t], t)'
<1>1. SoloInvOf(ClientOf[t], t)
  BY DEF NetInv, SoloInv
<1>2. Dumping(t)' /\ proc' # "exited" => size'[t] = samples[ClientOf[t]]
  BY <1>1 DEF SoloInvOf, NotMine, Dumping
<1> QED BY <1>2, SoloKept DEF NotMine, Finishing, Unhandled

LEMMA NotMineSteps ==
  ASSUME NetInv, NEW t \in Threads, ThreadsOf(ClientOf[t]) = {t},
         NEW u \in Threads, u # t,
         \/ Recv(u) \/ RecvFail(u) \/ GoOn(u) \/ HandleResponse(u)
         \/ HandleRoiBegin(u) \/ Publish(u) \/ CountRoi(u) \/ BeginStats(u)
         \/ EndStats(u) \/ EndInfo(u) \/ DumpFault(u)
  PROVE  toClient' = toClient /\ NotMine(t)
<1> DEFINE c == ClientOf[t]
           d == ClientOf[u]
<1>1. c # d /\ c \in Clients /\ d \in Clients
  BY DEF ThreadsOf
<1>2. Types
  BY DEF NetInv
<1>3. /\ rpc \in [Threads -> {"recv", "fini", "push", "tids", "startroi",
                              "publish", "count", "finish", "stats", "info", "end"}]
      /\ DOMAIN resp = Threads /\ DOMAIN size = Threads /\ DOMAIN nread = Clients
      /\ lats \in Seq(Dumped)
  BY <1>2 DEF Types
<1>4. proc = "running" => DOMAIN samples = Clients /\ DOMAIN status = Clients
  BY DEF NetInv, ClientOK, ClientTypeOK
<1> HIDE DEF c, d
<1>5. CASE Recv(u)
  <2>1. /\ nread' = [nread EXCEPT ![d] = nread[d] + 1] /\ UNCHANGED <<vars, toClient, dumpVars>>
        /\ resp' = [resp EXCEPT ![u] = toClient[d][nread[d] + 1]]
    BY <1>5, RecvEffect DEF netVars, d
  <2>2. \/ rpc' = [rpc EXCEPT ![u] = "fini"] \/ rpc' = [rpc EXCEPT ![u] = "startroi"]
        \/ rpc' = [rpc EXCEPT ![u] = "finish"]
    BY <1>5, RecvEffect
  <2> QED BY <1>1, <1>3, <2>1, <2>2 DEF NotMine, vars, clientVars, dumpVars, c
<1>6. CASE RecvFail(u) \/ Publish(u) \/ CountRoi(u) \/ DumpFault(u)
  <2>1. /\ UNCHANGED <<toClient, nread, status, samples, lats, size>>
        /\ proc = "running" /\ resp'[t] = resp[t] /\ rpc'[t] = rpc[t]
    BY <1>3, <1>6 DEF RecvFail, Publish, PublishReady, CountRoi, DumpFault, RecvAt, RecvGoto,
               vars, clientVars, netVars, recvVars, dumpVars
  <2> QED BY <2>1 DEF NotMine
<1>12. CASE GoOn(u)
  <2>1. /\ UNCHANGED <<vars, toClient, nread, dumpVars>>
        /\ rpc' = [rpc EXCEPT ![u] = "push"] \/ rpc' = [rpc EXCEPT ![u] = "recv"]
        /\ resp' = resp \/ resp' = [resp EXCEPT ![u] = NoFrame]
    BY <1>12, GoOnEffect DEF netVars
  <2> QED BY <1>1, <1>3, <2>1 DEF NotMine, vars, clientVars, dumpVars, c
<1>7. CASE HandleResponse(u)
  <2>1. /\ proc = "running" /\ UNCHANGED <<proc, status, toClient, nread, dumpVars>>
        /\ samples' = [samples EXCEPT ![d] =
                 IF status[d] = "ROI" THEN samples[d] \cup {resp[u].id} ELSE samples[d]]
        /\ resp' = [resp EXCEPT ![u] = NoFrame] \/ resp' = resp
        /\ rpc' = [rpc EXCEPT ![u] = "recv"] \/ rpc' = [rpc EXCEPT ![u] = "tids"]
    BY <1>7, ResponseEffect DEF netVars, d
  <2> QED BY <1>1, <1>3, <1>4, <2>1 DEF NotMine, dumpVars, c
<1>8. CASE HandleRoiBegin(u)
  <2>1. /\ proc = "running" /\ UNCHANGED <<toClient, nread, resp, dumpVars>>
        /\ \/ /\ status' = [status EXCEPT ![d] = "ROI"]
              /\ samples' = [samples EXCEPT ![d] = {}]
              /\ rpc' = [rpc EXCEPT ![u] = "publish"]
           \/ UNCHANGED <<status, samples, rpc>>
    BY <1>8, RoiEffect DEF netVars, d
  <2> QED BY <1>1, <1>3, <1>4, <2>1 DEF NotMine, dumpVars, c
<1>9. CASE BeginStats(u)
  <2>1. /\ proc = "running" /\ UNCHANGED <<vars, toClient, nread, resp, lats>>
        /\ size' = [size EXCEPT ![u] = samples[d]]
        /\ rpc' = [rpc EXCEPT ![u] = "stats"]
    BY <1>9, BeginEffect DEF netVars, d
  <2> QED BY <1>1, <1>3, <2>1 DEF NotMine, vars, clientVars, c
<1>10. CASE EndStats(u)
  <2>1. /\ proc = "running" /\ UNCHANGED <<vars, toClient, nread, resp>>
        /\ size' = [size EXCEPT ![u] = StartTimes(d)]
        /\ rpc' = [rpc EXCEPT ![u] = "info"]
    BY <1>10, EndStatsEffect DEF netVars, d
  <2>2. PICK x \in Dumps(u) : lats' = Append(lats, x)
    BY <1>10, EndStatsEffect
  <2>3. x \in Dumped /\ x.client = d
    BY DumpsType DEF d
  <2>4. /\ Len(lats) \in Nat /\ DOMAIN lats = 1 .. Len(lats)
        /\ DOMAIN lats' = 1 .. Len(lats) + 1 /\ lats'[Len(lats) + 1] = x
        /\ \A k \in 1 .. Len(lats) : lats'[k] = lats[k]
    <3>1. Append(lats, x) \in Seq(Dumped) /\ Len(Append(lats, x)) = Len(lats) + 1
      BY <1>3, <2>3, AppendProperties
    <3> QED BY <1>3, <2>2, <2>3, <3>1, AppendProperties, LenProperties
  <2>5. ASSUME NEW k \in DOMAIN lats', lats'[k].client = c
        PROVE  k \in DOMAIN lats /\ lats'[k] = lats[k]
    <3>1. k \in 1 .. Len(lats) \/ k = Len(lats) + 1
      BY <2>4
    <3> QED BY <1>1, <2>3, <2>4, <2>5, <3>1
  <2> QED BY <1>1, <1>3, <2>1, <2>5 DEF NotMine, vars, clientVars, c
<1>11. CASE EndInfo(u)
  <2>1. /\ proc = "running" /\ UNCHANGED <<clientVars, toClient, nread, lats>>
        /\ size' = [size EXCEPT ![u] = {}]
        /\ rpc' = rpc \/ rpc' = [rpc EXCEPT ![u] = "recv"]
        /\ resp' = resp \/ resp' = [resp EXCEPT ![u] = NoFrame]
    BY <1>11, EndInfoEffect DEF netVars
  <2> QED BY <1>1, <1>3, <2>1 DEF NotMine, clientVars, c
<1> QED BY <1>5, <1>6, <1>7, <1>8, <1>9, <1>10, <1>11, <1>12

\* The frame that is read waits to be handled, except FINISH, which measures
\* nothing.
LEMMA SoloRecv ==
  ASSUME NetInv, NEW t \in Threads, ThreadsOf(ClientOf[t]) = {t}, Recv(t)
  PROVE  SoloInvOf(ClientOf[t], t)'
<1> DEFINE c == ClientOf[t]
           f == toClient[c][nread[c] + 1]
<1>0. Types /\ c \in Clients /\ nread[c] \in Nat
  BY DEF NetInv, Types
<1>1. SoloInvOf(c, t)
  BY DEF NetInv, SoloInv
<1>2. PICK m \in Nat : m = nread[c]
  BY <1>0
<1>3. /\ rpc[t] = "recv" /\ m + 1 \in DOMAIN toClient[c]
      /\ nread' = [nread EXCEPT ![c] = m + 1]
      /\ resp' = [resp EXCEPT ![t] = f]
      /\ UNCHANGED <<toClient, proc, samples, status, size, lats>>
      /\ f = toClient[c][m + 1]
  BY <1>2, RecvEffect DEF vars, clientVars, netVars, dumpVars
<1>4. \/ rpc' = [rpc EXCEPT ![t] = "fini"] /\ f.type = "RESPONSE"
      \/ rpc' = [rpc EXCEPT ![t] = "startroi"] /\ f.type = "ROI_BEGIN"
      \/ rpc' = [rpc EXCEPT ![t] = "finish"] /\ f.type = "FINISH"
  BY RecvEffect
<1>5. nread'[c] = m + 1 /\ resp'[t] = f /\ HandledTo(c, t) = m
  BY <1>0, <1>2, <1>3 DEF Types, HandledTo, Unhandled
<1>6. /\ samples[c] = MeasuredTo(c, m)
      /\ status[c] = "ROI" <=> \E j \in 1 .. m : IsFrame(c, j, "ROI_BEGIN")
      /\ \A k \in DOMAIN lats : lats[k].client = c =>
           \E n \in 1 .. m :
             /\ IsFrame(c, n, "FINISH")
             /\ lats[k] = [client |-> c, ids |-> MeasuredTo(c, n), intact |-> TRUE]
  BY <1>1, <1>2, <1>5 DEF SoloInvOf
<1>7. /\ \A n : MeasuredTo(c, n)' = MeasuredTo(c, n)
      /\ \A j : \A type : IsFrame(c, j, type)' = IsFrame(c, j, type)
  BY <1>0, <1>3, StreamKept
<1>8. \A type : IsFrame(c, m + 1, type) <=> f.type = type
  BY <1>3 DEF IsFrame
<1>9. \A k \in DOMAIN lats' : lats'[k].client = c =>
        \E n \in 1 .. m + 1 :
          /\ IsFrame(c, n, "FINISH")'
          /\ lats'[k] = [client |-> c, ids |-> MeasuredTo(c, n)', intact |-> TRUE]
  <2>1. \A n \in 1 .. m : n \in 1 .. m + 1
    BY <1>2
  <2> QED BY <1>3, <1>6, <1>7, <2>1
<1> HIDE DEF c, f
<1>10. CASE f.type \in {"RESPONSE", "ROI_BEGIN"}
  <2>1. /\ rpc'[t] \in {"fini", "startroi"} /\ (rpc'[t] = "startroi" => f.type = "ROI_BEGIN")
    BY <1>0, <1>4, <1>10 DEF Types
  <2>2. HandledTo(c, t)' = m
    BY <1>2, <1>5, <2>1 DEF HandledTo, Unhandled
  <2>3. samples'[c] = MeasuredTo(c, HandledTo(c, t))'
    BY <1>3, <1>6, <1>7, <2>2 DEF MeasuredTo, IsFrame
  <2>4. ~Finishing(t)' /\ ~Dumping(t)'
    BY <2>1 DEF Finishing, Dumping
  <2>5. status'[c] = "ROI" <=> \E j \in 1 .. HandledTo(c, t)' : IsFrame(c, j, "ROI_BEGIN")'
    BY <1>3, <1>6, <1>7, <2>2
  <2>6. rpc'[t] = "startroi" => IsFrame(c, m + 1, "ROI_BEGIN")'
    BY <1>7, <1>8, <2>1
  <2>7. nread'[c] > 0 /\ toClient'[c][nread'[c]] = resp'[t]
    BY <1>2, <1>3, <1>5
  <2>8. rpc'[t] = "startroi" => IsFrame(c, nread[c], "ROI_BEGIN")'
    BY <1>5, <2>6 DEF IsFrame
  <2>9. \A k \in DOMAIN lats' : lats'[k].client = c =>
          \E n \in 1 .. nread'[c] :
            /\ IsFrame(c, n, "FINISH")'
            /\ lats'[k] = [client |-> c, ids |-> MeasuredTo(c, n)', intact |-> TRUE]
    BY <1>5, <1>9
  <2> QED BY <2>3, <2>4, <2>5, <2>7, <2>8, <2>9 DEF SoloInvOf, c
<1>11. CASE f.type = "FINISH"
  <2>1. rpc'[t] = "finish"
    BY <1>0, <1>4, <1>11 DEF Types
  <2>2. HandledTo(c, t)' = m + 1
    BY <1>5, <2>1 DEF HandledTo, Unhandled
  <2>3. MeasuredTo(c, m + 1) = MeasuredTo(c, m)
    <3>1. ~IsFrame(c, m + 1, "RESPONSE")
      BY <1>8, <1>11
    <3>2. c \in Clients
      BY <1>0
    <3> DEFINE n == m + 1
    <3>3. n \in DOMAIN toClient[c] /\ n - 1 = m
      BY <1>2, <1>3
    <3> HIDE DEF n
    <3>4. MeasuredTo(c, n) = MeasuredTo(c, n - 1) \cup
            (IF /\ IsFrame(c, n, "RESPONSE")
                /\ \E k \in 1 .. n - 1 : IsFrame(c, k, "ROI_BEGIN")
             THEN {toClient[c][n].id} ELSE {})
      BY <1>0, <3>2, <3>3, MeasuredNext
    <3>5. ~IsFrame(c, n, "RESPONSE")
      BY <3>1 DEF n
    <3> QED BY <3>3, <3>4, <3>5 DEF n
  <2>4. samples'[c] = MeasuredTo(c, HandledTo(c, t))'
    <3>1. samples'[c] = MeasuredTo(c, m + 1)'
      BY <1>3, <1>6, <1>7, <2>3
    <3> QED BY <2>2, <3>1 DEF MeasuredTo, IsFrame
  <2>5. status'[c] = "ROI" <=> \E j \in 1 .. HandledTo(c, t)' : IsFrame(c, j, "ROI_BEGIN")'
    <3>1. ~IsFrame(c, m + 1, "ROI_BEGIN") /\ 1 .. m + 1 = (1 .. m) \cup {m + 1}
      BY <1>2, <1>8, <1>11
    <3> QED BY <1>3, <1>6, <1>7, <2>2, <3>1
  <2>6. IsFrame(c, nread[c], "FINISH")'
    BY <1>3, <1>5, <1>7, <1>8, <1>11 DEF IsFrame
  <2>7. ~Dumping(t)' /\ ~Unhandled(t)' /\ rpc'[t] # "startroi"
    BY <2>1 DEF Dumping, Unhandled
  <2>9. \A k \in DOMAIN lats' : lats'[k].client = c =>
          \E n \in 1 .. nread'[c] :
            /\ IsFrame(c, n, "FINISH")'
            /\ lats'[k] = [client |-> c, ids |-> MeasuredTo(c, n)', intact |-> TRUE]
    BY <1>5, <1>9
  <2> QED BY <2>4, <2>5, <2>6, <2>7, <2>9 DEF SoloInvOf, c
<1> QED BY <1>4, <1>10, <1>11

\* The frame that is handled is the last that was read.
LEMMA SoloHandles ==
  ASSUME NetInv, NEW t \in Threads, ThreadsOf(ClientOf[t]) = {t},
         HandleResponse(t) \/ HandleRoiBegin(t)
  PROVE  SoloInvOf(ClientOf[t], t)'
<1> DEFINE c == ClientOf[t]
<1>0. Types /\ c \in Clients /\ nread[c] \in Nat
  BY DEF NetInv, Types
<1>1. SoloInvOf(c, t)
  BY DEF NetInv, SoloInv
<1>2. PICK m \in Nat : m = nread[c]
  BY <1>0
<1>3. /\ Unhandled(t) /\ proc = "running"
      /\ UNCHANGED <<toClient, nread, size, lats>>
  BY ResponseEffect, RoiEffect DEF netVars, dumpVars, Holding, Unhandled
<1>4. /\ m > 0 /\ toClient[c][m] = resp[t] /\ HandledTo(c, t) = m - 1
      /\ samples[c] = MeasuredTo(c, m - 1)
      /\ status[c] = "ROI" <=> \E j \in 1 .. m - 1 : IsFrame(c, j, "ROI_BEGIN")
      /\ \A k \in DOMAIN lats : lats[k].client = c =>
           \E n \in 1 .. m :
             /\ IsFrame(c, n, "FINISH")
             /\ lats[k] = [client |-> c, ids |-> MeasuredTo(c, n), intact |-> TRUE]
  BY <1>1, <1>2, <1>3 DEF SoloInvOf, HandledTo
<1>5. /\ \A n : MeasuredTo(c, n)' = MeasuredTo(c, n)
      /\ \A j : \A type : IsFrame(c, j, type)' = IsFrame(c, j, type)
  BY <1>0, <1>3, StreamKept
<1>6. m \in DOMAIN toClient[c]
  BY <1>0, <1>2, <1>4 DEF NetInv, StreamInv, StreamInvOf, Types
<1>7. DOMAIN status = Clients /\ samples \in [Clients -> SUBSET Nat]
  BY <1>3 DEF NetInv, ClientOK, ClientTypeOK
<1>8. 1 .. m = (1 .. m - 1) \cup {m}
  BY <1>4
<1>9. MeasuredTo(c, m) = MeasuredTo(c, m - 1) \cup
           (IF /\ IsFrame(c, m, "RESPONSE")
               /\ \E k \in 1 .. m - 1 : IsFrame(c, k, "ROI_BEGIN")
            THEN {toClient[c][m].id} ELSE {})
  BY <1>0, <1>6, MeasuredNext
<1>10. \A k \in DOMAIN lats' : lats'[k].client = c =>
         \E n \in 1 .. nread'[c] :
           /\ IsFrame(c, n, "FINISH")'
           /\ lats'[k] = [client |-> c, ids |-> MeasuredTo(c, n)', intact |-> TRUE]
  BY <1>2, <1>3, <1>4, <1>5
<1>11. ASSUME rpc'[t] \in {"recv", "tids", "publish"},
              samples'[c] = MeasuredTo(c, m),
              status'[c] = "ROI" <=> \E j \in 1 .. m : IsFrame(c, j, "ROI_BEGIN")
       PROVE  SoloInvOf(c, t)'
  <2>1. HandledTo(c, t)' = m /\ nread'[c] = m
    BY <1>2, <1>3, <1>11 DEF HandledTo, Unhandled
  <2>2. samples'[c] = MeasuredTo(c, HandledTo(c, t))'
    BY <1>5, <1>11, <2>1 DEF MeasuredTo, IsFrame
  <2>3. status'[c] = "ROI" <=> \E j \in 1 .. HandledTo(c, t)' : IsFrame(c, j, "ROI_BEGIN")'
    BY <1>5, <1>11, <2>1
  <2> QED BY <1>10, <1>11, <2>2, <2>3 DEF SoloInvOf, Finishing, Dumping, Unhandled
<1> HIDE DEF c
<1>12. CASE HandleResponse(t)
  <2>1. /\ Holding(t) /\ status' = status
        /\ rpc' = [rpc EXCEPT ![t] = "recv"] \/ rpc' = [rpc EXCEPT ![t] = "tids"]
        /\ samples' = [samples EXCEPT ![c] =
             IF status[c] = "ROI" THEN samples[c] \cup {resp[t].id} ELSE samples[c]]
    BY <1>12, ResponseEffect DEF c
  <2>2. resp[t].type = "RESPONSE"
    BY <2>1 DEF NetInv, HeldInv
  <2>3. IsFrame(c, m, "RESPONSE") /\ ~IsFrame(c, m, "ROI_BEGIN")
    BY <1>4, <1>6, <2>2 DEF IsFrame
  <2>4. rpc'[t] \in {"recv", "tids"}
    BY <1>0, <2>1 DEF Types
  <2>5. status'[c] = "ROI" <=> \E j \in 1 .. m : IsFrame(c, j, "ROI_BEGIN")
    BY <1>4, <1>8, <2>1, <2>3
  <2>6. samples'[c] = IF status[c] = "ROI" THEN samples[c] \cup {toClient[c][m].id} ELSE samples[c]
    BY <1>0, <1>4, <1>7, <2>1
  <2>7. samples'[c] = MeasuredTo(c, m)
    BY <1>4, <1>9, <2>3, <2>6
  <2> QED BY <1>11, <2>4, <2>5, <2>7 DEF c
<1>13. CASE HandleRoiBegin(t)
  <2>1. /\ rpc[t] = "startroi" /\ resp' = resp
        /\ \/ /\ status[c] = "WARMUP" /\ proc' = "running"
              /\ status' = [status EXCEPT ![c] = "ROI"]
              /\ samples' = [samples EXCEPT ![c] = {}]
              /\ rpc' = [rpc EXCEPT ![t] = "publish"]
           \/ /\ status[c] # "WARMUP" /\ proc' = "aborted"
              /\ UNCHANGED <<status, samples, rpc>>
    BY <1>13, RoiEffect DEF c
  <2>2. IsFrame(c, m, "ROI_BEGIN") /\ ~IsFrame(c, m, "RESPONSE")
    BY <1>1, <1>2, <2>1 DEF SoloInvOf, IsFrame, c
  <2>3. CASE UNCHANGED <<status, samples, rpc>>
    <3>1. ReadKept(c)
      BY <1>0, <1>3, StreamKept
    <3>2. NotMine(t)
      BY <1>3, <2>1, <2>3 DEF NotMine, c
    <3> QED BY <3>1, <3>2, NotMineKept DEF c
  <2>4. CASE /\ status[c] = "WARMUP" /\ status' = [status EXCEPT ![c] = "ROI"]
             /\ samples' = [samples EXCEPT ![c] = {}]
             /\ rpc' = [rpc EXCEPT ![t] = "publish"]
    <3>1. rpc'[t] = "publish" /\ status'[c] = "ROI" /\ samples'[c] = {}
      BY <1>0, <1>7, <2>4 DEF Types
    <3>2. samples[c] = {}
      BY <1>0, <2>4 DEF NetInv, SampleInv
    <3>3. samples'[c] = MeasuredTo(c, m)
      BY <1>4, <1>9, <2>2, <3>1, <3>2
    <3>4. \E j \in 1 .. m : IsFrame(c, j, "ROI_BEGIN")
      BY <1>8, <2>2
    <3> QED BY <1>11, <3>1, <3>3, <3>4 DEF c
  <2> QED BY <2>1, <2>3, <2>4
<1> QED BY <1>12, <1>13

\* The dump of a client with one receiver: nothing is handled in between.
LEMMA SoloRest ==
  ASSUME NetInv, NEW t \in Threads, ThreadsOf(ClientOf[t]) = {t},
         \/ RecvFail(t) \/ GoOn(t) \/ Publish(t) \/ CountRoi(t) \/ BeginStats(t)
         \/ EndStats(t) \/ EndInfo(t) \/ DumpFault(t)
  PROVE  SoloInvOf(ClientOf[t], t)'
<1> DEFINE c == ClientOf[t]
<1>0. Types /\ c \in Clients /\ nread[c] \in Nat
  BY DEF NetInv, Types
<1>1. SoloInvOf(c, t)
  BY DEF NetInv, SoloInv
<1>2. Quiet
  BY QuietSteps
<1>3. ReadKept(c) /\ samples'[c] = samples[c] /\ status'[c] = status[c]
  BY <1>0, <1>2, StreamKept DEF Quiet
<1>4. /\ rpc \in [Threads -> {"recv", "fini", "push", "tids", "startroi",
                              "publish", "count", "finish", "stats", "info", "end"}]
      /\ size \in [Threads -> SUBSET Nat] /\ lats \in Seq(Dumped)
  BY <1>0 DEF Types
<1>5. CASE RecvFail(t) \/ Publish(t) \/ CountRoi(t)
  <2>1. rpc'[t] \in {"end", "count", "recv"} /\ rpc[t] \in {"recv", "publish", "count"}
    BY <1>4, <1>5 DEF RecvFail, Publish, CountRoi, RecvAt, RecvGoto
  <2>2. lats' = lats
    BY <1>5 DEF RecvFail, Publish, CountRoi, dumpVars
  <2> QED BY <1>3, <2>1, <2>2, SoloKept DEF Unhandled, Finishing, Dumping
<1>10. CASE GoOn(t)
  <2>1. /\ lats' = lats
        /\ \/ rpc[t] = "fini" /\ rpc' = [rpc EXCEPT ![t] = "push"] /\ resp' = resp
           \/ rpc[t] = "tids" /\ rpc' = [rpc EXCEPT ![t] = "recv"]
    BY <1>10, GoOnEffect DEF dumpVars
  <2>2. \/ rpc[t] = "fini" /\ rpc'[t] = "push" /\ resp' = resp
        \/ rpc[t] = "tids" /\ rpc'[t] = "recv"
    BY <1>4, <2>1
  <2> QED BY <1>3, <2>1, <2>2, SoloKept DEF Unhandled, Finishing, Dumping
<1>6. CASE DumpFault(t)
  <2>1. UNCHANGED <<rpc, resp, size, lats>> /\ proc = "running"
    BY <1>6 DEF DumpFault, RecvAt, recvVars, dumpVars
  <2>2. NotMine(t)
    BY <1>3, <2>1 DEF NotMine, ReadKept
  <2> QED BY <1>3, <2>2, NotMineKept
<1>7. CASE BeginStats(t)
  <2>1. /\ rpc[t] = "finish" /\ rpc' = [rpc EXCEPT ![t] = "stats"]
        /\ size' = [size EXCEPT ![t] = samples[c]] /\ lats' = lats
    BY <1>7, BeginEffect
  <2>2. rpc'[t] = "stats" /\ size'[t] = samples[c]
    BY <1>4, <2>1
  <2> QED BY <1>3, <2>1, <2>2, SoloKept DEF Unhandled, Finishing
<1>8. CASE EndStats(t)
  <2>1. /\ proc = "running" /\ rpc[t] = "stats" /\ rpc' = [rpc EXCEPT ![t] = "info"]
        /\ size' = [size EXCEPT ![t] = StartTimes(c)]
    BY <1>8, EndStatsEffect
  <2>2. rpc'[t] = "info" /\ size'[t] = samples[c]
    BY <1>4, <2>1, SoloVectors
  <2>3. size[t] = samples[c] /\ ~MayFault(t)
    BY <1>1, <2>1 DEF SoloInvOf, Dumping, NetInv, TornInv, MayFault, Counts, SjrnTimes
  <2>4. PICK x \in Dumps(t) : lats' = Append(lats, x)
    BY <1>8, EndStatsEffect
  <2>5. x \in Dumped /\ x = [client |-> c, ids |-> size[t], intact |-> TRUE]
    BY <2>3, DumpsType
  <2>6. /\ Len(lats) \in Nat /\ DOMAIN lats = 1 .. Len(lats)
        /\ DOMAIN lats' = 1 .. Len(lats) + 1 /\ lats'[Len(lats) + 1] = x
        /\ \A k \in 1 .. Len(lats) : lats'[k] = lats[k]
    <3>1. Append(lats, x) \in Seq(Dumped) /\ Len(Append(lats, x)) = Len(lats) + 1
      BY <1>4, <2>5, AppendProperties
    <3> QED BY <1>4, <2>4, <2>5, <3>1, AppendProperties, LenProperties
  <2>7. PICK m \in Nat : m = nread[c]
    BY <1>0
  <2>8. IsFrame(c, m, "FINISH") /\ samples[c] = MeasuredTo(c, m)
    BY <1>1, <2>1, <2>7 DEF SoloInvOf, Finishing, HandledTo, Unhandled
  <2>9. m \in 1 .. nread[c]
    BY <1>0, <2>7, <2>8 DEF IsFrame, Types
  <2>10. x = [client |-> c, ids |-> MeasuredTo(c, m), intact |-> TRUE]
    BY <2>3, <2>5, <2>8
  <2>11. ASSUME NEW k \in DOMAIN lats', lats'[k].client = c
         PROVE  \/ k \in DOMAIN lats /\ lats'[k] = lats[k]
                \/ \E n \in 1 .. nread[c] :
                     /\ IsFrame(c, n, "FINISH")
                     /\ lats'[k] = [client |-> c, ids |-> MeasuredTo(c, n), intact |-> TRUE]
    <3>1. k \in 1 .. Len(lats) \/ k = Len(lats) + 1
      BY <2>6
    <3> QED BY <2>6, <2>8, <2>9, <2>10, <3>1
  <2> QED BY <1>3, <2>1, <2>2, <2>11, SoloKept DEF Unhandled, Finishing
<1>9. CASE EndInfo(t)
  <2>1. /\ rpc[t] = "info" /\ proc = "running" /\ UNCHANGED <<lats, nread>>
        /\ \/ proc' = "exited" /\ UNCHANGED <<rpc, resp>>
           \/ rpc' = [rpc EXCEPT ![t] = "recv"]
    BY <1>9, EndInfoEffect
  <2>2. CASE proc' = "exited" /\ UNCHANGED <<rpc, resp>>
    BY <1>3, <2>1, <2>2, SoloKept DEF Unhandled, Finishing
  <2>3. CASE rpc' = [rpc EXCEPT ![t] = "recv"]
    <3>1. rpc'[t] = "recv"
      BY <1>4, <2>3
    <3> QED BY <1>3, <2>1, <3>1, SoloKept DEF Unhandled, Finishing, Dumping
  <2> QED BY <2>1, <2>2, <2>3
<1> QED BY <1>5, <1>6, <1>7, <1>8, <1>9, <1>10

LEMMA SoloStep ==
  ASSUME NetInv, [NetClientNext]_netClientVars
  PROVE  SoloInv'
<1> SUFFICES ASSUME NEW t \in Threads, ThreadsOf(ClientOf[t]) = {t}
             PROVE  SoloInvOf(ClientOf[t], t)'
  BY DEF SoloInv, ThreadsOf
<1> DEFINE c == ClientOf[t]
<1>0. Types /\ c \in Clients
  BY DEF NetInv
<1>1. ASSUME toClient' = toClient, NotMine(t)
      PROVE  SoloInvOf(c, t)'
  <2>1. ReadKept(c)
    BY <1>0, <1>1, StreamKept DEF NotMine
  <2> QED BY <1>1, <2>1, NotMineKept
<1>2. UNCHANGED netClientVars \/ MonStart \/ MonSweep \/ Die => toClient' = toClient /\ NotMine(t)
  BY DEF MonStart, MonSweep, Die, NotMine, netClientVars, vars, clientVars, netVars, recvVars,
         dumpVars
<1>3. ASSUME NEW u \in Threads, SenderEffect(u)
      PROVE  SoloInvOf(c, t)'
  BY <1>1, <1>3 DEF SenderEffect, NotMine, recvVars, dumpVars
<1>4. ASSUME NEW u \in Threads,
             \/ Recv(u) \/ RecvFail(u) \/ GoOn(u) \/ HandleResponse(u)
             \/ HandleRoiBegin(u) \/ Publish(u) \/ CountRoi(u) \/ BeginStats(u)
             \/ EndStats(u) \/ EndInfo(u) \/ DumpFault(u)
      PROVE  SoloInvOf(c, t)'
  <2>1. CASE u = t
    BY <1>4, <2>1, SoloRecv, SoloHandles, SoloRest
  <2>2. CASE u # t
    BY <1>1, <1>4, <2>2, NotMineSteps
  <2> QED BY <2>1, <2>2
<1>5. ASSUME NEW d \in Clients, NEW f \in Sent, ServerWrites(d, f)
      PROVE  SoloInvOf(c, t)'
  <2>1. ReadKept(c)
    <3>1. /\ \A n \in 0 .. nread[c] : MeasuredTo(c, n)' = MeasuredTo(c, n)
          /\ \A i \in 1 .. nread[c] : \A type : IsFrame(c, i, type)' = IsFrame(c, i, type)
      BY <1>5, ReadStays
    <3>2. \A i \in 1 .. nread[c] : toClient'[c][i] = toClient[c][i]
      BY <1>5, FramesStay
    <3>3. nread' = nread
      BY <1>5 DEF ServerWrites, recvVars
    <3> QED BY <3>1, <3>2, <3>3 DEF ReadKept
  <2>2. NotMine(t)
    BY <1>5 DEF ServerWrites, NotMine, vars, clientVars, recvVars, dumpVars
  <2> QED BY <2>1, <2>2, NotMineKept
<1> QED BY <1>1, <1>2, <1>3, <1>4, <1>5, NetSteps

\* Its two dumps are of vectors that are the same, and stay.
LEMMA SoloFilesStep ==
  ASSUME NetInv, [NetClientNext]_netClientVars
  PROVE  SoloFiles'
<1> SUFFICES ASSUME NEW t \in Threads, ThreadsOf(ClientOf[t]) = {t}
             PROVE  SoloFilesOf(ClientOf[t], t)'
  BY DEF SoloFiles, ThreadsOf
<1> DEFINE c == ClientOf[t]
<1>0. Types /\ FileInv /\ TornInv
  BY DEF NetInv
<1>1. SoloFilesOf(c, t) /\ SoloInvOf(c, t)
  BY DEF NetInv, SoloFiles, SoloInv
<1>2. /\ lats \in Seq(Dumped) /\ reqInfo \in Seq(Dumped)
      /\ rpc \in [Threads -> {"recv", "fini", "push", "tids", "startroi",
                              "publish", "count", "finish", "stats", "info", "end"}]
      /\ size \in [Threads -> SUBSET Nat]
  BY <1>0 DEF Types
<1>3. /\ DOMAIN lats = 1 .. Len(lats) /\ DOMAIN reqInfo = 1 .. Len(reqInfo)
      /\ Len(lats) \in Nat /\ Len(reqInfo) \in Nat
  BY <1>2, LenProperties
<1>4. \A k \in DOMAIN reqInfo : lats[k].client = c => reqInfo[k] = lats[k]
  BY <1>1 DEF SoloFilesOf
<1> HIDE DEF c
<1>5. CASE Aside
  <2>1. UNCHANGED <<torn, lats, reqInfo, size>>
    BY <1>5 DEF Aside, dumpVars
  <2>2. /\ rpc'[t] = "info" <=> rpc[t] = "info"
        /\ Dumping(t)' <=> Dumping(t)
        /\ proc' = "exited" <=> proc = "exited"
    BY <1>5 DEF Aside, Dumping
  <2> QED BY <1>1, <2>1, <2>2 DEF SoloFilesOf, c
<1>6. ASSUME NEW u \in Threads, BeginStats(u)
      PROVE  SoloFilesOf(c, t)'
  <2>1. /\ rpc[u] = "finish" /\ \A v \in Threads : ~Dumping(v)
        /\ rpc' = [rpc EXCEPT ![u] = "stats"]
        /\ UNCHANGED <<torn, lats, reqInfo>>
    BY <1>6, BeginEffect
  <2>2. t \notin torn /\ rpc'[t] # "info"
    BY <1>0, <1>2, <2>1 DEF TornInv, Dumping
  <2> QED BY <1>4, <2>1, <2>2 DEF SoloFilesOf, c
<1>7. ASSUME NEW u \in Threads, EndStats(u)
      PROVE  SoloFilesOf(c, t)'
  <2>1. /\ proc = "running" /\ rpc[u] = "stats"
        /\ \A v \in Threads \ {u} : ~Dumping(v)
        /\ size' = [size EXCEPT ![u] = StartTimes(ClientOf[u])]
        /\ torn' = IF StartTimes(ClientOf[u]) = Tids(ClientOf[u]) THEN torn
                   ELSE torn \cup {u}
        /\ rpc' = [rpc EXCEPT ![u] = "info"]
        /\ reqInfo' = reqInfo
    BY <1>7, EndStatsEffect
  <2>2. PICK d \in Dumps(u) : lats' = Append(lats, d)
    BY <1>7, EndStatsEffect
  <2>3. d \in Dumped /\ d.ids = size[u]
    BY DumpsType
  <2>4. /\ Len(lats') = Len(lats) + 1 /\ lats'[Len(lats')] = d
        /\ \A k \in 1 .. Len(lats) : lats'[k] = lats[k]
    <3>1. Append(lats, d) \in Seq(Dumped) /\ Len(Append(lats, d)) = Len(lats) + 1
      BY <1>2, <2>3, AppendProperties
    <3> QED BY <1>2, <2>2, <2>3, <3>1, AppendProperties, LenProperties
  <2>5. Len(lats) = Len(reqInfo)
    BY <1>0, <2>1 DEF FileInv
  <2>6. \A k \in DOMAIN reqInfo' : lats'[k].client = c => reqInfo'[k] = lats'[k]
    BY <1>3, <1>4, <2>1, <2>4, <2>5
  <2>7. CASE u = t
    <3>1. t \notin torn
      BY <1>0, <2>1, <2>7 DEF TornInv
    <3>2. /\ StartTimes(c) = samples[c] /\ Tids(c) = samples[c]
          /\ size[t] = samples[c]
      BY <1>1, <2>1, <2>7, SoloVectors DEF SoloInvOf, Dumping, c
    <3>3. torn' = torn /\ size'[t] = samples[c]
      BY <1>2, <2>1, <2>7, <3>2 DEF c
    <3>4. lats'[Len(lats')].ids = size'[t]
      BY <2>3, <2>4, <2>7, <3>2, <3>3
    <3> QED BY <2>6, <3>1, <3>3, <3>4 DEF SoloFilesOf, c
  <2>8. CASE u # t
    <3>1. rpc'[t] \notin {"stats", "info"}
      BY <1>2, <2>1, <2>8 DEF Dumping
    <3> QED BY <2>6, <3>1 DEF SoloFilesOf, Dumping, c
  <2> QED BY <2>7, <2>8
<1>8. ASSUME NEW u \in Threads, EndInfo(u)
      PROVE  SoloFilesOf(c, t)'
  <2>1. /\ proc = "running" /\ rpc[u] = "info" /\ lats' = lats
        /\ \/ proc' = "exited"
           \/ rpc' = [rpc EXCEPT ![u] = "recv"]
    BY <1>8, EndInfoEffect
  <2>2. PICK d \in Dumps(u) : reqInfo' = Append(reqInfo, d)
    BY <1>8, EndInfoEffect
  <2>3. d \in Dumped
    BY DumpsType
  <2>4. /\ DOMAIN reqInfo' = 1 .. Len(reqInfo) + 1
        /\ reqInfo'[Len(reqInfo) + 1] = d
        /\ \A k \in 1 .. Len(reqInfo) : reqInfo'[k] = reqInfo[k]
    <3>1. Append(reqInfo, d) \in Seq(Dumped) /\ Len(Append(reqInfo, d)) = Len(reqInfo) + 1
      BY <1>2, <2>3, AppendProperties
    <3> QED BY <1>2, <2>2, <2>3, <3>1, AppendProperties, LenProperties
  <2>5. /\ Len(lats) = Len(reqInfo) + 1 /\ lats[Len(lats)].client = ClientOf[u]
        /\ liveLock = u /\ \A v \in Threads \ {u} : ~Dumping(v)
    BY <1>0, <2>1 DEF FileInv, Dumping
  <2>6. ASSUME lats[Len(lats)].client = c
        PROVE  d = lats[Len(lats)]
    <3>1. u = t
      BY <2>5, <2>6 DEF ThreadsOf, c
    <3>2. /\ t \notin torn /\ lats[Len(lats)].ids = size[t] /\ size[t] = samples[c]
      BY <1>1, <2>1, <3>1 DEF SoloFilesOf, SoloInvOf, Dumping, c
    <3>3. StartTimes(c) = samples[c]
      BY <2>1, <3>1, SoloVectors DEF c
    <3>4. ~MayFault(t)
      BY <2>1, <3>1, <3>2, <3>3 DEF MayFault, Counts, c
    <3>5. d = [client |-> c, ids |-> size[t], intact |-> TRUE]
      BY <3>1, <3>4, DumpsType DEF c
    <3>6. Len(lats) \in DOMAIN lats
      BY <1>3, <2>5
    <3>7. PICK n \in 1 .. nread[c] :
            lats[Len(lats)] = [client |-> c, ids |-> MeasuredTo(c, n), intact |-> TRUE]
      BY <1>1, <2>6, <3>6 DEF SoloInvOf
    <3>8. MeasuredTo(c, n) = size[t]
      BY <3>2, <3>7
    <3> QED BY <3>5, <3>7, <3>8
  <2>7. ASSUME NEW k \in DOMAIN reqInfo', lats'[k].client = c
        PROVE  reqInfo'[k] = lats'[k]
    <3>1. k \in 1 .. Len(reqInfo) \/ k = Len(reqInfo) + 1
      BY <1>3, <2>4
    <3>2. CASE k \in 1 .. Len(reqInfo)
      BY <1>3, <1>4, <2>1, <2>4, <2>7, <3>2
    <3>3. CASE k = Len(reqInfo) + 1
      BY <2>1, <2>4, <2>5, <2>6, <2>7, <3>3
    <3> QED BY <3>1, <3>2, <3>3
  <2>8. proc' = "exited" \/ rpc'[t] \notin {"stats", "info"}
    <3>1. CASE rpc' = [rpc EXCEPT ![u] = "recv"]
      BY <1>2, <2>5, <3>1 DEF Dumping
    <3> QED BY <2>1, <3>1
  <2> QED BY <2>7, <2>8 DEF SoloFilesOf, Dumping, c
<1> QED BY <1>5, <1>6, <1>7, <1>8, DumpSteps DEF c

-----------------------------------------------------------------------------
(* Assertions                                                              *)

LEMMA AnnouncedIsFinite ==
  ASSUME Types, NEW c \in Clients, NEW type
  PROVE  /\ IsFiniteSet({i \in DOMAIN toClient[c] : toClient[c][i].type = type})
         /\ Announced(c, type) \in Nat
<1>1. DOMAIN toClient[c] = 1 .. Len(toClient[c]) /\ Len(toClient[c]) \in Nat
  BY DEF Types
<1>2. IsFiniteSet(DOMAIN toClient[c])
  <2>1. \A n \in Nat : IsFiniteSet(1 .. n)
    BY FS_Interval
  <2>2. IsFiniteSet(1 .. Len(toClient[c]))
    BY <1>1, <2>1
  <2> QED BY <1>1, <2>2, Zenon
<1> QED BY <1>2, FS_Subset, FS_CardinalityType DEF Announced

\* A count of one is one frame.
LEMMA AnnouncedOnce ==
  ASSUME Types, NEW c \in Clients, NEW type, Announced(c, type) <= 1
  PROVE  Once(c, type)
<1> DEFINE S == {i \in DOMAIN toClient[c] : toClient[c][i].type = type}
<1>1. IsFiniteSet(S) /\ Cardinality(S) <= 1 /\ Cardinality(S) \in Nat
  BY AnnouncedIsFinite DEF Announced
<1>2. SUFFICES ASSUME NEW i \in S, NEW j \in S
               PROVE  i = j
  BY DEF Once, IsFrame
<1>3. Cardinality(S) = 1
  <2>1. Cardinality(S) # 0
    BY <1>1, <1>2, FS_EmptySet
  <2> QED BY <1>1, <2>1
<1> HIDE DEF S
<1>4. \E x : S = {x}
  BY <1>1, <1>3, FS_Singleton
<1> QED BY <1>2, <1>4

LEMMA AbortStep ==
  ASSUME NetInv, [NetClientNext]_netClientVars
  PROVE  AbortInv'
<1>0. Types /\ Types' /\ AbortInv
  BY TypesStep DEF NetInv
<1> SUFFICES ASSUME proc' = "aborted"
             PROVE  (\E t \in Threads : LET c == ClientOf[t]
                       IN /\ rpc[t] = "startroi"
                          /\ Announced(c, "ROI_BEGIN") > 1 \/ asked[c] = {})'
  BY DEF AbortInv, AbortsOnlyByRoiBegin
<1>1. CASE proc # "aborted"
  <2>1. PICK t \in Threads : HandleRoiBegin(t)
    <3>1. ASSUME NEW t \in Threads, SenderEffect(t) \/ Recv(t) \/ RecvFail(t) \/ HandleResponse(t) \/ GoOn(t)
                   \/ Publish(t) \/ CountRoi(t) \/ BeginStats(t) \/ EndStats(t) \/ EndInfo(t) \/ DumpFault(t)
          PROVE  FALSE
      <4>1. CASE SenderEffect(t) \/ Recv(t) \/ HandleResponse(t) \/ GoOn(t) \/ BeginStats(t) \/ EndStats(t) \/ EndInfo(t)
        <5>1. proc' = proc \/ proc' \in {"running", "sigpipe", "exited"}
          BY <4>1, RecvEffect, ResponseEffect, GoOnEffect, BeginEffect, EndStatsEffect, EndInfoEffect
             DEF SenderEffect, vars
        <5> QED BY <1>1, <5>1
      <4>2. CASE RecvFail(t) \/ Publish(t) \/ CountRoi(t) \/ DumpFault(t)
        BY <1>1, <4>2 DEF RecvFail, Publish, PublishReady, CountRoi, DumpFault, vars
      <4> QED BY <3>1, <4>1, <4>2
    <3>2. UNCHANGED netClientVars \/ MonStart \/ MonSweep \/ Die => proc' = proc
      BY DEF netClientVars, MonStart, MonSweep, Die, vars
    <3>3. ASSUME NEW d \in Clients, NEW f \in Sent, ServerWrites(d, f)
          PROVE  proc' = proc
      BY <3>3 DEF ServerWrites, vars
    <3> QED BY <1>1, <3>1, <3>2, <3>3, NetSteps
  <2> DEFINE c == ClientOf[t]
  <2>2. /\ rpc[t] = "startroi" /\ status[c] # "WARMUP" /\ proc = "running"
        /\ UNCHANGED <<rpc, asked, toClient>> /\ t \in ThreadsOf(c) /\ c \in Clients
    BY <2>1, RoiEffect DEF netVars, ThreadsOf
  <2>3. Announced(c, "ROI_BEGIN")' = Announced(c, "ROI_BEGIN")
    BY <2>2 DEF Announced
  <2>4. CASE status[c] = "ROI"
    <3>1. ~Once(c, "ROI_BEGIN")
      BY <2>2, <2>4 DEF NetInv, RoiInv, RoiInvOf
    <3>2. Announced(c, "ROI_BEGIN") > 1
      <4>1. Announced(c, "ROI_BEGIN") \in Nat
        BY <1>0, <2>2, AnnouncedIsFinite
      <4>2. ~(Announced(c, "ROI_BEGIN") <= 1)
        BY <1>0, <2>2, <3>1, AnnouncedOnce
      <4> QED BY <4>1, <4>2
    <3> QED BY <2>2, <2>3, <3>2
  <2>5. CASE status[c] # "ROI"
    <3>1. status[c] = "INIT" /\ startedReqs[c] \in Nat
      BY <2>2, <2>5 DEF NetInv, ClientOK, ClientTypeOK
    <3>2. startedReqs[c] = 0
      BY <2>2, <3>1, PassedIsFinite DEF NetInv, ClientOK, StartInv, StartInvOf
    <3>3. asked[c] \subseteq IdsBelow(c, 0)
      BY <2>2, <3>2 DEF NetInv, StreamInv, StreamInvOf
    <3>4. asked[c] = {}
      BY <3>3 DEF IdsBelow
    <3> QED BY <2>2, <3>4
  <2> QED BY <2>4, <2>5
<1>2. CASE proc = "aborted"
  <2>1. PICK t \in Threads : /\ rpc[t] = "startroi"
                             /\ Announced(ClientOf[t], "ROI_BEGIN") > 1 \/ asked[ClientOf[t]] = {}
    BY <1>0, <1>2 DEF AbortInv, AbortsOnlyByRoiBegin
  <2> DEFINE c == ClientOf[t]
  <2>2. ASSUME UNCHANGED <<rpc, asked, toClient>>
        PROVE  \E u \in Threads :
                 (/\ rpc[u] = "startroi"
                  /\ Announced(ClientOf[u], "ROI_BEGIN") > 1 \/ asked[ClientOf[u]] = {})'
    BY <2>1, <2>2 DEF Announced
  <2>3. ASSUME NEW d \in Clients, NEW f \in Sent, ServerWrites(d, f)
        PROVE  \E u \in Threads :
                 (/\ rpc[u] = "startroi"
                  /\ Announced(ClientOf[u], "ROI_BEGIN") > 1 \/ asked[ClientOf[u]] = {})'
    <3>1. UNCHANGED <<rpc, asked>>
      BY <2>3 DEF ServerWrites, recvVars
    <3>2. {i \in DOMAIN toClient[c] : toClient[c][i].type = "ROI_BEGIN"} \subseteq
            {i \in DOMAIN toClient'[c] : toClient'[c][i].type = "ROI_BEGIN"}
      BY <2>3, FramesStay
    <3>3. IsFiniteSet({i \in DOMAIN toClient'[c] : toClient'[c][i].type = "ROI_BEGIN"})
      <4>1. DOMAIN toClient'[c] = 1 .. Len(toClient'[c]) /\ Len(toClient'[c]) \in Nat
        BY <1>0, <2>3, FramesStay, LenProperties DEF Types
      <4>2. \A n \in Nat : IsFiniteSet(1 .. n)
        BY FS_Interval
      <4>3. IsFiniteSet(1 .. Len(toClient'[c]))
        BY <4>1, <4>2
      <4>4. IsFiniteSet(DOMAIN toClient'[c])
        BY <4>1, <4>3, Zenon
      <4> QED BY <4>4, FS_Subset
    <3>4. Announced(c, "ROI_BEGIN") <= Announced(c, "ROI_BEGIN")'
      BY <3>2, <3>3, FS_Subset DEF Announced
    <3>5. Announced(c, "ROI_BEGIN") \in Nat /\ Announced(c, "ROI_BEGIN")' \in Nat
      <4>1. Announced(c, "ROI_BEGIN") \in Nat
        BY <1>0, AnnouncedIsFinite
      <4>2. Announced(c, "ROI_BEGIN")' \in Nat
        BY <3>3, FS_CardinalityType DEF Announced
      <4> QED BY <4>1, <4>2
    <3> QED BY <2>1, <3>1, <3>4, <3>5
  <2>4. \/ UNCHANGED <<rpc, asked, toClient>>
        \/ \E d \in Clients : \E f \in Sent : ServerWrites(d, f)
    <3>1. ASSUME NEW u \in Threads,
                   SenderEffect(u) \/ Recv(u) \/ RecvFail(u) \/ HandleResponse(u) \/ HandleRoiBegin(u)
                   \/ GoOn(u) \/ Publish(u) \/ CountRoi(u) \/ BeginStats(u) \/ EndStats(u) \/ EndInfo(u) \/ DumpFault(u)
          PROVE  proc = "running"
      BY <3>1 DEF SenderEffect, Recv, RecvFail, HandleResponse, PushSjrn, SkipResponse,
                  GoOn, PushStart, PushTids, HandleRoiBegin, Publish, CountRoi,
                  BeginStats, EndStats, EndInfo, DumpFault, RecvAt
    <3>2. UNCHANGED netClientVars \/ Die => UNCHANGED <<rpc, asked, toClient>>
      BY DEF netClientVars, netVars, recvVars, Die
    <3>3. MonStart \/ MonSweep => proc = "running"
      BY DEF MonStart, MonSweep
    <3> QED BY <1>2, <3>1, <3>2, <3>3, NetSteps
  <2> QED BY <2>2, <2>3, <2>4
<1> QED BY <1>1, <1>2

-----------------------------------------------------------------------------
(* The invariant                                                           *)

LEMMA NetInit == NetClientInit => NetInv
<1> SUFFICES ASSUME NetClientInit
             PROVE  NetInv
  OBVIOUS
<1>1. /\ ClientInit /\ gone = FALSE /\ sendDone = {}
      /\ asked = [c \in Clients |-> {}] /\ toClient = [c \in Clients |-> <<>>]
      /\ nread = [c \in Clients |-> 0] /\ recvLeaked = [c \in Clients |-> FALSE]
      /\ rpc = [t \in Threads |-> "recv"] /\ resp = [t \in Threads |-> NoFrame]
      /\ size = [t \in Threads |-> {}] /\ torn = {}
      /\ liveClients = NClients /\ liveLock = NoThread
      /\ lats = <<>> /\ reqInfo = <<>>
      /\ tmpSjrnTimes = [c \in Clients |-> {}] /\ numStartRoi = 0
      /\ mon = [at |-> "wait", next |-> 0, requests |-> 0]
      /\ shown = [c \in Clients |-> {}]
  BY DEF NetClientInit, Server!Init
<1>2. /\ status = [c \in Clients |-> "INIT"] /\ startedReqs = [c \in Clients |-> 0]
      /\ inFlightReqs = [c \in Clients |-> {}] /\ samples = [c \in Clients |-> {}]
      /\ owed = [t \in Threads |-> {}] /\ proc = "running"
  BY <1>1 DEF ClientInit
<1>3. ClientOK
  <2>1. ClientTypeOK /\ StartInv /\ GateInv
    BY <1>1 DEF ClientInit, ClientTypeOK, PC, StartInv, StartInvOf, ThreadsOf, Mid, GateInv
  <2>2. IdInv
    BY <1>1, MaxStartedAssumption DEF ClientInit, IdInv, Holds
  <2> QED BY <2>1, <2>2 DEF ClientOK
<1>4. Types
  <2>1. NoFrame \in Frames /\ 0 \in Clients
    BY NClientsAssumption DEF NoFrame, Frames, Clients
  <2>2. <<>> \in Seq(Sent) /\ <<>> \in Seq(Dumped)
    BY EmptySeq
  <2>3. /\ asked \in [Clients -> SUBSET Nat] /\ toClient \in [Clients -> Seq(Sent)]
        /\ gone \in BOOLEAN /\ sendDone \subseteq Threads
        /\ nread \in [Clients -> Nat] /\ recvLeaked \in [Clients -> BOOLEAN]
    BY <1>1, <2>2
  <2>4. /\ rpc \in [Threads -> {"recv", "fini", "push", "tids", "startroi",
                                "publish", "count", "finish", "stats", "info", "end"}]
        /\ resp \in [Threads -> Frames] /\ size \in [Threads -> SUBSET Nat]
        /\ torn \subseteq Threads
    BY <1>1, <2>1
  <2>5. /\ liveClients \in Int /\ lats \in Seq(Dumped) /\ reqInfo \in Seq(Dumped)
        /\ liveLock \in Threads \cup {NoThread}
    BY <1>1, <2>2, NClientsAssumption
  <2>6. /\ tmpSjrnTimes \in [Clients -> SUBSET Nat] /\ numStartRoi \in Nat
        /\ mon \in [at : {"wait", "sweep", "stopped"}, next : Clients, requests : Nat]
        /\ shown \in [Clients -> SUBSET Nat]
    BY <1>1, <2>1
  <2> QED BY <1>2, <2>3, <2>4, <2>5, <2>6 DEF Types
<1>5. \A c \in Clients : /\ toClient[c] = <<>> /\ nread[c] = 0 /\ DOMAIN toClient[c] = {}
                         /\ Len(toClient[c]) = 0
  BY <1>1
<1>6. \A c \in Clients : ReadOn(c) = {} /\ HeldOn(c) = {} /\ Handled(c) = {}
  BY <1>1, <1>5 DEF ReadOn, HeldOn, HeldBy, ThreadsOf, Handled
<1>7. StreamInv
  BY <1>1, <1>5 DEF StreamInv, StreamInvOf
<1>8. HeldInv
  BY <1>1 DEF HeldInv, Holding
<1>9. AnswerInv /\ SampleInv
  BY <1>1, <1>2, <1>6 DEF AnswerInv, SampleInv
<1>10. RoiInv
  BY <1>1, <1>2, <1>5 DEF RoiInv, RoiInvOf, RoiRead, InRoi, ThreadsOf
<1>11. MonInv
  <2>1. RoiClients = {}
    BY <1>2 DEF RoiClients
  <2>2. MonitorAccounts
    BY <1>1, <1>2 DEF MonitorAccounts
  <2> QED BY <1>1, <2>1, <2>2, FS_EmptySet DEF MonInv
<1>12. EarlyInv
  BY <1>2 DEF EarlyInv
<1>13. FinishInv
  BY <1>1, <1>5 DEF FinishInv, FinishInvOf, FinishRead, ToDump, Finishing, ThreadsOf
<1>14. FileInv
  BY <1>1, <1>2, NClientsAssumption, NetClientAssumption DEF FileInv, Dumping
<1>15. SoloInv
  <2> SUFFICES ASSUME NEW t \in Threads
               PROVE  SoloInvOf(ClientOf[t], t)
    BY DEF SoloInv
  <2>1. rpc[t] = "recv" /\ HandledTo(ClientOf[t], t) = 0
    BY <1>1 DEF HandledTo, Unhandled
  <2>2. MeasuredTo(ClientOf[t], 0) = {}
    BY DEF MeasuredTo
  <2> QED BY <1>1, <1>2, <2>1, <2>2 DEF SoloInvOf, Finishing, Dumping, Unhandled
<1>16. InFlightInv
  BY <1>6 DEF InFlightInv
<1>17. AbortInv
  BY <1>2 DEF AbortInv, AbortsOnlyByRoiBegin
<1>18. TornInv /\ SoloFiles
  BY <1>1 DEF TornInv, SoloFiles, SoloFilesOf, Dumping
<1> QED BY <1>3, <1>4, <1>7, <1>8, <1>9, <1>10, <1>11, <1>12, <1>13, <1>14, <1>15, <1>17,
          <1>16, <1>18
        DEF NetInv

LEMMA NetStep == NetInv /\ [NetClientNext]_netClientVars => NetInv'
  BY ClientOKStep, TypesStep, StreamStep, HeldStep, AnswerStep, InFlightStep, SampleStep, RoiStep, MonStep,
     EarlyStep, FinishStep, FileStep, TornStep, SoloStep, SoloFilesStep, AbortStep
     DEF NetInv

LEMMA NetInvariant == NetClientSpec => []NetInv
  BY NetInit, NetStep, PTL DEF NetClientSpec

-----------------------------------------------------------------------------
(* The theorems                                                            *)

\* Types, whatever the server sends, and when; and lock_live_clients is held
\* exactly in the two dumps.
THEOREM NetTypeCorrect == NetClientSpec => []NetClientTypeOK
<1>1. NetInv => NetClientTypeOK
  <2> SUFFICES ASSUME NetInv
               PROVE  NetClientTypeOK
    OBVIOUS
  <2>1. Types /\ FileInv
    BY DEF NetInv
  <2>2. toClient \in [Clients -> Seq(Frames)]
    <3>1. Sent \subseteq Frames
      BY DEF Sent, Frames
    <3>2. ASSUME NEW c \in Clients
          PROVE  toClient[c] \in Seq(Frames)
      BY <2>1, <3>1 DEF Types
    <3> QED BY <2>1, <3>2 DEF Types
  <2>3. proc = "running" => \A t \in Threads : rpc[t] \in {"stats", "info"} <=> liveLock = t
    BY <2>1 DEF FileInv, Dumping
  <2> QED BY <2>1, <2>2, <2>3 DEF Types, NetClientTypeOK
<1> QED BY <1>1, NetInvariant, PTL

\* The monitor counts a latency of the ROI once, and none of the warm-up.
THEOREM MonitorCountsOnce == NetClientSpec => []MonitorAccounts
<1>1. NetInv => MonitorAccounts
  BY DEF NetInv, MonInv
<1> QED BY <1>1, NetInvariant, PTL

\* Against a server that keeps its contract, an assertion of client.cpp fails
\* only on a connection told twice that the ROI begins, or for a client that
\* has not sent anything.
THEOREM AssertionsFailOnlyByRoiBegin == NetClientSpec => []AbortsOnlyByRoiBegin
<1>1. NetInv => AbortsOnlyByRoiBegin
  BY DEF NetInv, AbortInv
<1> QED BY <1>1, NetInvariant, PTL

LEMMA DumpedClient ==
  ASSUME Types, NEW k \in DOMAIN lats
  PROVE  lats[k].client \in Clients
<1>1. lats \in Seq(Dumped)
  BY DEF Types
<1>2. lats[k] \in Dumped
  BY <1>1
<1> QED BY <1>2 DEF Dumped

\* On a connection that made an announcement once, its first frame is the only
\* one.
LEMMA FirstIsOnly ==
  ASSUME Types, NEW c \in Clients, NEW type, Announced(c, type) = 1
  PROVE  /\ IsFrame(c, First(c, type), type)
         /\ \A i : IsFrame(c, i, type) => i = First(c, type)
<1> DEFINE S == {i \in DOMAIN toClient[c] : toClient[c][i].type = type}
<1>1. IsFiniteSet(S) /\ Cardinality(S) = 1
  BY AnnouncedIsFinite DEF Announced
<1>2. \E x : S = {x}
  <2> HIDE DEF S
  <2> QED BY <1>1, FS_Singleton
<1>3. PICK f : S = {f}
  BY <1>2
<1>4. f \in DOMAIN toClient[c] /\ toClient[c][f].type = type
  BY <1>3
<1>5. \A i \in DOMAIN toClient[c] : toClient[c][i].type = type => i = f
  BY <1>3
<1>6. DOMAIN toClient[c] = 1 .. Len(toClient[c]) /\ Len(toClient[c]) \in Nat
  BY DEF Types
<1>7. \A j \in 1 .. f - 1 : toClient[c][j].type # type
  BY <1>4, <1>5, <1>6
<1>8. First(c, type) = f
  BY <1>4, <1>5, <1>7 DEF First
<1> QED BY <1>4, <1>5, <1>8 DEF IsFrame

\* A sample that was read before the announcement of the ROI is an early one.
LEMMA EarlyPlace ==
  ASSUME NetInv, NEW c \in Clients, Announced(c, "ROI_BEGIN") = 1,
         NEW id \in samples[c], Place(c, id) < First(c, "ROI_BEGIN")
  PROVE  id \in Early(c)
<1> DEFINE p == Place(c, id)
           f == First(c, "ROI_BEGIN")
<1>0. Types
  BY DEF NetInv
<1>1. id \in ReadOn(c)
  BY DEF NetInv, SampleInv, Handled
<1>2. PICK i \in 1 .. nread[c] : toClient[c][i].type = "RESPONSE" /\ toClient[c][i].id = id
  BY <1>1 DEF ReadOn
<1>3. /\ DOMAIN toClient[c] = 1 .. Len(toClient[c]) /\ Len(toClient[c]) \in Nat
      /\ nread[c] \in Nat /\ nread[c] <= Len(toClient[c])
  BY <1>0 DEF Types, NetInv, StreamInv, StreamInvOf
<1>4. i \in DOMAIN toClient[c]
  BY <1>3
<1>5. p \in DOMAIN toClient[c] /\ toClient[c][p].type = "RESPONSE" /\ toClient[c][p].id = id
  BY <1>2, <1>4 DEF Place
<1>6. f \in DOMAIN toClient[c] /\ \A k : IsFrame(c, k, "ROI_BEGIN") => k = f
  BY <1>0, FirstIsOnly DEF IsFrame
<1> HIDE DEF p, f
<1>7. p < f
  BY DEF p, f
<1>8. \A k \in 1 .. p : ~IsFrame(c, k, "ROI_BEGIN")
  BY <1>3, <1>5, <1>6, <1>7
<1> QED BY <1>5, <1>8 DEF Early, IsFrame

\* Receivers that share a connection handle what they read, in whatever order,
\* once each; and what a dump has from before the ROI is in other receivers'
\* hands when it begins.
THEOREM ReceiversShareConnection == NetClientSpec => []SharedConnection
<1>1. NetInv => SharedConnection
  <2> SUFFICES ASSUME NetInv
               PROVE  SharedConnection
    OBVIOUS
  <2>1. ASSUME NEW c \in Clients
        PROVE  /\ ReadOn(c) \cap inFlightReqs[c] = UNION {HeldBy(t) : t \in ThreadsOf(c)}
               /\ \A t, u \in ThreadsOf(c) : t # u => HeldBy(t) \cap HeldBy(u) = {}
    <3>1. HeldOn(c) \subseteq ReadOn(c)
      BY DEF NetInv, HeldInv, Holding, HeldOn, HeldBy, ThreadsOf
    <3>2. HeldOn(c) \subseteq inFlightReqs[c] /\ inFlightReqs[c] \cap (ReadOn(c) \ HeldOn(c)) = {}
      BY DEF NetInv, InFlightInv, AnswerInv, Handled
    <3>3. ReadOn(c) \cap inFlightReqs[c] = HeldOn(c)
      BY <3>1, <3>2
    <3>4. \A t, u \in ThreadsOf(c) : t # u => HeldBy(t) \cap HeldBy(u) = {}
      BY DEF NetInv, HeldInv, Holding, HeldBy, ThreadsOf
    <3> QED BY <3>3, <3>4 DEF HeldOn
  <2>2. ASSUME NEW k \in DOMAIN lats, Regular(lats[k].client)
        PROVE  Cardinality({id \in lats[k].ids :
                              Place(lats[k].client, id) < First(lats[k].client, "ROI_BEGIN")})
                 < Cardinality(ThreadsOf(lats[k].client))
    <3> DEFINE c == lats[k].client
               before == {id \in lats[k].ids : Place(c, id) < First(c, "ROI_BEGIN")}
               kept == (samples[c] \cup HeldOn(c)) \cap Early(c)
    <3>1. c \in Clients
      BY DumpedClient DEF NetInv
    <3>2. Types /\ Announced(c, "ROI_BEGIN") = 1
      BY <2>2 DEF NetInv, Regular
    <3>3. lats[k].ids \subseteq samples[c]
      BY DEF NetInv, FileInv
    <3>4. before \subseteq samples[c] \cap Early(c)
      BY <3>1, <3>2, <3>3, EarlyPlace
    <3>5. IsFiniteSet(kept)
      <4>1. samples[c] \cup HeldOn(c) \subseteq ReadOn(c)
        BY <3>1 DEF NetInv, SampleInv, Handled, HeldInv, Holding, HeldOn, HeldBy, ThreadsOf
      <4> QED BY <3>1, <3>2, <4>1, ReadIsFinite, FS_Subset
    <3>6. Cardinality(before) <= Cardinality(kept) /\ IsFiniteSet(before)
      BY <3>4, <3>5, FS_Subset
    <3>7. /\ Cardinality(before) \in Nat /\ Cardinality(kept) \in Nat
          /\ IsFiniteSet(ThreadsOf(c)) /\ Cardinality(ThreadsOf(c)) \in Nat
      BY <3>5, <3>6, FS_CardinalityType, FS_Subset, ThreadsAssumption DEF ThreadsOf
    <3>8. CASE status[c] = "ROI"
      <4>1. Cardinality(kept) < Cardinality(ThreadsOf(c))
        BY <3>1, <3>8 DEF NetInv, EarlyInv
      <4> HIDE DEF c, before, kept
      <4>2. Cardinality(before) < Cardinality(ThreadsOf(c))
        BY <3>6, <3>7, <4>1
      <4> QED BY <4>2 DEF c, before
    <3>9. CASE status[c] # "ROI"
      <4>1. before = {}
        BY <3>1, <3>4, <3>9 DEF NetInv, SampleInv
      <4>2. Cardinality(ThreadsOf(c)) # 0
        BY <3>1, <3>7, FS_EmptySet
      <4> HIDE DEF c, before
      <4>3. Cardinality(before) < Cardinality(ThreadsOf(c))
        BY <3>7, <4>1, <4>2, FS_EmptySet
      <4> QED BY <4>3 DEF c, before
    <3> QED BY <3>8, <3>9
  <2> QED BY <2>1, <2>2 DEF SharedConnection
<1> QED BY <1>1, NetInvariant, PTL

\* What a client with one receiver measures is what the server sent it between
\* the two announcements.
THEOREM DumpsMeasureRoi == NetClientSpec => []DumpMeasuresRoi
<1>1. NetInv => DumpMeasuresRoi
  <2> SUFFICES ASSUME NetInv, NEW k \in DOMAIN lats,
                      Cardinality(ThreadsOf(lats[k].client)) = 1, Regular(lats[k].client)
               PROVE  LET c == lats[k].client
                          roi == {i \in DOMAIN toClient[c] :
                                    /\ toClient[c][i].type = "RESPONSE"
                                    /\ First(c, "ROI_BEGIN") < i /\ i < First(c, "FINISH")}
                      IN lats[k] = [client |-> c, ids |-> {toClient[c][i].id : i \in roi},
                                    intact |-> TRUE]
    BY DEF DumpMeasuresRoi
  <2> DEFINE c == lats[k].client
             b == First(c, "ROI_BEGIN")
             e == First(c, "FINISH")
             roi == {i \in DOMAIN toClient[c] :
                       toClient[c][i].type = "RESPONSE" /\ b < i /\ i < e}
  <2>1. c \in Clients /\ Types
    BY DumpedClient DEF NetInv
  <2>2. \E t : ThreadsOf(c) = {t}
    <3>1. IsFiniteSet(ThreadsOf(c)) /\ Cardinality(ThreadsOf(c)) = 1
      BY FS_Subset, ThreadsAssumption DEF ThreadsOf
    <3> HIDE DEF c
    <3> QED BY <3>1, FS_Singleton
  <2>3. PICK t : ThreadsOf(c) = {t}
    BY <2>2
  <2>4. t \in Threads /\ ClientOf[t] = c
    BY <2>3 DEF ThreadsOf
  <2>5. SoloInvOf(c, t)
    BY <2>3, <2>4 DEF NetInv, SoloInv
  <2>6. PICK n \in 1 .. nread[c] :
          /\ IsFrame(c, n, "FINISH")
          /\ lats[k] = [client |-> c, ids |-> MeasuredTo(c, n), intact |-> TRUE]
    BY <2>5 DEF SoloInvOf
  <2>7. n = e
    BY <2>1, <2>6, FirstIsOnly DEF Regular
  <2>8. IsFrame(c, b, "ROI_BEGIN") /\ \A i : IsFrame(c, i, "ROI_BEGIN") => i = b
    BY <2>1, FirstIsOnly DEF Regular
  <2>9. /\ DOMAIN toClient[c] = 1 .. Len(toClient[c]) /\ Len(toClient[c]) \in Nat
        /\ n \in DOMAIN toClient[c]
    BY <2>1, <2>6 DEF Types, IsFrame
  <2> HIDE DEF b, e
  <2>10. b \in DOMAIN toClient[c] /\ toClient[c][b].type = "ROI_BEGIN" /\ toClient[c][n].type = "FINISH"
    BY <2>6, <2>8 DEF IsFrame
  <2>11. {j \in 1 .. n : /\ IsFrame(c, j, "RESPONSE")
                         /\ \E i \in 1 .. j : IsFrame(c, i, "ROI_BEGIN")} = roi
    <3>1. ASSUME NEW j \in 1 .. n, IsFrame(c, j, "RESPONSE"),
                 NEW i \in 1 .. j, IsFrame(c, i, "ROI_BEGIN")
          PROVE  j \in roi
      <4>1. i = b /\ j # b /\ j # n
        BY <2>8, <2>10, <3>1 DEF IsFrame
      <4> QED BY <2>7, <2>9, <3>1, <4>1 DEF IsFrame
    <3>2. ASSUME NEW j \in roi
          PROVE  j \in 1 .. n /\ IsFrame(c, j, "RESPONSE") /\ b \in 1 .. j
      BY <2>7, <2>9, <2>10, <3>2 DEF IsFrame
    <3> QED BY <2>8, <3>1, <3>2
  <2>12. MeasuredTo(c, n) = {toClient[c][i].id : i \in roi}
    BY <2>11 DEF MeasuredTo
  <2> QED BY <2>6, <2>12 DEF b, e
<1> QED BY <1>1, NetInvariant, PTL

\* The first file is at most one dump ahead.
LEMMA FilesLength ==
  ASSUME NetInv
  PROVE  /\ Len(lats) \in Nat /\ Len(reqInfo) \in Nat
         /\ Len(reqInfo) <= Len(lats)
<1>0. Types /\ FileInv
  BY DEF NetInv
<1>1. Len(lats) \in Nat /\ Len(reqInfo) \in Nat
  BY <1>0 DEF Types
<1>2. CASE proc = "exited"
  BY <1>0, <1>1, <1>2 DEF FileInv
<1>3. CASE proc # "exited" /\ liveLock = NoThread
  BY <1>0, <1>1, <1>3 DEF FileInv
<1>4. CASE proc # "exited" /\ liveLock # NoThread
  <2>1. PICK t \in Threads : liveLock = t
    BY <1>0, <1>4 DEF Types
  <2>2. rpc[t] = "stats" \/ rpc[t] = "info"
    BY <1>0, <1>4, <2>1 DEF FileInv, Dumping
  <2>3. Len(lats) = Len(reqInfo) \/ Len(lats) = Len(reqInfo) + 1
    BY <1>0, <1>4, <2>2 DEF FileInv
  <2> QED BY <1>1, <2>3
<1> QED BY <1>1, <1>2, <1>3, <1>4

\* The first file has a dump of every client whose second it has, of the same
\* one; a client with one receiver has the same dump in both, of its own memory;
\* and the process exits with both complete.
THEOREM FilesAreComplete == NetClientSpec => []FilesComplete
<1>1. NetInv => FilesComplete
  <2> SUFFICES ASSUME NetInv
               PROVE  FilesComplete
    OBVIOUS
  <2>0. Types /\ FileInv
    BY DEF NetInv
  <2>1. Len(lats) \in Nat /\ Len(reqInfo) \in Nat
    BY FilesLength
  <2>2. Len(reqInfo) <= Len(lats)
    BY FilesLength
  <2>3. \A k \in DOMAIN reqInfo : /\ lats[k].client = reqInfo[k].client
                                  /\ lats[k].ids \subseteq reqInfo[k].ids
    BY <2>0 DEF FileInv
  <2>5. ASSUME NEW k \in DOMAIN reqInfo, Cardinality(ThreadsOf(lats[k].client)) = 1
        PROVE  lats[k].intact /\ reqInfo[k] = lats[k]
    <3> DEFINE c == lats[k].client
    <3>1. k \in DOMAIN lats
      BY <2>0, <2>1, <2>2 DEF Types
    <3>2. c \in Clients
      BY <2>0, <3>1, DumpedClient
    <3>3. \E t : ThreadsOf(c) = {t}
      <4>1. IsFiniteSet(ThreadsOf(c)) /\ Cardinality(ThreadsOf(c)) = 1
        BY <2>5, FS_Subset, ThreadsAssumption DEF ThreadsOf
      <4> HIDE DEF c
      <4> QED BY <4>1, FS_Singleton
    <3>4. PICK t : ThreadsOf(c) = {t}
      BY <3>3
    <3>5. t \in Threads /\ ClientOf[t] = c
      BY <3>4 DEF ThreadsOf
    <3>6. SoloInvOf(c, t) /\ SoloFilesOf(c, t)
      BY <3>4, <3>5 DEF NetInv, SoloInv, SoloFiles
    <3>7. reqInfo[k] = lats[k]
      BY <3>6 DEF SoloFilesOf
    <3>8. \E n \in 1 .. nread[c] :
            lats[k] = [client |-> c, ids |-> MeasuredTo(c, n), intact |-> TRUE]
      BY <3>1, <3>6 DEF SoloInvOf
    <3>9. lats[k].intact
      BY <3>8
    <3> QED BY <3>7, <3>9
  <2>4. ASSUME proc = "exited", \A c \in Clients : Announced(c, "FINISH") <= 1
        PROVE  \A file \in {lats, reqInfo} :
                 Len(file) = NClients /\ {file[k].client : k \in DOMAIN file} = Clients
    <3> DEFINE f == [k \in 1 .. NClients |-> lats[k].client]
               who == {lats[k].client : k \in 1 .. NClients}
    <3>1. Len(lats) = NClients /\ Len(reqInfo) = NClients
      BY <2>0, <2>4 DEF FileInv
    <3>2. DOMAIN lats = 1 .. NClients /\ DOMAIN reqInfo = 1 .. NClients
      BY <2>0, <3>1 DEF Types
    <3>3. \A k \in 1 .. NClients : lats[k].client \in Clients
      BY <2>0, <3>2, DumpedClient
    <3>4. \A k, l \in 1 .. NClients : lats[k].client = lats[l].client => k = l
      <4>1. \A c \in Clients : Once(c, "FINISH")
        BY <2>0, <2>4, AnnouncedOnce
      <4> QED BY <3>2, <3>3, <4>1 DEF NetInv, FinishInv, FinishInvOf
    <3>5. f \in Injection(1 .. NClients, Clients)
      BY <3>3, <3>4 DEF Injection, IsInjective
    <3>6. /\ IsFiniteSet(Clients) /\ Cardinality(Clients) = NClients
          /\ Cardinality(1 .. NClients) = NClients
      BY NClientsAssumption, FS_Interval DEF Clients
    <3>7. f \in Surjection(1 .. NClients, Clients)
      <4> HIDE DEF f
      <4> QED BY <3>5, <3>6, FS_Injection
    <3>8. who = Clients
      BY <3>3, <3>7 DEF Surjection
    <3>9. {reqInfo[k].client : k \in 1 .. NClients} = who
      BY <2>3, <3>2
    <3> QED BY <3>1, <3>2, <3>8, <3>9
  <2> QED BY <2>2, <2>3, <2>4, <2>5 DEF FilesComplete
<1> QED BY <1>1, NetInvariant, PTL

\* Whatever other receivers append while one dumps: each latency in the first
\* file has its request's times in the second; and a dump of latencies that
\* lost no response of its client was not damaged.
THEOREM FilesOfSharedConnectionsAgree == NetClientSpec => []FilesAgree
<1>1. NetInv => FilesAgree
  <2> SUFFICES ASSUME NetInv, NEW k \in DOMAIN reqInfo
               PROVE  /\ lats[k].client = reqInfo[k].client
                      /\ lats[k].ids \subseteq reqInfo[k].ids
                      /\ lats[k].ids = samples[lats[k].client] => lats[k].intact
    BY DEF FilesAgree
  <2>1. Types /\ FileInv /\ TornInv
    BY DEF NetInv
  <2>2. Len(lats) \in Nat /\ Len(reqInfo) \in Nat /\ Len(reqInfo) <= Len(lats)
    BY FilesLength
  <2>3. k \in DOMAIN lats
    BY <2>1, <2>2 DEF Types
  <2> QED BY <2>1, <2>3 DEF FileInv, TornInv
<1> QED BY <1>1, NetInvariant, PTL

-----------------------------------------------------------------------------
(* Nobody waits for ever                                                   *)

\* What keeps a run going while the process runs: a barrier never holds all of
\* its threads; who waits for the ROI has sent the warm-up's share; who has to
\* publish the ROI is a receiver; and while the server lives, what was
\* allocated was asked, or is about to be.
WaitInv ==
  /\ \A c \in Clients : barrier[c] # ThreadsOf(c)
  /\ \A t \in Threads : pc[t] \in {"cv", "cvwait"} =>
       WarmupReqsClient <= startedReqs[ClientOf[t]]
PublishInv ==
  \A c \in Clients : publishing[c] => \E t \in ThreadsOf(c) : rpc[t] = "publish"
ToSend(c) == {req[t] : t \in {u \in ThreadsOf(c) : pc[u] = "ret"}}
AskedInv ==
  ~gone => \A c \in Clients : IdsBelow(c, startedReqs[c]) \subseteq asked[c] \cup ToSend(c)
ProgressInv == proc = "running" => WaitInv /\ PublishInv /\ AskedInv

\* A step that leaves the senders where they are.
LEMMA ProgressKept ==
  ASSUME ProgressInv, proc = "running",
         UNCHANGED <<barrier, startedReqs, pc, req, asked>>,
         gone => gone',
         \A c \in Clients : publishing'[c] =>
           \/ \E t \in ThreadsOf(c) : rpc'[t] = "publish"
           \/ publishing[c] /\ \A t \in ThreadsOf(c) : rpc[t] = "publish" => rpc'[t] = "publish"
  PROVE  ProgressInv'
<1>1. WaitInv /\ PublishInv /\ AskedInv
  BY DEF ProgressInv
<1>2. WaitInv'
  BY <1>1 DEF WaitInv, ThreadsOf
<1>3. PublishInv'
  BY <1>1 DEF PublishInv, ThreadsOf
<1>4. AskedInv'
  BY <1>1 DEF AskedInv, ToSend, ThreadsOf, IdsBelow
<1> QED BY <1>2, <1>3, <1>4 DEF ProgressInv

LEMMA GenerateProgress ==
  ASSUME NetInv, ProgressInv, NEW t \in Threads, Generate(t)
  PROVE  ProgressInv'
<1> DEFINE c == ClientOf[t]
<1>0. /\ proc = "running" /\ pc[t] # "ret" /\ c \in Clients /\ t \in ThreadsOf(c)
      /\ UNCHANGED <<netVars, recvVars>>
  BY DEF ThreadsOf, Generate, StartReqStep, StartReq, BarrierWait, InitDist, CheckStatus,
         CheckStarted, CvWait, GenReq, Return
<1>1. WaitInv /\ PublishInv /\ AskedInv
  BY <1>0 DEF ProgressInv
<1> USE DEF ClientTypeOK
<1>2. ClientTypeOK /\ StartInv
  BY <1>0 DEF NetInv, ClientOK
<1>3. CASE StartReq(t) \/ CheckStatus(t) \/ CheckStarted(t) \/ CvWait(t)
  <2>0. startedReqs[c] \in Nat
    BY <1>0, <1>2
  <2>1. PICK p \in PC \ {"ret"} :
          /\ pc' = [pc EXCEPT ![t] = p]
          /\ p \in {"cv", "cvwait"} => WarmupReqsClient <= startedReqs[c]
    <3>1. CASE StartReq(t)
      <4>1. \E p \in {"bar1", "gate"} : pc' = [pc EXCEPT ![t] = p]
        BY <3>1 DEF StartReq, Goto
      <4> QED BY <4>1 DEF PC
    <3>2. CASE CheckStatus(t)
      <4>1. \E p \in {"gate2", "gen"} : pc' = [pc EXCEPT ![t] = p]
        BY <3>2 DEF CheckStatus, Goto
      <4> QED BY <4>1 DEF PC
    <3>3. CASE CheckStarted(t)
      <4>1. \/ pc' = [pc EXCEPT ![t] = "gen"]
            \/ pc' = [pc EXCEPT ![t] = "cv"] /\ WarmupReqsClient <= startedReqs[c]
        BY <2>0, <3>3, WarmupAssumption DEF CheckStarted, Goto
      <4> QED BY <4>1 DEF PC
    <3>4. CASE CvWait(t)
      <4>1. pc[t] = "cv" /\ \E p \in {"gen", "cvwait"} : pc' = [pc EXCEPT ![t] = p]
        BY <3>4 DEF CvWait, Goto
      <4>2. WarmupReqsClient <= startedReqs[c]
        BY <1>1, <4>1 DEF WaitInv
      <4> QED BY <4>1, <4>2 DEF PC
    <3> QED BY <1>3, <3>1, <3>2, <3>3, <3>4
  <2>2. /\ UNCHANGED <<barrier, startedReqs, publishing, req>>
        /\ pc'[t] # "ret"
        /\ pc'[t] \in {"cv", "cvwait"} => WarmupReqsClient <= startedReqs[c]
    <3>1. UNCHANGED <<barrier, startedReqs, publishing, req>>
      BY <1>3 DEF StartReq, CheckStatus, CheckStarted, CvWait, clientVars
    <3>2. pc'[t] = p
      BY <1>2, <2>1
    <3> HIDE DEF c
    <3> QED BY <2>1, <3>1, <3>2
  <2>3. \A u \in Threads \ {t} : pc'[u] = pc[u]
    BY <2>1
  <2>4. WaitInv'
    BY <1>1, <2>2, <2>3 DEF WaitInv, ThreadsOf
  <2>5. AskedInv'
    <3>1. \A d \in Clients : ToSend(d)' = ToSend(d)
      BY <1>0, <2>2, <2>3 DEF ToSend, ThreadsOf
    <3> QED BY <1>0, <1>1, <2>2, <3>1 DEF AskedInv, IdsBelow, netVars
  <2>6. PublishInv'
    BY <1>0, <1>1, <2>2 DEF PublishInv, ThreadsOf, recvVars
  <2> QED BY <2>4, <2>5, <2>6 DEF ProgressInv
<1>4. CASE BarrierWait(t)
  <2> DEFINE arrived == barrier[c] \cup {t}
  <2>1. UNCHANGED <<startedReqs, publishing, req>>
    BY <1>4 DEF BarrierWait
  <2>2. \A u \in Threads : /\ pc'[u] \in {"cv", "cvwait"} => pc[u] \in {"cv", "cvwait"}
                           /\ pc'[u] = "ret" <=> pc[u] = "ret"
    <3>1. CASE Cardinality(arrived) = BarrierCount(c)
      <4>1. pc' = [u \in Threads |-> IF u \in arrived THEN AfterBarrier(pc[u]) ELSE pc[u]]
        BY <1>4, <3>1 DEF BarrierWait
      <4>2. \A u \in arrived : pc[u] # "ret"
        BY <1>0, <1>2 DEF StartInv, StartInvOf
      <4> QED BY <4>1, <4>2 DEF AfterBarrier
    <3>2. CASE Cardinality(arrived) # BarrierCount(c)
      BY <1>0, <1>2, <1>4, <3>2 DEF BarrierWait
    <3> QED BY <3>1, <3>2
  <2>3. \A d \in Clients : barrier'[d] # ThreadsOf(d)
    <3>1. CASE Cardinality(arrived) = BarrierCount(c)
      BY <1>0, <1>1, <1>2, <1>4, <3>1 DEF BarrierWait, WaitInv
    <3>2. CASE Cardinality(arrived) # BarrierCount(c)
      <4>1. barrier' = [barrier EXCEPT ![c] = arrived]
        BY <1>4, <3>2 DEF BarrierWait
      <4>2. arrived # ThreadsOf(c)
        BY <3>2 DEF BarrierCount
      <4> HIDE DEF arrived, c
      <4> QED BY <1>1, <1>2, <4>1, <4>2 DEF WaitInv
    <3> QED BY <3>1, <3>2
  <2>4. WaitInv'
    BY <1>1, <2>1, <2>2, <2>3 DEF WaitInv, ThreadsOf
  <2>5. AskedInv'
    <3>1. \A d \in Clients : ToSend(d)' = ToSend(d)
      BY <1>0, <2>1, <2>2 DEF ToSend, ThreadsOf
    <3> QED BY <1>0, <1>1, <2>1, <3>1 DEF AskedInv, IdsBelow, netVars
  <2>6. PublishInv'
    BY <1>0, <1>1, <2>1 DEF PublishInv, ThreadsOf, recvVars
  <2> QED BY <2>4, <2>5, <2>6 DEF ProgressInv
<1>5. CASE InitDist(t)
  <2>1. /\ UNCHANGED <<startedReqs, publishing, req>>
        /\ pc' = [pc EXCEPT ![t] = "bar2"]
        /\ barrier' = barrier \/ barrier' = [barrier EXCEPT ![c] = {}]
    BY <1>5 DEF InitDist, Goto
  <2>2. WaitInv'
    BY <1>0, <1>1, <1>2, <2>1 DEF WaitInv, ThreadsOf
  <2>3. AskedInv'
    <3>1. \A d \in Clients : ToSend(d)' = ToSend(d)
      BY <1>0, <1>2, <2>1 DEF ToSend, ThreadsOf
    <3> QED BY <1>0, <1>1, <2>1, <3>1 DEF AskedInv, IdsBelow, netVars
  <2>4. PublishInv'
    BY <1>0, <1>1, <2>1 DEF PublishInv, ThreadsOf, recvVars
  <2> QED BY <2>2, <2>3, <2>4 DEF ProgressInv
<1>6. CASE GenReq(t)
  <2> DEFINE n == startedReqs[c]
             id == ReqId(c, n)
  <2>1. /\ UNCHANGED <<barrier, publishing>>
        /\ pc' = [pc EXCEPT ![t] = "ret"] /\ req' = [req EXCEPT ![t] = id]
        /\ startedReqs' = [startedReqs EXCEPT ![c] = n + 1]
    BY <1>6 DEF GenReq, Goto
  <2>2. WaitInv'
    <3>1. \A d \in Clients : startedReqs[d] <= startedReqs'[d]
      BY <1>0, <1>2, <2>1
    <3>2. \A u \in Threads : pc'[u] \in {"cv", "cvwait"} => pc[u] \in {"cv", "cvwait"}
      BY <1>2, <2>1
    <3>3. \A d \in Clients : startedReqs[d] \in Nat /\ startedReqs'[d] \in Nat
      BY <1>0, <1>2, <2>1
    <3>4. \A u \in Threads : ClientOf[u] \in Clients
      OBVIOUS
    <3> QED BY <1>1, <2>1, <3>1, <3>2, <3>3, <3>4, WarmupAssumption DEF WaitInv, ThreadsOf
  <2>3. AskedInv'
    <3> SUFFICES ASSUME ~gone, NEW d \in Clients
                 PROVE  (IdsBelow(d, startedReqs[d]) \subseteq asked[d] \cup ToSend(d))'
      BY <1>0 DEF AskedInv, netVars
    <3>1. IdsBelow(d, startedReqs[d]) \subseteq asked[d] \cup ToSend(d) /\ asked' = asked
      BY <1>0, <1>1 DEF AskedInv, netVars
    <3>2. ToSend(d) \subseteq ToSend(d)'
      <4> SUFFICES ASSUME NEW u \in ThreadsOf(d), pc[u] = "ret"
                   PROVE  req[u] \in ToSend(d)'
        BY DEF ToSend
      <4>1. u # t /\ u \in Threads
        BY <1>0 DEF ThreadsOf
      <4>2. pc'[u] = "ret" /\ req'[u] = req[u]
        BY <1>2, <2>1, <4>1
      <4> QED BY <4>2 DEF ToSend, ThreadsOf
    <3>3. CASE d # c
      <4>1. startedReqs'[d] = startedReqs[d]
        BY <1>2, <2>1, <3>3
      <4> QED BY <3>1, <3>2, <4>1 DEF IdsBelow
    <3>4. CASE d = c
      <4>1. startedReqs'[c] = n + 1 /\ n \in Nat
        BY <1>0, <1>2, <2>1
      <4>2. IdsBelow(c, n + 1) = IdsBelow(c, n) \cup {id}
        BY <1>0, <4>1, OneMoreId
      <4>3. id \in ToSend(c)'
        <5>1. pc'[t] = "ret" /\ req'[t] = id
          BY <1>2, <2>1
        <5> QED BY <1>0, <5>1 DEF ToSend, ThreadsOf
      <4>4. IdsBelow(c, startedReqs[c])' = IdsBelow(c, n) \cup {id}
        BY <4>1, <4>2 DEF IdsBelow, ReqId
      <4> HIDE DEF n, id, c
      <4> QED BY <3>1, <3>2, <3>4, <4>3, <4>4 DEF n
    <3> QED BY <3>3, <3>4
  <2>4. PublishInv'
    BY <1>0, <1>1, <2>1 DEF PublishInv, ThreadsOf, recvVars
  <2> QED BY <2>2, <2>3, <2>4 DEF ProgressInv
<1> QED BY <1>0, <1>3, <1>4, <1>5, <1>6 DEF Generate, StartReqStep, Return, Goto

LEMMA SendProgress ==
  ASSUME NetInv, ProgressInv, NEW t \in Threads, SendStep(t)
  PROVE  ProgressInv'
<1> DEFINE c == ClientOf[t]
<1>0. proc = "running" /\ c \in Clients /\ t \in ThreadsOf(c)
  BY SenderSteps DEF SenderEffect, ThreadsOf, NetInv
<1>1. WaitInv /\ PublishInv /\ AskedInv
  BY <1>0 DEF ProgressInv
<1>2. ClientTypeOK
  BY <1>0 DEF NetInv, ClientOK
<1>3. ASSUME pc' = [pc EXCEPT ![t] = "idle"], UNCHANGED <<clientVars, rpc>>, AskedInv'
      PROVE  ProgressInv'
  <2>1. WaitInv'
    BY <1>1, <1>2, <1>3 DEF WaitInv, ThreadsOf, clientVars, ClientTypeOK
  <2>2. PublishInv'
    BY <1>1, <1>3 DEF PublishInv, ThreadsOf, clientVars
  <2> QED BY <1>3, <2>1, <2>2 DEF ProgressInv
<1>4. CASE Generate(t)
  BY <1>4, GenerateProgress
<1>5. CASE Send(t)
  <2>1. /\ pc' = [pc EXCEPT ![t] = "idle"] /\ UNCHANGED <<clientVars, rpc, gone>>
        /\ req' = [req EXCEPT ![t] = 0]
        /\ asked' = [asked EXCEPT ![c] = asked[c] \cup {req[t]}]
    BY <1>5 DEF Send, Return, Goto, Server!Ask, recvVars
  <2>2. AskedInv'
    <3> SUFFICES ASSUME ~gone, NEW d \in Clients
                 PROVE  (IdsBelow(d, startedReqs[d]) \subseteq asked[d] \cup ToSend(d))'
      BY <2>1 DEF AskedInv
    <3>1. IdsBelow(d, startedReqs[d]) \subseteq asked[d] \cup ToSend(d)
      BY <1>1 DEF AskedInv
    <3>2. IdsBelow(d, startedReqs[d])' = IdsBelow(d, startedReqs[d])
      BY <2>1 DEF IdsBelow, clientVars
    <3>3. asked \in [Clients -> SUBSET Nat]
      BY DEF NetInv, Types
    <3>4. ToSend(d) \subseteq asked'[d] \cup ToSend(d)'
      <4> SUFFICES ASSUME NEW u \in ThreadsOf(d), pc[u] = "ret"
                   PROVE  req[u] \in asked'[d] \cup ToSend(d)'
        BY DEF ToSend
      <4>1. CASE u = t
        BY <2>1, <3>3, <4>1 DEF ThreadsOf
      <4>2. CASE u # t
        <5>1. pc'[u] = "ret" /\ req'[u] = req[u]
          BY <1>2, <2>1, <4>2 DEF ThreadsOf, ClientTypeOK
        <5> QED BY <5>1 DEF ToSend, ThreadsOf
      <4> QED BY <4>1, <4>2
    <3>5. asked[d] \subseteq asked'[d]
      BY <2>1, <3>3
    <3> QED BY <3>1, <3>2, <3>4, <3>5
  <2> QED BY <1>3, <2>1, <2>2
<1>6. CASE SendToNobody(t) \/ SendFail(t)
  <2>1. /\ pc' = [pc EXCEPT ![t] = "idle"] /\ UNCHANGED <<clientVars, rpc>>
        /\ gone' = gone /\ gone
    BY <1>6 DEF SendToNobody, SendFail, Return, Goto, recvVars, netVars
  <2> QED BY <1>3, <2>1 DEF AskedInv
<1>7. CASE SigPipe(t)
  BY <1>7 DEF SigPipe, ProgressInv
<1> QED BY <1>4, <1>5, <1>6, <1>7 DEF SendStep

LEMMA ProgressStep ==
  ASSUME NetInv, ProgressInv, [NetClientNext]_netClientVars
  PROVE  ProgressInv'
<1> SUFFICES ASSUME proc' = "running"
             PROVE  ProgressInv'
  BY DEF ProgressInv
<1>0. rpc \in [Threads -> {"recv", "fini", "push", "tids", "startroi",
                           "publish", "count", "finish", "stats", "info", "end"}]
  BY DEF NetInv, Types
<1>1. ASSUME UNCHANGED <<barrier, startedReqs, pc, req, asked, publishing>>, gone => gone',
             proc = "running",
             \A t \in Threads : rpc[t] = "publish" => rpc'[t] = "publish"
      PROVE  ProgressInv'
  BY <1>1, ProgressKept DEF ThreadsOf
<1>2. CASE UNCHANGED netClientVars
  BY <1>1, <1>2 DEF netClientVars, vars, clientVars, threadVars, netVars, recvVars
<1>3. ASSUME NEW t \in Threads, SendStep(t)
      PROVE  ProgressInv'
  BY <1>3, SendProgress
<1>4. ASSUME NEW t \in Threads, HandleResponse(t)
      PROVE  ProgressInv'
  <2>1. /\ proc = "running" /\ Holding(t) /\ UNCHANGED netVars
        /\ rpc' = [rpc EXCEPT ![t] = "recv"] \/ rpc' = [rpc EXCEPT ![t] = "tids"]
        /\ \E u \in ThreadsOf(ClientOf[t]) : FiniReq(u, resp[t].id)
    BY <1>4, ResponseEffect
  <2>2. UNCHANGED <<barrier, startedReqs, pc, req, asked, publishing, gone>>
    BY <2>1 DEF FiniReq, netVars
  <2>3. \A u \in Threads : rpc[u] = "publish" => rpc'[u] = "publish"
    BY <1>0, <2>1 DEF Holding
  <2> QED BY <1>1, <2>1, <2>2, <2>3
<1>5. ASSUME NEW t \in Threads, HandleRoiBegin(t)
      PROVE  ProgressInv'
  <2> DEFINE c == ClientOf[t]
  <2>1. /\ proc = "running" /\ StartRoi(c) /\ UNCHANGED netVars
        /\ rpc[t] = "startroi" /\ rpc' = [rpc EXCEPT ![t] = "publish"]
    BY <1>5, RoiEffect
  <2>2. /\ UNCHANGED <<barrier, startedReqs, pc, req, asked, gone>>
        /\ publishing' = [publishing EXCEPT ![c] = TRUE]
    BY <2>1 DEF StartRoi, threadVars, netVars
  <2>3. t \in ThreadsOf(c) /\ rpc'[t] = "publish"
    BY <1>0, <2>1 DEF ThreadsOf
  <2>4. \A u \in Threads : rpc[u] = "publish" => rpc'[u] = "publish"
    BY <1>0, <2>1
  <2>5. \A d \in Clients \ {c} : publishing'[d] = publishing[d]
    BY <2>1, <2>2 DEF NetInv, ClientOK, ClientTypeOK
  <2> HIDE DEF c
  <2>6. \A d \in Clients : publishing'[d] =>
          \/ \E u \in ThreadsOf(d) : rpc'[u] = "publish"
          \/ publishing[d] /\ \A u \in ThreadsOf(d) : rpc[u] = "publish" => rpc'[u] = "publish"
    BY <2>3, <2>4, <2>5 DEF ThreadsOf
  <2> QED BY <2>1, <2>2, <2>6, ProgressKept
<1>6. ASSUME NEW t \in Threads, Publish(t)
      PROVE  ProgressInv'
  <2> DEFINE c == ClientOf[t]
  <2>1. /\ proc = "running" /\ PublishReady(c) /\ UNCHANGED netVars
        /\ rpc[t] = "publish" /\ rpc' = [rpc EXCEPT ![t] = "count"]
    BY <1>6 DEF Publish, RecvAt, RecvGoto
  <2>2. /\ UNCHANGED <<barrier, startedReqs, req, asked, gone>>
        /\ publishing' = [publishing EXCEPT ![c] = FALSE]
        /\ pc' = [u \in Threads |-> IF u \in Woken(c) THEN "cv" ELSE pc[u]]
    BY <2>1 DEF PublishReady, netVars
  <2>3. WaitInv /\ PublishInv /\ AskedInv
    BY <2>1 DEF ProgressInv
  <2>4. \A u \in Threads : /\ pc'[u] \in {"cv", "cvwait"} => pc[u] \in {"cv", "cvwait"}
                           /\ pc'[u] = "ret" <=> pc[u] = "ret"
    BY <2>2 DEF Woken
  <2>5. WaitInv'
    BY <2>2, <2>3, <2>4 DEF WaitInv, ThreadsOf
  <2>6. AskedInv'
    <3>1. \A d \in Clients : ToSend(d)' = ToSend(d)
      BY <2>2, <2>4 DEF ToSend, ThreadsOf
    <3> QED BY <2>2, <2>3, <3>1 DEF AskedInv, IdsBelow
  <2>7. PublishInv'
    <3> SUFFICES ASSUME NEW d \in Clients, publishing'[d]
                 PROVE  \E u \in ThreadsOf(d) : rpc'[u] = "publish"
      BY DEF PublishInv, ThreadsOf
    <3>1. d # c /\ publishing[d]
      BY <2>1, <2>2 DEF NetInv, ClientOK, ClientTypeOK
    <3>2. PICK u \in ThreadsOf(d) : rpc[u] = "publish"
      BY <2>3, <3>1 DEF PublishInv
    <3>3. u # t /\ u \in Threads
      BY <3>1 DEF ThreadsOf
    <3> QED BY <1>0, <2>1, <3>2, <3>3
  <2> QED BY <2>5, <2>6, <2>7 DEF ProgressInv
<1>7. ASSUME NEW t \in Threads,
             \/ Recv(t) \/ RecvFail(t) \/ PushStart(t) \/ PushTids(t) \/ CountRoi(t)
             \/ BeginStats(t) \/ EndStats(t)
      PROVE  ProgressInv'
  <2>1. /\ proc = "running" /\ UNCHANGED <<vars, netVars>> /\ rpc[t] # "publish"
        /\ \E p : rpc' = [rpc EXCEPT ![t] = p]
    BY <1>7 DEF Recv, RecvFail, PushStart, PushTids, CountRoi, BeginStats, EndStats,
                RecvAt, RecvGoto
  <2>2. \A u \in Threads : rpc[u] = "publish" => rpc'[u] = "publish"
    BY <1>0, <2>1
  <2> QED BY <1>1, <2>1, <2>2 DEF vars, clientVars, threadVars, netVars
<1>8. ASSUME NEW t \in Threads, EndInfo(t) \/ DumpFault(t)
      PROVE  ProgressInv'
  <2>1. /\ proc = "running" /\ UNCHANGED <<clientVars, threadVars, netVars>>
        /\ rpc[t] \in {"stats", "info"}
        /\ rpc' = rpc \/ \E p : rpc' = [rpc EXCEPT ![t] = p]
    BY <1>8 DEF EndInfo, DumpFault, RecvAt, RecvGoto, recvVars
  <2>2. \A u \in Threads : rpc[u] = "publish" => rpc'[u] = "publish"
    BY <1>0, <2>1
  <2> QED BY <1>1, <2>1, <2>2 DEF clientVars, threadVars, netVars
<1>9. MonStart \/ MonSweep => ProgressInv'
  BY <1>1 DEF MonStart, MonSweep, vars, clientVars, threadVars, netVars, recvVars
<1>10. ASSUME NEW c \in Clients, NEW f \in Sent, ServerWrites(c, f)
       PROVE  ProgressInv'
  BY <1>1, <1>10 DEF ServerWrites, vars, clientVars, threadVars, recvVars
<1>11. Die => ProgressInv'
  BY <1>1 DEF Die, vars, clientVars, threadVars, recvVars
<1>12. ASSUME NEW c \in Clients,
              Answer(c) \/ \E type \in {"ROI_BEGIN", "FINISH"} : Announce(c, type)
       PROVE  ProgressInv'
  <2>1. \E f \in Sent : ServerWrites(c, f)
    BY <1>12, ServerEffect
  <2> QED BY <1>10, <2>1
<1> QED BY <1>2, <1>3, <1>4, <1>5, <1>6, <1>7, <1>8, <1>9, <1>11, <1>12
        DEF NetClientNext, RecvStep, HandleResponse

LEMMA ProgressInvariant == NetClientSpec => []ProgressInv
<1>1. NetClientInit => ProgressInv
  <2> SUFFICES ASSUME NetClientInit
               PROVE  ProgressInv
    OBVIOUS
  <2>1. /\ barrier = [c \in Clients |-> {}] /\ pc = [t \in Threads |-> "idle"]
        /\ publishing = [c \in Clients |-> FALSE] /\ startedReqs = [c \in Clients |-> 0]
    BY DEF NetClientInit, ClientInit
  <2>2. WaitInv /\ PublishInv
    BY <2>1 DEF WaitInv, PublishInv
  <2>3. \A c \in Clients : IdsBelow(c, startedReqs[c]) = {}
    BY <2>1 DEF IdsBelow
  <2> QED BY <2>2, <2>3 DEF ProgressInv, AskedInv
<1> QED BY <1>1, ProgressStep, NetInvariant, PTL DEF NetClientSpec

\* Every client sent n requests that were answered: the server answered at
\* least so many on all connections.
LEMMA AllAnsweredAtLeast ==
  ASSUME Types, NEW n \in Nat, \A c \in Clients : IdsBelow(c, n) \subseteq Server!Answered(c)
  PROVE  /\ Cardinality(Server!AllAnswered) \in Nat
         /\ NClients * n <= Cardinality(Server!AllAnswered)
         /\ n > 0 => Server!AllAnswered # {}
<1> DEFINE All == Server!AllAnswered
           S == Clients \X (0 .. n - 1)
           g == [p \in S |-> <<p[1], ReqId(p[1], p[2])>>]
<1>1. IsFiniteSet(All)
  <2>1. ASSUME NEW c \in Clients
        PROVE  IsFiniteSet({c} \X Server!Answered(c))
    <3> DEFINE I == {j \in DOMAIN toClient[c] : toClient[c][j].type = "RESPONSE"}
               h == [i \in I |-> toClient[c][i].id]
    <3>1. IsFiniteSet(I)
      BY AnnouncedIsFinite
    <3>2. Server!Answered(c) = {toClient[c][i].id : i \in I}
      BY DEF Server!Answered
    <3> HIDE DEF I
    <3>3. h \in Surjection(I, Server!Answered(c))
      BY <3>2 DEF Surjection
    <3>4. IsFiniteSet(Server!Answered(c))
      BY <3>1, <3>3, FS_Surjection
    <3> QED BY <3>4, FS_Singleton, FS_Product
  <2> DEFINE parts == {{c} \X Server!Answered(c) : c \in Clients}
             k == [c \in Clients |-> {c} \X Server!Answered(c)]
  <2>2. k \in Surjection(Clients, parts)
    BY DEF Surjection
  <2>3. \A T \in parts : IsFiniteSet(T)
    BY <2>1
  <2>4. All = UNION parts
    BY DEF Server!AllAnswered
  <2> HIDE DEF parts, k, All
  <2>5. IsFiniteSet(parts)
    BY <2>2, ClientsAreFinite, FS_Surjection
  <2> QED BY <2>3, <2>4, <2>5, FS_UNION
<1>2. \A p \in S : p[1] \in Clients /\ p[2] \in Nat /\ p[2] \in 0 .. n - 1 /\ p = <<p[1], p[2]>>
  OBVIOUS
<1>3. \A p \in S : ReqId(p[1], p[2]) \in IdsBelow(p[1], n)
  BY <1>2 DEF IdsBelow
<1>4. \A p \in S : g[p] \in All
  BY <1>2, <1>3 DEF Server!AllAnswered
<1>5. \A p, q \in S : g[p] = g[q] => p = q
  <2> SUFFICES ASSUME NEW p \in S, NEW q \in S, g[p] = g[q]
               PROVE  p = q
    OBVIOUS
  <2>1. p[1] = q[1] /\ ReqId(p[1], p[2]) = ReqId(q[1], q[2])
    OBVIOUS
  <2>2. p[2] = q[2]
    BY <1>2, <2>1, ReqIdInjective
  <2> QED BY <1>2, <2>1, <2>2
<1>6. g \in Injection(S, All)
  <2> HIDE DEF S, All
  <2> QED BY <1>4, <1>5 DEF Injection, IsInjective
<1>7. IsFiniteSet(S) /\ Cardinality(S) = NClients * n
  <2>1. IsFiniteSet(0 .. n - 1) /\ Cardinality(0 .. n - 1) = n
    BY FS_Interval
  <2>2. IsFiniteSet(Clients) /\ Cardinality(Clients) = NClients
    BY NClientsAssumption, FS_Interval DEF Clients
  <2> QED BY <2>1, <2>2, FS_Product
<1>8. Cardinality(S) <= Cardinality(All) /\ Cardinality(All) \in Nat
  <2> HIDE DEF S, All, g
  <2> QED BY <1>1, <1>6, FS_Injection, FS_CardinalityType
<1>9. n > 0 => All # {}
  <2> SUFFICES ASSUME n > 0
               PROVE  All # {}
    OBVIOUS
  <2>1. <<0, 0>> \in S
    BY NClientsAssumption DEF Clients
  <2> QED BY <1>4, <2>1
<1> QED BY <1>7, <1>8, <1>9

\* The client's quotas cover the server's, and there is a warm-up: with none,
\* senders block at the gate before they send anything.
QuotasSuffice ==
  /\ 0 < WarmupReqsClient /\ WarmupReqsClient <= MaxStarted
  /\ WarmupReqs <= NClients * WarmupReqsClient
  /\ WarmupReqs + MaxReqs <= NClients * MaxStarted

LEMMA NobodyStuck ==
  ASSUME NetInv, ProgressInv, QuotasSuffice
  PROVE  NeverStuck
<1> SUFFICES ASSUME proc = "running", ~gone, ServerIdle,
                    \A t \in Threads : SenderBlocked(t) /\ ReceiverBlocked(t)
             PROVE  FALSE
  BY DEF NeverStuck
<1>0. /\ Types /\ ClientTypeOK /\ StartInv /\ GateInv /\ WaitInv /\ PublishInv /\ AskedInv
      /\ StreamInv /\ RoiInv /\ FinishInv /\ FileInv
  BY DEF NetInv, ProgressInv, ClientOK
<1>1. \A t \in Threads : rpc[t] \in {"recv", "finish"}
  BY DEF ReceiverBlocked
<1>2. liveLock = NoThread
  <2>1. ASSUME NEW t \in Threads, liveLock = t
        PROVE  FALSE
    <3>1. Dumping(t)
      BY <1>0, <2>1 DEF FileInv
    <3> QED BY <1>1, <3>1 DEF Dumping
  <2> QED BY <1>0, <2>1 DEF Types
<1>3. \A t \in Threads : rpc[t] = "recv"
  BY <1>2 DEF ReceiverBlocked
<1>4. \A c \in Clients : nread[c] = Len(toClient[c])
  <2> SUFFICES ASSUME NEW c \in Clients
               PROVE  nread[c] = Len(toClient[c])
    OBVIOUS
  <2>1. PICK t \in ThreadsOf(c) : TRUE
    OBVIOUS
  <2> QED BY <1>2, <2>1 DEF ReceiverBlocked, ThreadsOf
<1>5. \A t \in Threads : pc[t] \in {"wait1", "wait2", "cvwait", "gen"}
  BY DEF SenderBlocked
<1>6. \A t \in Threads : pc[t] \notin {"wait1", "wait2"}
  <2> SUFFICES ASSUME NEW t \in Threads, pc[t] \in {"wait1", "wait2"}
               PROVE  FALSE
    OBVIOUS
  <2> DEFINE c == ClientOf[t]
  <2>1. c \in Clients /\ t \in ThreadsOf(c) /\ StartInvOf(c) /\ \A u \in ThreadsOf(c) : u \in Threads
    BY <1>0 DEF ThreadsOf, StartInv
  <2>2. \A u \in ThreadsOf(c) : pc[u] \in {"wait1", "wait2"}
    <3>1. CASE pc[t] = "wait1"
      <4>1. ~dist[c]
        BY <2>1, <3>1 DEF StartInvOf
      <4> QED BY <1>5, <2>1, <4>1 DEF StartInvOf
    <3>2. CASE pc[t] = "wait2"
      BY <1>5, <2>1, <3>2 DEF StartInvOf, Mid
    <3> QED BY <3>1, <3>2
  <2>3. barrier[c] = ThreadsOf(c)
    BY <2>1, <2>2 DEF StartInvOf
  <2> QED BY <1>0, <2>1, <2>3 DEF WaitInv
<1>7. \A t \in Threads : \/ pc[t] = "cvwait" /\ WarmupReqsClient <= startedReqs[ClientOf[t]]
                         \/ startedReqs[ClientOf[t]] = MaxStarted
  BY <1>0, <1>5, <1>6 DEF SenderBlocked, WaitInv
<1>8. \A c \in Clients : startedReqs[c] \in Nat /\ WarmupReqsClient <= startedReqs[c]
  <2> SUFFICES ASSUME NEW c \in Clients
               PROVE  startedReqs[c] \in Nat /\ WarmupReqsClient <= startedReqs[c]
    OBVIOUS
  <2>1. PICK t \in ThreadsOf(c) : TRUE
    OBVIOUS
  <2>2. t \in Threads /\ ClientOf[t] = c
    BY <2>1 DEF ThreadsOf
  <2> QED BY <1>0, <1>7, <2>2 DEF QuotasSuffice, ClientTypeOK
<1>9. ASSUME NEW n \in Nat, \A c \in Clients : n <= startedReqs[c]
      PROVE  \A c \in Clients : IdsBelow(c, n) \subseteq Server!Answered(c)
  <2> SUFFICES ASSUME NEW c \in Clients
               PROVE  IdsBelow(c, n) \subseteq Server!Answered(c)
    OBVIOUS
  <2>1. ToSend(c) = {}
    BY <1>5 DEF ToSend, ThreadsOf
  <2>2. IdsBelow(c, startedReqs[c]) \subseteq asked[c]
    BY <1>0, <2>1 DEF AskedInv
  <2>3. IdsBelow(c, n) \subseteq IdsBelow(c, startedReqs[c])
    BY <1>8, <1>9, FewerIds
  <2> QED BY <2>2, <2>3 DEF ServerIdle
<1>10. \A c \in Clients : \A i \in DOMAIN toClient[c] : i \in 1 .. nread[c]
  BY <1>0, <1>4 DEF Types
<1>11. ASSUME NEW type \in {"ROI_BEGIN", "FINISH"}, Server!Due(type), NEW c \in Clients
       PROVE  \E i \in 1 .. nread[c] : IsFrame(c, i, type)
  <2>1. Announced(c, type) > 0
    BY <1>11 DEF ServerIdle
  <2> DEFINE S == {i \in DOMAIN toClient[c] : toClient[c][i].type = type}
  <2>2. Cardinality(S) # 0 /\ IsFiniteSet(S)
    <3>1. IsFiniteSet(S) /\ Announced(c, type) \in Nat /\ Cardinality(S) = Announced(c, type)
      BY <1>0, AnnouncedIsFinite DEF Announced
    <3> HIDE DEF S
    <3> QED BY <2>1, <3>1
  <2>3. S # {}
    <3> HIDE DEF S
    <3> QED BY <2>2, FS_EmptySet
  <2> QED BY <1>10, <2>3 DEF IsFrame
<1>12. WarmupReqs \in Nat /\ MaxReqs \in Nat /\ WarmupReqsClient \in Nat /\ MaxStarted \in Nat
  BY NetClientAssumption, WarmupAssumption, MaxStartedAssumption
<1>13. NClients * WarmupReqsClient \in Int /\ NClients * MaxStarted \in Int
  BY <1>12, NClientsAssumption, Z3
<1>14. Server!Due("ROI_BEGIN")
  <2>1. /\ Cardinality(Server!AllAnswered) \in Nat /\ Server!AllAnswered # {}
        /\ NClients * WarmupReqsClient <= Cardinality(Server!AllAnswered)
    BY <1>0, <1>8, <1>9, <1>12, AllAnsweredAtLeast DEF QuotasSuffice
  <2>2. WarmupReqs <= Cardinality(Server!AllAnswered)
    BY <1>12, <1>13, <2>1 DEF QuotasSuffice
  <2>3. Server!EndOf("ROI_BEGIN") = WarmupReqs
    BY DEF Server!EndOf
  <2> QED BY <2>1, <2>2, <2>3, <1>12 DEF Server!Due, Server!Cardinality, Cardinality
<1>15. \A c \in Clients : status[c] = "ROI"
  <2> SUFFICES ASSUME NEW c \in Clients
               PROVE  status[c] = "ROI"
    OBVIOUS
  <2>1. RoiRead(c)
    BY <1>11, <1>14 DEF RoiRead
  <2>2. \A t \in ThreadsOf(c) : rpc[t] # "startroi"
    BY <1>3 DEF ThreadsOf
  <2> QED BY <1>0, <2>1, <2>2 DEF RoiInv, RoiInvOf
<1>16. \A c \in Clients : ~publishing[c]
  BY <1>0, <1>3 DEF PublishInv, ThreadsOf
<1>17. \A t \in Threads : pc[t] # "cvwait"
  BY <1>0, <1>15, <1>16 DEF GateInv
<1>18. \A c \in Clients : startedReqs[c] = MaxStarted
  <2> SUFFICES ASSUME NEW c \in Clients
               PROVE  startedReqs[c] = MaxStarted
    OBVIOUS
  <2>1. PICK t \in ThreadsOf(c) : TRUE
    OBVIOUS
  <2>2. t \in Threads /\ ClientOf[t] = c
    BY <2>1 DEF ThreadsOf
  <2> QED BY <1>7, <1>17, <2>2
<1>19. Server!Due("FINISH")
  <2>1. \A c \in Clients : MaxStarted <= startedReqs[c]
    BY <1>12, <1>18
  <2>2. /\ Cardinality(Server!AllAnswered) \in Nat /\ Server!AllAnswered # {}
        /\ NClients * MaxStarted <= Cardinality(Server!AllAnswered)
    BY <1>0, <1>9, <1>12, <2>1, AllAnsweredAtLeast DEF QuotasSuffice
  <2>3. WarmupReqs + MaxReqs <= Cardinality(Server!AllAnswered)
    BY <1>12, <1>13, <2>2 DEF QuotasSuffice
  <2>4. Server!EndOf("FINISH") = WarmupReqs + MaxReqs
    BY DEF Server!EndOf
  <2> QED BY <2>2, <2>3, <2>4, <1>12 DEF Server!Due, Server!Cardinality, Cardinality
<1>20. \A c \in Clients : \E k \in DOMAIN lats : lats[k].client = c
  <2> SUFFICES ASSUME NEW c \in Clients
               PROVE  \E k \in DOMAIN lats : lats[k].client = c
    OBVIOUS
  <2>1. FinishRead(c)
    BY <1>11, <1>19 DEF FinishRead
  <2>2. \A t \in ThreadsOf(c) : ~ToDump(t)
    BY <1>3 DEF ThreadsOf, ToDump
  <2> QED BY <1>0, <2>1, <2>2 DEF FinishInv, FinishInvOf
<1>21. DOMAIN lats = 1 .. Len(lats)
  BY <1>0 DEF Types
<1>22. Len(lats) \in Nat /\ Len(lats) < NClients
  BY <1>0, <1>2, NClientsAssumption DEF FileInv, Types
<1> DEFINE w == [k \in DOMAIN lats |-> lats[k].client]
<1>23. w \in Surjection(DOMAIN lats, Clients)
  BY <1>0, <1>20, DumpedClient DEF Surjection
<1>24. Cardinality(Clients) <= Cardinality(DOMAIN lats)
  <2>1. IsFiniteSet(DOMAIN lats)
    BY <1>22, <1>21, FS_Interval
  <2> HIDE DEF w
  <2> QED BY <1>23, <2>1, FS_Surjection
<1>25. Cardinality(DOMAIN lats) = Len(lats)
  <2>1. PICK m \in Nat : m = Len(lats)
    BY <1>22
  <2>2. Cardinality(1 .. m) = m
    BY FS_Interval
  <2> QED BY <1>21, <2>1, <2>2
<1>26. Cardinality(Clients) = NClients
  BY NClientsAssumption, FS_Interval DEF Clients
<1> QED BY <1>22, <1>24, <1>25, <1>26, NClientsAssumption

\* Threads and a server that lives never all wait for each other, if the
\* client's quotas cover the server's.
THEOREM NobodyWaitsForever ==
  ASSUME QuotasSuffice
  PROVE  NetClientSpec => []NeverStuck
<1>1. NetInv /\ ProgressInv => NeverStuck
  BY NobodyStuck
<1> QED BY <1>1, NetInvariant, ProgressInvariant, PTL
=============================================================================
