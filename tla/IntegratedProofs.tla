-------------------------- MODULE IntegratedProofs --------------------------
(***************************************************************************)
(* Proofs about module Integrated, for every number of threads and all     *)
(* lengths of the warm-up and of the measurement: the server is a lawful   *)
(* environment of the client in the same process, and what it dumps is the *)
(* measurement.                                                            *)
(***************************************************************************)
EXTENDS Integrated, ClientProofs

\* The threads that have a tid, and those between finiReq and the count.
Started == {t \in Threads : wpc[t] # "new"}
Counting == {t \in Threads : wpc[t] = "count"}

ServerTypes ==
  /\ wpc \in [Threads -> {"new", "recv", "serve", "count"}]
  /\ curTid \in Nat /\ tid \in [Threads -> Nat]
  /\ reqInfo \in [0 .. nthreads - 1 -> Nat]
  /\ finishedReqs \in Nat /\ lats \in SUBSET Nat

\* tids are handed out once each.
TidInv ==
  /\ curTid = Cardinality(Started)
  /\ \A t \in Started : tid[t] < curTid
  /\ \A t, u \in Started : t # u => tid[t] # tid[u]

\* A thread has a request to answer exactly while it serves it, and the server
\* knows which.
OwnRequest ==
  \A t \in Threads :
    /\ owed[t] = IF wpc[t] = "serve" THEN {reqInfo[tid[t]]} ELSE {}
    /\ wpc[t] \in {"serve", "count"} => startedReqs[0] > 0

\* The phase follows the count.
PhaseInv ==
  /\ status[0] = "ROI" => WarmupReqs <= finishedReqs
  /\ WarmupReqs > 0 /\ WarmupReqs <= finishedReqs => status[0] = "ROI"

\* Each request that was measured is counted after it: the samples are what was
\* counted in the ROI and what is about to be, but for the threads that were
\* about to count a request of the warm-up when the ROI began.
SampleInv ==
  /\ samples[0] \subseteq IdsBelow(0, startedReqs[0])
  /\ samples[0] \cap inFlightReqs[0] = {}
  /\ IsFiniteSet(samples[0])
  /\ status[0] = "ROI" =>
       LET due == finishedReqs - WarmupReqs + Cardinality(Counting)
       IN Cardinality(samples[0]) \in due - (nthreads - 1) .. due

DumpInv ==
  proc = "exited" =>
    /\ lats = samples[0] /\ finishedReqs = WarmupReqs + MaxReqs
    /\ Counting # Threads

ServerInv ==
  /\ ServerTypes /\ TidInv /\ OwnRequest /\ PhaseInv /\ SampleInv /\ DumpInv

-----------------------------------------------------------------------------
(* One client *)

LEMMA TheClient ==
  /\ Clients = {0} /\ ThreadsOf(0) = Threads
  /\ \A t \in Threads : ClientOf[t] = 0
  /\ Threads # {} /\ nthreads \in Nat \ {0}
<1>1. Clients = {0}
  BY OneClientAssumption DEF Clients
<1>2. \A t \in Threads : ClientOf[t] = 0
  BY <1>1, ClientOfAssumption
<1>3. ThreadsOf(0) = Threads
  BY <1>2 DEF ThreadsOf
<1>4. Threads # {}
  BY <1>1, <1>3, ClientOfAssumption
<1>5. nthreads \in Nat \ {0}
  BY <1>4, ThreadsAssumption, FS_CardinalityType, FS_EmptySet DEF nthreads
<1> QED BY <1>1, <1>2, <1>3, <1>4, <1>5

LEMMA SetsOfThreads ==
  ASSUME NEW S \in SUBSET Threads
  PROVE  /\ IsFiniteSet(S) /\ Cardinality(S) \in 0 .. nthreads
         /\ S # Threads => Cardinality(S) <= nthreads - 1
         /\ \A t \in S : Cardinality(S \ {t}) = Cardinality(S) - 1
         /\ \A t \in Threads \ S : Cardinality(S \cup {t}) = Cardinality(S) + 1
<1>1. IsFiniteSet(S)
  BY ThreadsAssumption, FS_Subset
<1>2. Cardinality(S) \in Nat /\ nthreads \in Nat /\ Cardinality(S) <= nthreads
  BY <1>1, ThreadsAssumption, FS_Subset, FS_CardinalityType DEF nthreads
<1>3. S # Threads => Cardinality(S) # nthreads
  BY ThreadsAssumption, FS_Subset DEF nthreads
<1>4. \A t \in S : Cardinality(S \ {t}) = Cardinality(S) - 1
  BY <1>1, FS_RemoveElement
<1>5. \A t \in Threads \ S : Cardinality(S \cup {t}) = Cardinality(S) + 1
  BY <1>1, FS_AddElement
<1> QED BY <1>1, <1>2, <1>3, <1>4, <1>5

-----------------------------------------------------------------------------
(* The steps *)

ClientInv == ClientTypeOK /\ StartInv /\ IdInv

\* recvReq and finiReq are steps of the client that its environment may take:
\* the response is one to a request that was returned.
LEMMA ClientSteps ==
  ASSUME ServerInv, NEW t \in Threads,
         RecvReq(t) \/ RecvReqReturn(t) \/ SendRespFini(t)
  PROVE  ClientNext
<1>1. CASE RecvReq(t)
  BY <1>1 DEF RecvReq, ClientNext, StartReqStep
<1>2. CASE RecvReqReturn(t)
  BY <1>2 DEF RecvReqReturn, ClientNext, StartReqStep
<1>3. CASE SendRespFini(t)
  <2>1. reqInfo[tid[t]] \in owed[t]
    BY <1>3 DEF SendRespFini, WGoto, ServerInv, OwnRequest
  <2> QED BY <1>3, <2>1 DEF SendRespFini, ClientNext
<1> QED BY <1>1, <1>2, <1>3

\* The count that ends the warm-up finds the client in its warm-up.
LEMMA WarmupEnds ==
  ASSUME ClientInv, ServerInv, NEW t \in Threads, SendRespCount(t),
         finishedReqs' = WarmupReqs
  PROVE  /\ status[0] = "WARMUP" /\ status' = [status EXCEPT ![0] = "ROI"]
         /\ samples' = [samples EXCEPT ![0] = {}]
         /\ dist' = [dist EXCEPT ![0] = TRUE]
         /\ UNCHANGED <<proc, lats>>
<1>1. finishedReqs < WarmupReqs
  BY WarmupReqsAssumption DEF SendRespCount, ServerInv, ServerTypes
<1>2. status[0] # "ROI"
  BY <1>1, WarmupReqsAssumption DEF ServerInv, ServerTypes, PhaseInv
<1>3. startedReqs[0] > 0
  BY DEF SendRespCount, WGoto, ServerInv, OwnRequest
<1>4. status[0] \in {"INIT", "WARMUP", "ROI"} /\ status[0] # "INIT"
  BY <1>3, TheClient DEF ClientInv, ClientTypeOK, StartInv, StartInvOf
<1>5. status[0] = "WARMUP"
  BY <1>2, <1>4
<1> QED BY <1>5 DEF SendRespCount, EnterRoi

\* What the count leaves alone, and the place it is made at.
LEMMA CountFacts ==
  ASSUME NEW t \in Threads, SendRespCount(t)
  PROVE  /\ proc = "running" /\ wpc[t] = "count"
         /\ wpc' = [wpc EXCEPT ![t] = "recv"]
         /\ finishedReqs' = finishedReqs + 1
         /\ UNCHANGED <<barrier, ready, startedReqs, inFlightReqs, publishing,
                        pc, req, owed, curTid, tid, reqInfo>>
         /\ finishedReqs' # WarmupReqs => UNCHANGED <<status, samples, dist>>
  BY DEF SendRespCount, WGoto, threadVars

LEMMA ClientInvCount ==
  ASSUME ClientInv, ServerInv, NEW t \in Threads, SendRespCount(t)
  PROVE  ClientInv'
<1> USE CountFacts DEF ClientInv
<1>1. CASE finishedReqs' = WarmupReqs
  <2>1. /\ status[0] = "WARMUP" /\ status' = [status EXCEPT ![0] = "ROI"]
        /\ samples' = [samples EXCEPT ![0] = {}]
        /\ dist' = [dist EXCEPT ![0] = TRUE]
        /\ UNCHANGED proc
    BY <1>1, WarmupEnds
  <2>2. ClientTypeOK'
    BY <2>1 DEF ClientTypeOK
  <2>3. StartInv'
    <3>1. StartInvOf(0)
      BY TheClient DEF StartInv
    <3>2. dist[0] /\ dist'[0] /\ status'[0] = "ROI"
      BY <2>1, <3>1, TheClient DEF StartInvOf, ClientTypeOK
    <3>3. ThreadsOf(0)' = ThreadsOf(0)
      BY DEF ThreadsOf
    <3>4. StartInvOf(0)'
      BY <3>1, <3>2, <3>3 DEF StartInvOf
    <3> QED BY <3>4, TheClient DEF StartInv
  <2>4. IdInv'
    BY <2>1, IdInvUnchanged DEF IdInv
  <2> QED BY <2>2, <2>3, <2>4
<1>2. CASE finishedReqs' # WarmupReqs
  <2>1. proc' \in {proc, "exited"}
    BY <1>2 DEF SendRespCount
  <2>2. ClientTypeOK'
    BY <1>2, <2>1 DEF ClientTypeOK
  <2>3. StartInv'
    BY <1>2 DEF StartInv, StartInvOf, ThreadsOf
  <2>4. proc' # "aborted"
    BY <2>1 DEF IdInv
  <2>5. IdInv'
    BY <2>4, IdInvUnchanged
  <2> QED BY <2>2, <2>3, <2>5
<1> QED BY <1>1, <1>2

LEMMA ClientInvStep ==
  ASSUME ClientInv, ServerInv, [IntegratedNext]_integratedVars
  PROVE  ClientInv'
<1>1. ASSUME [ClientNext]_vars
      PROVE  ClientInv'
  BY <1>1, TypeStep, StartInvStep, IdInvStep DEF ClientInv
<1>2. ASSUME NEW t \in Threads, ThreadStart(t)
      PROVE  ClientInv'
  BY <1>1, <1>2 DEF ThreadStart
<1>3. ASSUME NEW t \in Threads,
             RecvReq(t) \/ RecvReqReturn(t) \/ SendRespFini(t)
      PROVE  ClientInv'
  BY <1>1, <1>3, ClientSteps
<1>4. ASSUME NEW t \in Threads, SendRespCount(t)
      PROVE  ClientInv'
  BY <1>4, ClientInvCount
<1>5. CASE UNCHANGED integratedVars
  BY <1>1, <1>5 DEF integratedVars
<1> QED BY <1>2, <1>3, <1>4, <1>5 DEF IntegratedNext, WorkerStep

-----------------------------------------------------------------------------
(* The server *)

LEMMA TypesStep ==
  ASSUME ClientInv, ServerInv, [IntegratedNext]_integratedVars
  PROVE  ServerTypes' /\ TidInv'
<1> USE DEF ServerInv, ServerTypes
<1>1. ASSUME NEW t \in Threads, ThreadStart(t)
      PROVE  ServerTypes' /\ TidInv'
  <2>1. /\ wpc[t] = "new" /\ wpc' = [wpc EXCEPT ![t] = "recv"]
        /\ tid' = [tid EXCEPT ![t] = curTid] /\ curTid' = curTid + 1
        /\ UNCHANGED <<reqInfo, finishedReqs, lats>>
    BY <1>1 DEF ThreadStart, WGoto, NextTid
  <2>2. Started' = Started \cup {t} /\ t \notin Started /\ Started \subseteq Threads
    BY <2>1 DEF Started
  <2>3. Cardinality(Started') = Cardinality(Started) + 1
    BY <2>2, SetsOfThreads
  <2>4. TidInv'
    BY <2>1, <2>2, <2>3 DEF TidInv, Started
  <2> QED BY <2>1, <2>4
<1>2. ASSUME NEW t \in Threads, RecvReq(t)
      PROVE  ServerTypes' /\ TidInv'
  BY <1>2 DEF RecvReq, serverVars, TidInv, Started
<1>3. ASSUME NEW t \in Threads, RecvReqReturn(t)
      PROVE  ServerTypes' /\ TidInv'
  <2>1. req[t] \in Nat
    BY DEF ClientInv, ClientTypeOK
  <2>2. /\ wpc[t] = "recv" /\ wpc' = [wpc EXCEPT ![t] = "serve"]
        /\ reqInfo' = [reqInfo EXCEPT ![tid[t]] = req[t]]
        /\ UNCHANGED <<curTid, tid, finishedReqs, lats>>
    BY <1>3 DEF RecvReqReturn, WGoto
  <2>3. Started' = Started
    <3>1. Started' = Started \cup {t}
      BY <2>2 DEF Started
    <3> QED BY <2>2, <3>1 DEF Started
  <2> QED BY <2>1, <2>2, <2>3 DEF TidInv
<1>4. ASSUME NEW t \in Threads, SendRespFini(t)
      PROVE  ServerTypes' /\ TidInv'
  <2>2. /\ wpc[t] = "serve" /\ wpc' = [wpc EXCEPT ![t] = "count"]
        /\ UNCHANGED <<curTid, tid, reqInfo, finishedReqs, lats>>
    BY <1>4 DEF SendRespFini, WGoto
  <2>3. Started' = Started
    <3>1. Started' = Started \cup {t}
      BY <2>2 DEF Started
    <3> QED BY <2>2, <3>1 DEF Started
  <2> QED BY <2>2, <2>3 DEF TidInv
<1>5. ASSUME NEW t \in Threads, SendRespCount(t)
      PROVE  ServerTypes' /\ TidInv'
  <2>1. Started' = Started
    BY <1>5, CountFacts DEF Started
  <2>2. lats' \in SUBSET Nat
    <3>1. samples[0] \in SUBSET Nat
      BY TheClient DEF ClientInv, ClientTypeOK
    <3> QED BY <1>5, <3>1 DEF SendRespCount
  <2> QED BY <1>5, <2>1, <2>2, CountFacts DEF TidInv
<1>6. CASE UNCHANGED integratedVars
  BY <1>6 DEF integratedVars, serverVars, TidInv, Started
<1> QED BY <1>1, <1>2, <1>3, <1>4, <1>5, <1>6 DEF IntegratedNext, WorkerStep

\* The tids of started threads are indices of reqInfo.
LEMMA TidsFit ==
  ASSUME ServerInv, NEW t \in Threads, wpc[t] # "new"
  PROVE  tid[t] \in 0 .. nthreads - 1
<1>1. t \in Started /\ Started \subseteq Threads
  BY DEF Started
<1>2. Cardinality(Started) \in 0 .. nthreads
  BY <1>1, SetsOfThreads
<1>3. tid[t] \in Nat /\ tid[t] < Cardinality(Started)
  BY <1>1 DEF ServerInv, ServerTypes, TidInv
<1> QED BY <1>2, <1>3, TheClient

LEMMA OwnRequestStep ==
  ASSUME ClientInv, ServerInv, [IntegratedNext]_integratedVars
  PROVE  OwnRequest'
<1> USE DEF ServerInv, ServerTypes
<1>1. ASSUME NEW t \in Threads, ThreadStart(t)
      PROVE  OwnRequest'
  BY <1>1 DEF ThreadStart, WGoto, vars, threadVars, clientVars, OwnRequest
<1>2. ASSUME NEW t \in Threads, RecvReq(t)
      PROVE  OwnRequest'
  <2>1. UNCHANGED <<owed, wpc, tid, reqInfo>>
    BY <1>2 DEF RecvReq, serverVars, StartReq, BarrierWait, InitDist,
                CheckStatus, CheckStarted, CvWait, GenReq
  <2>2. UNCHANGED startedReqs
          \/ startedReqs' = [startedReqs EXCEPT ![0] = startedReqs[0] + 1]
    BY <1>2, TheClient DEF RecvReq, StartReq, BarrierWait, InitDist,
                CheckStatus, CheckStarted, CvWait, GenReq, clientVars
  <2>3. startedReqs[0] > 0 => startedReqs'[0] > 0
    BY <2>2, TheClient DEF ClientInv, ClientTypeOK
  <2> QED BY <2>1, <2>3 DEF OwnRequest
<1>3. ASSUME NEW t \in Threads, RecvReqReturn(t)
      PROVE  OwnRequest'
  <2>1. /\ wpc[t] = "recv" /\ wpc' = [wpc EXCEPT ![t] = "serve"]
        /\ reqInfo' = [reqInfo EXCEPT ![tid[t]] = req[t]]
        /\ owed' = [owed EXCEPT ![t] = owed[t] \cup {req[t]}]
        /\ pc[t] = "ret" /\ UNCHANGED <<tid, startedReqs>>
    BY <1>3 DEF RecvReqReturn, Return, WGoto, Goto, clientVars
  <2>2. startedReqs[0] > 0
    <3>1. req[t] \in IdsBelow(0, startedReqs[0])
      BY <2>1, TheClient DEF ClientInv, IdInv, Holds
    <3>2. startedReqs[0] \in Nat
      BY TheClient DEF ClientInv, ClientTypeOK
    <3> QED BY <3>1, <3>2 DEF IdsBelow
  <2>3. owed'[t] = {req[t]} /\ reqInfo'[tid[t]] = req[t]
    <3>1. owed[t] = {}
      BY <2>1 DEF OwnRequest
    <3>2. tid[t] \in 0 .. nthreads - 1
      BY <2>1, TidsFit
    <3> QED BY <2>1, <3>1, <3>2 DEF ClientInv, ClientTypeOK
  <2>4. \A u \in Threads \ {t} : wpc[u] = "serve" => reqInfo'[tid[u]] = reqInfo[tid[u]]
    <3> SUFFICES ASSUME NEW u \in Threads \ {t}, wpc[u] = "serve"
                 PROVE  reqInfo'[tid[u]] = reqInfo[tid[u]]
      OBVIOUS
    <3>1. tid[u] # tid[t]
      BY <2>1 DEF TidInv, Started
    <3>2. tid[u] \in 0 .. nthreads - 1
      BY TidsFit
    <3> QED BY <2>1, <3>1, <3>2
  <2> QED BY <2>1, <2>2, <2>3, <2>4 DEF OwnRequest, ClientInv, ClientTypeOK
<1>4. ASSUME NEW t \in Threads, SendRespFini(t)
      PROVE  OwnRequest'
  <2>1. /\ wpc[t] = "serve" /\ wpc' = [wpc EXCEPT ![t] = "count"]
        /\ owed' = [owed EXCEPT ![t] = owed[t] \ {reqInfo[tid[t]]}]
        /\ UNCHANGED <<tid, reqInfo, startedReqs>>
    BY <1>4 DEF SendRespFini, FiniReq, WGoto
  <2> QED BY <2>1 DEF OwnRequest, ClientInv, ClientTypeOK
<1>5. ASSUME NEW t \in Threads, SendRespCount(t)
      PROVE  OwnRequest'
  BY <1>5, CountFacts DEF OwnRequest
<1>6. CASE UNCHANGED integratedVars
  BY <1>6 DEF integratedVars, serverVars, vars, clientVars, threadVars, OwnRequest
<1> QED BY <1>1, <1>2, <1>3, <1>4, <1>5, <1>6 DEF IntegratedNext, WorkerStep

-----------------------------------------------------------------------------
(* The phases and the samples *)

\* Until it is about to count, a thread changes neither the phase to or from
\* the ROI, nor the count, nor the dump.
LEMMA ClientKeepsPhase ==
  ASSUME ClientInv, ServerInv, NEW t \in Threads,
         ThreadStart(t) \/ RecvReq(t) \/ RecvReqReturn(t) \/ SendRespFini(t)
  PROVE  /\ UNCHANGED <<finishedReqs, lats, proc>>
         /\ status'[0] = "ROI" <=> status[0] = "ROI"
<1>1. CASE ThreadStart(t) \/ RecvReqReturn(t)
  BY <1>1 DEF ThreadStart, RecvReqReturn, Return, vars, clientVars
<1>2. CASE RecvReq(t)
  <2>1. CASE InitDist(t) /\ ~dist[0]
    <3>1. status[0] = "INIT"
      BY <2>1, TheClient DEF ClientInv, StartInv, StartInvOf
    <3>2. status' = [status EXCEPT ![0] = "WARMUP"] /\ UNCHANGED proc
      BY <2>1, TheClient DEF InitDist
    <3> QED BY <1>2, <3>1, <3>2, TheClient
            DEF RecvReq, serverVars, ClientInv, ClientTypeOK
  <2>2. CASE ~ (InitDist(t) /\ ~dist[0])
    <3>1. UNCHANGED <<status, proc>>
      BY <1>2, <2>2, TheClient
         DEF RecvReq, StartReq, BarrierWait, InitDist, CheckStatus,
             CheckStarted, CvWait, GenReq, clientVars
    <3> QED BY <1>2, <3>1 DEF RecvReq, serverVars
  <2> QED BY <2>1, <2>2
<1>3. CASE SendRespFini(t)
  <2>1. reqInfo[tid[t]] \in inFlightReqs[ClientOf[t]]
    BY <1>3, FiniReqFinds DEF SendRespFini, WGoto, ServerInv, OwnRequest, ClientInv
  <2> QED BY <1>3, <2>1 DEF SendRespFini, FiniReq
<1> QED BY <1>1, <1>2, <1>3

LEMMA PhaseStep ==
  ASSUME ClientInv, ServerInv, [IntegratedNext]_integratedVars
  PROVE  PhaseInv'
<1> USE WarmupReqsAssumption DEF ServerInv, ServerTypes, PhaseInv
<1>1. ASSUME NEW t \in Threads,
             ThreadStart(t) \/ RecvReq(t) \/ RecvReqReturn(t) \/ SendRespFini(t)
      PROVE  PhaseInv'
  BY <1>1, ClientKeepsPhase
<1>2. ASSUME NEW t \in Threads, SendRespCount(t)
      PROVE  PhaseInv'
  <2>1. CASE finishedReqs' = WarmupReqs
    <3>1. status'[0] = "ROI"
      BY <1>2, <2>1, WarmupEnds, TheClient DEF ClientInv, ClientTypeOK
    <3> QED BY <2>1, <3>1
  <2>2. CASE finishedReqs' # WarmupReqs
    BY <1>2, <2>2, CountFacts
  <2> QED BY <2>1, <2>2
<1>3. CASE UNCHANGED integratedVars
  BY <1>3 DEF integratedVars, serverVars, vars, clientVars
<1> QED BY <1>1, <1>2, <1>3 DEF IntegratedNext, WorkerStep

\* A step that neither takes a sample nor counts.
LEMMA SampleInvKept ==
  ASSUME ServerInv, UNCHANGED <<samples, finishedReqs, Counting>>,
         status'[0] = "ROI" <=> status[0] = "ROI",
         inFlightReqs'[0] \cap samples[0] = {},
         IdsBelow(0, startedReqs[0]) \subseteq IdsBelow(0, startedReqs'[0])
  PROVE  SampleInv'
<1>1. IdsBelow(0, startedReqs[0])' = IdsBelow(0, startedReqs'[0])
  BY DEF IdsBelow
<1>2. nthreads' = nthreads
  BY DEF nthreads
<1> QED BY <1>1, <1>2 DEF ServerInv, SampleInv

LEMMA SampleInvRecv ==
  ASSUME ClientInv, ServerInv, NEW t \in Threads, RecvReq(t)
  PROVE  SampleInv'
<1>1. UNCHANGED <<samples, finishedReqs, Counting>>
  BY DEF RecvReq, serverVars, Counting, StartReq, BarrierWait, InitDist,
         CheckStatus, CheckStarted, CvWait, GenReq, clientVars
<1>2. startedReqs[0] \in Nat
  BY TheClient DEF ClientInv, ClientTypeOK
<1>3. CASE GenReq(t)
  <2> DEFINE n == startedReqs[0]
             id == ReqId(0, n)
  <2>1. /\ startedReqs'[0] = n + 1
        /\ inFlightReqs'[0] = inFlightReqs[0] \cup {id}
    BY <1>3, TheClient DEF GenReq, ClientInv, ClientTypeOK
  <2>2. id \notin samples[0]
    BY <1>2, NextIdIsNew, TheClient DEF ServerInv, SampleInv
  <2>3. IdsBelow(0, n) \subseteq IdsBelow(0, n + 1)
    BY <1>2, FewerIds, TheClient
  <2>4. inFlightReqs'[0] \cap samples[0] = {}
    BY <2>1, <2>2 DEF ServerInv, SampleInv
  <2>5. status'[0] = "ROI" <=> status[0] = "ROI"
    BY ClientKeepsPhase
  <2> QED BY <1>1, <2>1, <2>3, <2>4, <2>5, SampleInvKept
<1>4. CASE ~GenReq(t)
  <2>1. UNCHANGED <<startedReqs, inFlightReqs>>
    BY <1>4 DEF RecvReq, StartReq, BarrierWait, InitDist, CheckStatus,
                CheckStarted, CvWait, clientVars
  <2>2. inFlightReqs'[0] \cap samples[0] = {}
    BY <2>1 DEF ServerInv, SampleInv
  <2>3. status'[0] = "ROI" <=> status[0] = "ROI"
    BY ClientKeepsPhase
  <2> QED BY <1>1, <2>1, <2>2, <2>3, SampleInvKept
<1> QED BY <1>3, <1>4

\* A sample is taken, and the thread that took it is about to count it.
LEMMA SampleInvFini ==
  ASSUME ClientInv, ServerInv, NEW t \in Threads, SendRespFini(t)
  PROVE  SampleInv'
<1> DEFINE id == reqInfo[tid[t]]
<1>1. /\ wpc[t] = "serve" /\ wpc' = [wpc EXCEPT ![t] = "count"]
      /\ UNCHANGED <<finishedReqs, status, startedReqs>>
  BY DEF SendRespFini, WGoto, FiniReq
<1>2. id \in inFlightReqs[0]
  BY <1>1, FiniReqFinds, TheClient DEF ServerInv, OwnRequest, ClientInv
<1>3. /\ inFlightReqs'[0] = inFlightReqs[0] \ {id}
      /\ samples'[0] = IF status[0] = "ROI" THEN samples[0] \cup {id}
                       ELSE samples[0]
  <2>1. /\ inFlightReqs' = [inFlightReqs EXCEPT ![0] = inFlightReqs[0] \ {id}]
        /\ samples' = [samples EXCEPT ![0] = IF status[0] = "ROI"
                                             THEN samples[0] \cup {id}
                                             ELSE samples[0]]
    BY <1>2, TheClient DEF SendRespFini, FiniReq, Measured
  <2> QED BY <2>1, TheClient DEF ClientInv, ClientTypeOK
<1>4. Counting' = Counting \cup {t} /\ t \notin Counting /\ Counting \subseteq Threads
  <2>1. Counting' = Counting \cup {t}
    BY <1>1 DEF ServerInv, ServerTypes, Counting
  <2> QED BY <1>1, <2>1 DEF Counting
<1>5. Cardinality(Counting') = Cardinality(Counting) + 1 /\ Cardinality(Counting) \in Nat
  BY <1>4, SetsOfThreads
<1>6. id \notin samples[0] /\ id \in IdsBelow(0, startedReqs[0])
  BY <1>2, TheClient DEF ServerInv, SampleInv, ClientInv, IdInv
<1>7. /\ samples'[0] \subseteq IdsBelow(0, startedReqs'[0])
      /\ samples'[0] \cap inFlightReqs'[0] = {}
  BY <1>1, <1>3, <1>6 DEF ServerInv, SampleInv
<1>8. /\ IsFiniteSet(samples'[0])
      /\ status[0] = "ROI" => Cardinality(samples'[0]) = Cardinality(samples[0]) + 1
  BY <1>3, <1>6, FS_AddElement DEF ServerInv, SampleInv
<1>9. IdsBelow(0, startedReqs[0])' = IdsBelow(0, startedReqs'[0])
  BY DEF IdsBelow
<1>10. nthreads' = nthreads /\ nthreads \in Nat \ {0} /\ finishedReqs \in Nat
       /\ WarmupReqs \in Nat /\ Cardinality(samples[0]) \in Nat
  BY TheClient, WarmupReqsAssumption, FS_CardinalityType
     DEF nthreads, ServerInv, ServerTypes, SampleInv
<1>11. ASSUME status'[0] = "ROI"
       PROVE  LET due == finishedReqs' - WarmupReqs + Cardinality(Counting')
              IN Cardinality(samples'[0]) \in due - (nthreads - 1) .. due
  <2>1. status[0] = "ROI"
    BY <1>1, <1>11
  <2>2. LET due == finishedReqs - WarmupReqs + Cardinality(Counting)
        IN Cardinality(samples[0]) \in due - (nthreads - 1) .. due
    BY <2>1 DEF ServerInv, SampleInv
  <2> QED BY <1>1, <1>5, <1>8, <1>10, <2>1, <2>2
<1> QED BY <1>7, <1>8, <1>9, <1>10, <1>11 DEF SampleInv

LEMMA SampleInvCount ==
  ASSUME ClientInv, ServerInv, NEW t \in Threads, SendRespCount(t)
  PROVE  SampleInv'
<1>1. /\ wpc[t] = "count" /\ wpc' = [wpc EXCEPT ![t] = "recv"]
      /\ finishedReqs' = finishedReqs + 1
      /\ UNCHANGED <<startedReqs, inFlightReqs>>
  BY CountFacts
<1>2. Counting' = Counting \ {t} /\ t \in Counting /\ Counting \subseteq Threads
  <2>1. Counting' = Counting \ {t}
    BY <1>1 DEF ServerInv, ServerTypes, Counting
  <2> QED BY <1>1, <2>1 DEF Counting
<1>3. /\ Cardinality(Counting') = Cardinality(Counting) - 1
      /\ Cardinality(Counting) \in 0 .. nthreads
  BY <1>2, SetsOfThreads
<1>4. IdsBelow(0, startedReqs[0])' = IdsBelow(0, startedReqs[0])
  BY <1>1 DEF IdsBelow
<1>5. nthreads' = nthreads /\ nthreads \in Nat \ {0} /\ finishedReqs \in Nat
      /\ WarmupReqs \in Nat /\ Cardinality(samples[0]) \in Nat
  BY TheClient, WarmupReqsAssumption, FS_CardinalityType
     DEF nthreads, ServerInv, ServerTypes, SampleInv
<1>6. Cardinality(Counting') \in 0 .. nthreads - 1
  <2>1. Counting' \subseteq Threads /\ t \notin Counting'
    BY <1>2
  <2>2. Counting' \in SUBSET Threads /\ Counting' # Threads
    BY <2>1
  <2>3. /\ Cardinality(Counting') \in 0 .. nthreads
        /\ Cardinality(Counting') <= nthreads - 1
    BY <2>2, SetsOfThreads
  <2> QED BY <1>5, <2>3
<1>7. CASE finishedReqs' = WarmupReqs
  <2>1. samples'[0] = {}
    BY <1>7, WarmupEnds, TheClient DEF ClientInv, ClientTypeOK
  <2>2. IsFiniteSet(samples'[0]) /\ Cardinality(samples'[0]) = 0
    BY <2>1, FS_EmptySet
  <2>3. LET due == finishedReqs' - WarmupReqs + Cardinality(Counting')
        IN Cardinality(samples'[0]) \in due - (nthreads - 1) .. due
    BY <1>5, <1>6, <1>7, <2>2
  <2>4. /\ samples'[0] \subseteq IdsBelow(0, startedReqs'[0])
        /\ samples'[0] \cap inFlightReqs'[0] = {}
        /\ IdsBelow(0, startedReqs[0])' = IdsBelow(0, startedReqs'[0])
    BY <2>1 DEF IdsBelow
  <2> QED BY <1>5, <2>2, <2>3, <2>4 DEF SampleInv
<1>8. CASE finishedReqs' # WarmupReqs
  <2>1. UNCHANGED <<samples, status>>
    BY <1>8, CountFacts
  <2>2. finishedReqs' - WarmupReqs + Cardinality(Counting')
          = finishedReqs - WarmupReqs + Cardinality(Counting)
    BY <1>1, <1>3, <1>5
  <2>3. IdsBelow(0, startedReqs[0])' = IdsBelow(0, startedReqs[0])
    BY <1>4
  <2> QED BY <1>1, <1>5, <2>1, <2>2, <2>3 DEF ServerInv, SampleInv
<1> QED BY <1>7, <1>8

LEMMA SampleStep ==
  ASSUME ClientInv, ServerInv, [IntegratedNext]_integratedVars
  PROVE  SampleInv'
<1>1. ASSUME NEW t \in Threads, ThreadStart(t)
      PROVE  SampleInv'
  <2>1. wpc[t] = "new" /\ wpc' = [wpc EXCEPT ![t] = "recv"]
        /\ UNCHANGED <<samples, finishedReqs, status, inFlightReqs, startedReqs>>
    BY <1>1 DEF ThreadStart, WGoto, vars, clientVars
  <2>2. Counting' = Counting
    <3>1. Counting' = Counting \ {t}
      BY <2>1 DEF ServerInv, ServerTypes, Counting
    <3> QED BY <2>1, <3>1 DEF Counting
  <2> QED BY <2>1, <2>2, SampleInvKept DEF ServerInv, SampleInv
<1>2. ASSUME NEW t \in Threads, RecvReqReturn(t)
      PROVE  SampleInv'
  <2>1. wpc[t] = "recv" /\ wpc' = [wpc EXCEPT ![t] = "serve"]
        /\ UNCHANGED <<samples, finishedReqs, status, inFlightReqs, startedReqs>>
    BY <1>2 DEF RecvReqReturn, Return, WGoto, clientVars
  <2>2. Counting' = Counting
    <3>1. Counting' = Counting \ {t}
      BY <2>1 DEF ServerInv, ServerTypes, Counting
    <3> QED BY <2>1, <3>1 DEF Counting
  <2> QED BY <2>1, <2>2, SampleInvKept DEF ServerInv, SampleInv
<1>3. CASE UNCHANGED integratedVars
  BY <1>3, SampleInvKept
     DEF integratedVars, serverVars, vars, clientVars, Counting, ServerInv, SampleInv
<1> QED BY <1>1, <1>2, <1>3, SampleInvRecv, SampleInvFini, SampleInvCount
        DEF IntegratedNext, WorkerStep

\* The run ends at the count that reaches the quota, and the dump is what the
\* samples are then; nothing happens after it.
LEMMA DumpStep ==
  ASSUME ClientInv, ServerInv, [IntegratedNext]_integratedVars
  PROVE  DumpInv'
<1>1. ASSUME NEW t \in Threads,
             ThreadStart(t) \/ RecvReq(t) \/ RecvReqReturn(t) \/ SendRespFini(t)
      PROVE  DumpInv'
  <2>1. proc = "running"
    BY <1>1 DEF ThreadStart, RecvReq, RecvReqReturn, SendRespFini, StartReq,
                BarrierWait, InitDist, CheckStatus, CheckStarted, CvWait,
                GenReq, Return, FiniReq
  <2> QED BY <1>1, <2>1, ClientKeepsPhase DEF DumpInv
<1>2. ASSUME NEW t \in Threads, SendRespCount(t)
      PROVE  DumpInv'
  <2>1. SUFFICES ASSUME proc' = "exited"
                 PROVE  /\ lats' = samples'[0]
                        /\ finishedReqs' = WarmupReqs + MaxReqs
                        /\ Counting' # Threads
    BY DEF DumpInv
  <2>2. finishedReqs' # WarmupReqs
    BY <1>2, <2>1, WarmupEnds, CountFacts
  <2>3. /\ lats' = samples[0] /\ UNCHANGED samples
        /\ finishedReqs' = WarmupReqs + MaxReqs
    BY <1>2, <2>1, <2>2 DEF SendRespCount, EndsRun
  <2>4. t \notin Counting'
    BY <1>2, CountFacts DEF Counting, ServerInv, ServerTypes
  <2> QED BY <2>3, <2>4
<1>3. CASE UNCHANGED integratedVars
  BY <1>3 DEF integratedVars, serverVars, vars, clientVars, Counting,
              ServerInv, DumpInv
<1> QED BY <1>1, <1>2, <1>3 DEF IntegratedNext, WorkerStep

-----------------------------------------------------------------------------
(* The theorems *)

LEMMA Invariants == IntegratedSpec => [](ClientInv /\ ServerInv)
<1>1. IntegratedInit => ClientInv /\ ServerInv
  <2> SUFFICES ASSUME IntegratedInit
               PROVE  ClientInv /\ ServerInv
    OBVIOUS
  <2> USE DEF IntegratedInit
  <2>1. ClientTypeOK
    BY DEF ClientInit, ClientTypeOK, PC
  <2>2. StartInv
    BY DEF ClientInit, StartInv, StartInvOf, ThreadsOf, Mid
  <2>3. IdInv
    BY MaxStartedAssumption DEF ClientInit, IdInv, Holds, IdsBelow
  <2>4. ServerTypes
    BY DEF ServerTypes
  <2>5. TidInv
    <3>1. Started = {} /\ Cardinality({}) = 0
      BY FS_EmptySet DEF Started
    <3> QED BY <3>1 DEF TidInv
  <2>6. OwnRequest
    BY DEF ClientInit, OwnRequest
  <2>7. PhaseInv
    BY WarmupReqsAssumption, TheClient DEF ClientInit, PhaseInv
  <2>8. SampleInv
    BY FS_EmptySet, TheClient DEF ClientInit, SampleInv
  <2>9. DumpInv
    BY DEF ClientInit, DumpInv
  <2> QED BY <2>1, <2>2, <2>3, <2>4, <2>5, <2>6, <2>7, <2>8, <2>9
          DEF ClientInv, ServerInv
<1>2. ClientInv /\ ServerInv /\ [IntegratedNext]_integratedVars
        => ClientInv' /\ ServerInv'
  <2> SUFFICES ASSUME ClientInv, ServerInv, [IntegratedNext]_integratedVars
               PROVE  ClientInv' /\ ServerInv'
    OBVIOUS
  <2>1. ServerInv'
    BY TypesStep, OwnRequestStep, PhaseStep, SampleStep, DumpStep DEF ServerInv
  <2> QED BY <2>1, ClientInvStep
<1> QED BY <1>1, <1>2, PTL DEF IntegratedSpec

\* The variables of client and server keep their types, and tids index the
\* table of requests.
THEOREM IntegratedTypes == IntegratedSpec => []IntegratedTypeOK
<1>1. ClientInv /\ ServerInv => IntegratedTypeOK
  <2> SUFFICES ASSUME ClientInv, ServerInv
               PROVE  IntegratedTypeOK
    OBVIOUS
  <2>1. curTid \in 0 .. nthreads
    <3>1. Started \in SUBSET Threads
      BY DEF Started
    <3> QED BY <3>1, SetsOfThreads DEF ServerInv, TidInv
  <2>2. \A t \in Threads : wpc[t] # "new" => tid[t] \in 0 .. curTid - 1
    BY DEF ServerInv, ServerTypes, TidInv, Started
  <2> QED BY <2>1, <2>2 DEF IntegratedTypeOK, ClientInv, ServerInv, ServerTypes
<1> QED BY <1>1, Invariants, PTL

\* Each thread answers the request it was given, though the server knows it by
\* the thread's tid only, which sendResp gets as a parameter.
THEOREM ThreadsAnswerTheirOwn == IntegratedSpec => []RespondsToOwnRequest
<1>1. ServerInv => RespondsToOwnRequest
  BY DEF ServerInv, OwnRequest, RespondsToOwnRequest
<1> QED BY <1>1, Invariants, PTL

\* The integrated server never fails an assertion of the client in its process.
THEOREM IntegratedAssertionsHold == IntegratedSpec => []NoAssertFails
<1>1. ClientInv => NoAssertFails
  BY DEF ClientInv, IdInv, NoAssertFails
<1> QED BY <1>1, Invariants, PTL

\* However the two critical sections of sendResp interleave, the dump of a run
\* that has a warm-up misses fewer samples than there are threads, and has
\* fewer than that too many.  (Without a warm-up the ROI never begins, and the
\* dump is empty: the count is compared with warmupReqs after it was raised.)
THEOREM DumpIsTheMeasurement ==
  ASSUME WarmupReqs > 0
  PROVE  IntegratedSpec => []DumpedSamples
<1>1. ServerInv => DumpedSamples
  <2> SUFFICES ASSUME ServerInv, proc = "exited"
               PROVE  /\ Cardinality(lats) > MaxReqs - nthreads
                      /\ Cardinality(lats) < MaxReqs + nthreads
    BY DEF DumpedSamples
  <2>1. /\ lats = samples[0] /\ finishedReqs = WarmupReqs + MaxReqs
        /\ Counting # Threads /\ Counting \in SUBSET Threads
    BY DEF ServerInv, DumpInv, Counting
  <2>2. status[0] = "ROI"
    BY <2>1, WarmupReqsAssumption, MaxReqsAssumption DEF ServerInv, PhaseInv
  <2>3. LET due == finishedReqs - WarmupReqs + Cardinality(Counting)
        IN Cardinality(lats) \in due - (nthreads - 1) .. due
    BY <2>1, <2>2 DEF ServerInv, SampleInv
  <2>4. Cardinality(Counting) \in 0 .. nthreads - 1 /\ nthreads \in Nat \ {0}
    <3>1. /\ Cardinality(Counting) \in 0 .. nthreads
          /\ Cardinality(Counting) <= nthreads - 1
      BY <2>1, SetsOfThreads
    <3> QED BY <3>1, TheClient
  <2> QED BY <2>1, <2>3, <2>4, WarmupReqsAssumption, MaxReqsAssumption
<1> QED BY <1>1, Invariants, PTL

\* The composition still implements the measurement that the client promises:
\* ids are new, requests are answered once, what is answered in the ROI is what
\* is recorded.
THEOREM IntegratedImplementsMeasurement == IntegratedSpec => ImplementsMeasurement
<1>1. IntegratedInit => M!Init
  BY DEF IntegratedInit, ClientInit, M!Init, IdsBelow
<1>2. ClientInv /\ ServerInv /\ [IntegratedNext]_integratedVars
        => [M!Next]_M!measurement
  <2> SUFFICES ASSUME ClientInv, ServerInv, [IntegratedNext]_integratedVars
               PROVE  [M!Next]_M!measurement
    OBVIOUS
  <2>1. ASSUME [ClientNext]_vars
        PROVE  [M!Next]_M!measurement
    BY <2>1, StepSimulated DEF ClientInv
  <2>2. ASSUME NEW t \in Threads,
               ThreadStart(t) \/ RecvReq(t) \/ RecvReqReturn(t) \/ SendRespFini(t)
        PROVE  [M!Next]_M!measurement
    BY <2>1, <2>2, ClientSteps DEF ThreadStart
  <2>3. ASSUME NEW t \in Threads, SendRespCount(t)
        PROVE  [M!Next]_M!measurement
    <3>1. CASE finishedReqs' = WarmupReqs
      <4>1. /\ status[0] = "WARMUP" /\ status' = [status EXCEPT ![0] = "ROI"]
            /\ samples' = [samples EXCEPT ![0] = {}]
            /\ UNCHANGED <<startedReqs, inFlightReqs>>
        BY <2>3, <3>1, WarmupEnds, CountFacts
      <4>2. Issued' = Issued
        BY <4>1, IssuedUnchanged
      <4>3. M!BeginRoi(0)
        BY <4>1, <4>2 DEF M!BeginRoi, Issued
      <4> QED BY <4>3, TheClient DEF M!Next
    <3>2. CASE finishedReqs' # WarmupReqs
      <4>1. UNCHANGED Seen
        BY <2>3, <3>2, CountFacts DEF Seen
      <4> QED BY <4>1, NothingSeen
    <3> QED BY <3>1, <3>2
  <2>4. CASE UNCHANGED integratedVars
    BY <2>1, <2>4 DEF integratedVars
  <2> QED BY <2>2, <2>3, <2>4 DEF IntegratedNext, WorkerStep
<1> QED BY <1>1, <1>2, Invariants, PTL
        DEF IntegratedSpec, ImplementsMeasurement, M!Spec
=============================================================================
