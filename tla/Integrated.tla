----------------------------- MODULE Integrated -----------------------------
(***************************************************************************)
(* The integrated configuration (harness/tbench_server_integrated.cpp):    *)
(* one IntegratedServer object is the Server and the only Client of the    *)
(* process, and every application thread runs                              *)
(*    tBenchServerThreadStart(); for (;;) { tBenchRecvReq; tBenchSendResp }*)
(* until the harness ends the process.  recvReq is Client::startReq, and   *)
(* sendResp is Client::finiReq followed by a second critical section of    *)
(* the same lock, which counts the request and ends warm-up and run.       *)
(*                                                                         *)
(* wpc[t]: new      before tBenchServerThreadStart                         *)
(*         recv     in or about to enter recvReq (pc[t] says where)        *)
(*         serve    processing, about to take the lock in finiReq          *)
(*         count    after finiReq, about to take the lock again            *)
(***************************************************************************)
EXTENDS Client

CONSTANTS WarmupReqs,   \* Server::warmupReqs
          MaxReqs       \* Server::maxReqs

ASSUME WarmupReqsAssumption == WarmupReqs \in Nat
ASSUME MaxReqsAssumption == MaxReqs \in Nat \ {0}
ASSUME OneClientAssumption == NClients = 1

VARIABLES wpc,           \* [Threads -> {"new", "recv", "serve", "count"}]
          curTid,        \* the atomic counter that numbers the threads
          tid,           \* [Threads -> Nat], the __thread variable
          reqInfo,       \* [0 .. nthreads - 1 -> Nat], reqInfo[tid].id
          finishedReqs,
          lats           \* the ids dumpStats wrote to lats.bin

serverVars == <<wpc, curTid, tid, reqInfo, finishedReqs, lats>>
integratedVars == <<vars, serverVars>>

nthreads == Cardinality(Threads)

IntegratedInit ==
  /\ ClientInit
  /\ wpc = [t \in Threads |-> "new"]
  /\ curTid = 0
  /\ tid = [t \in Threads |-> 0]
  /\ reqInfo = [i \in 0 .. nthreads - 1 |-> 0]
  /\ finishedReqs = 0
  /\ lats = {}

WGoto(t, from, to) == wpc[t] = from /\ wpc' = [wpc EXCEPT ![t] = to]

\* The value of curTid++, of ++curTid, and of a tid that nobody sets.
TidAfterIncrement == curTid + 1
TidUnset == 0
NextTid == curTid

\* tid = curTid++
ThreadStart(t) ==
  /\ proc = "running"
  /\ WGoto(t, "new", "recv")
  /\ tid' = [tid EXCEPT ![t] = NextTid]
  /\ curTid' = curTid + 1
  /\ UNCHANGED <<vars, reqInfo, finishedReqs, lats>>

\* recvReq, inside Client::startReq.
RecvReq(t) ==
  /\ wpc[t] = "recv"
  /\ \/ StartReq(t) \/ BarrierWait(t) \/ InitDist(t) \/ CheckStatus(t)
     \/ CheckStarted(t) \/ CvWait(t) \/ GenReq(t)
  /\ UNCHANGED serverVars

\* recvReq, after Client::startReq: reqInfo[id].id = req->id.
RecvReqReturn(t) ==
  /\ Return(t)
  /\ WGoto(t, "recv", "serve")
  /\ reqInfo' = [reqInfo EXCEPT ![tid[t]] = req[t]]
  /\ UNCHANGED <<curTid, tid, finishedReqs, lats>>

\* sendResp, up to the return of Client::finiReq.
SendRespFini(t) ==
  /\ FiniReq(t, reqInfo[tid[t]])
  /\ WGoto(t, "serve", "count")
  /\ UNCHANGED <<curTid, tid, reqInfo, finishedReqs, lats>>

\* The test on finishedReqs that ends the run, and one that is late.
EndsRunLate(n) == n = WarmupReqs + MaxReqs + 1
EndsRun(n) == n = WarmupReqs + MaxReqs

\* sendResp, the rest: _startRoi is called directly, under the lock, and the
\* process exits under the lock after dumpStats.
SendRespCount(t) ==
  /\ proc = "running"
  /\ WGoto(t, "count", "recv")
  /\ finishedReqs' = finishedReqs + 1
  /\ IF finishedReqs' = WarmupReqs
     THEN EnterRoi(0) /\ UNCHANGED lats
     ELSE /\ UNCHANGED <<status, samples, dist>>
          /\ IF EndsRun(finishedReqs')
             THEN lats' = samples[0] /\ proc' = "exited"
             ELSE UNCHANGED <<lats, proc>>
  /\ UNCHANGED <<barrier, ready, startedReqs, inFlightReqs, publishing,
                 threadVars, curTid, tid, reqInfo>>

WorkerStep(t) ==
  ThreadStart(t) \/ RecvReq(t) \/ RecvReqReturn(t) \/ SendRespFini(t)
    \/ SendRespCount(t)

IntegratedNext == \E t \in Threads : WorkerStep(t)

\* Application threads never stop calling the harness, every critical section
\* ends and the scheduler starves no thread.
IntegratedFairness == \A t \in Threads : WF_integratedVars(WorkerStep(t))

IntegratedSpec ==
  IntegratedInit /\ [][IntegratedNext]_integratedVars /\ IntegratedFairness

-----------------------------------------------------------------------------
(* Properties *)

\* Types, and every started thread has an entry of reqInfo of its own.
IntegratedTypeOK ==
  /\ ClientTypeOK
  /\ wpc \in [Threads -> {"new", "recv", "serve", "count"}]
  /\ curTid \in 0 .. nthreads
  /\ tid \in [Threads -> Nat]
  /\ reqInfo \in [0 .. nthreads - 1 -> Nat]
  /\ finishedReqs \in Nat
  /\ lats \in SUBSET Nat
  /\ \A t \in Threads : wpc[t] # "new" => tid[t] \in 0 .. curTid - 1

\* The response that goes out is the response to the thread's own request,
\* though the server's only record of it is indexed by tid.
RespondsToOwnRequest ==
  \A t \in Threads :
    wpc[t] = "serve" /\ proc = "running" => owed[t] = {reqInfo[tid[t]]}

\* finiReq and ++finishedReqs are separate critical sections (lines 71, 75),
\* so the samples dumped for a measurement of maxReqs requests miss fewer
\* than nthreads of them and hold fewer than nthreads of the next ones.
DumpedSamples ==
  proc = "exited" =>
    /\ Cardinality(lats) > MaxReqs - nthreads
    /\ Cardinality(lats) < MaxReqs + nthreads

\* The run ends by itself after the measurement period (lines 80-83), whatever
\* happens to the threads blocked at the gate when the ROI begins.
Terminates == <>(proc = "exited")
=============================================================================
