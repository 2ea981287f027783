------------------------------- MODULE Client -------------------------------
(***************************************************************************)
(* The load-generating Client of harness/client.{h,cpp}: startReq,         *)
(* finiReq and startRoi, called concurrently by several threads of one     *)
(* process that may hold several Client objects (TBENCH_NCLIENTS in        *)
(* tbench_client_networked.cpp; the integrated server is one Client).      *)
(*                                                                         *)
(* A step is a critical section of `lock' (or of `m'), or one unlocked     *)
(* read of shared state.  startReq reads `status' (twice) and              *)
(* `startedReqs' without the lock: each read is a step of its own.         *)
(*                                                                         *)
(* pc[t], where thread t is in startReq:                                   *)
(*   idle          outside startReq                                        *)
(*   bar1, bar2    about to call the first / second pthread_barrier_wait   *)
(*   wait1, wait2  blocked in it                                           *)
(*   init          between the barriers, about to take the lock            *)
(*   gate, gate2   about to read `status' / `startedReqs' (line 121)       *)
(*   cv, cvwait    about to test `ready' under m / blocked in cv.wait      *)
(*   gen           past the gate, about to take the lock                   *)
(*   ret           the id is allocated, in the pacing sleep                *)
(***************************************************************************)
EXTENDS Integers, FiniteSets

CONSTANTS NClients,          \* number of Client objects
          Threads,           \* the threads that call startReq
          ClientOf,          \* [Threads -> Clients], each thread's Client
          WarmupReqsClient,  \* warmupReqs_client
          MaxStarted         \* bound on startedReqs (unbounded in the code)

Clients == 0 .. NClients - 1
ThreadsOf(c) == {t \in Threads : ClientOf[t] = c}

ASSUME NClientsAssumption == NClients \in Nat \ {0}
ASSUME ThreadsAssumption == IsFiniteSet(Threads)
ASSUME ClientOfAssumption ==
  /\ ClientOf \in [Threads -> Clients]
  /\ \A c \in Clients : ThreadsOf(c) # {}
ASSUME WarmupAssumption == WarmupReqsClient \in Nat
ASSUME MaxStartedAssumption == MaxStarted \in Nat

VARIABLES status,        \* [Clients -> {"INIT", "WARMUP", "ROI"}]
          dist,          \* [Clients -> BOOLEAN], the arrival process exists
          barrier,       \* [Clients -> SUBSET Threads], blocked in barrier
          ready,         \* [Clients -> BOOLEAN], guarded by m
          startedReqs,   \* [Clients -> Nat]
          inFlightReqs,  \* [Clients -> SUBSET Nat], the keys of the map
          samples,       \* [Clients -> SUBSET Nat], ids behind sjrnTimes &c.
          publishing,    \* [Clients -> BOOLEAN], startRoi between its locks
          pc,            \* [Threads -> STRING]
          req,           \* [Threads -> Nat], req->id between its lock and return
          owed,          \* [Threads -> SUBSET Nat], returned, not answered
          proc           \* "running", "aborted" by a failed assert, "exited"

clientVars == <<status, dist, barrier, ready, startedReqs, inFlightReqs,
                samples, publishing>>
threadVars == <<pc, req, owed>>
vars == <<clientVars, threadVars, proc>>

PC == {"idle", "bar1", "wait1", "init", "bar2", "wait2", "gate", "gate2",
       "cv", "cvwait", "gen", "ret"}

\* The id of the k-th request of client c, and what it must not be: the same
\* for all clients, or below zero for the first request.
ReqIdOfOneClient(c, k) == k
ReqIdFromMinusOne(c, k) == (k - 1) * NClients + c
ReqId(c, k) == k * NClients + c

\* What the constructor leaves behind.
ClientInit ==
  /\ status = [c \in Clients |-> "INIT"]
  /\ dist = [c \in Clients |-> FALSE]
  /\ barrier = [c \in Clients |-> {}]
  /\ ready = [c \in Clients |-> FALSE]
  /\ startedReqs = [c \in Clients |-> 0]
  /\ inFlightReqs = [c \in Clients |-> {}]
  /\ samples = [c \in Clients |-> {}]
  /\ publishing = [c \in Clients |-> FALSE]
  /\ pc = [t \in Threads |-> "idle"]
  /\ req = [t \in Threads |-> 0]
  /\ owed = [t \in Threads |-> {}]
  /\ proc = "running"

-----------------------------------------------------------------------------
(* startReq *)

Goto(t, from, to) == pc[t] = from /\ pc' = [pc EXCEPT ![t] = to]

\* The request is generated and `status' is read without the lock.
StartReq(t) ==
  /\ proc = "running"
  /\ Goto(t, "idle", IF status[ClientOf[t]] = "INIT" THEN "bar1" ELSE "gate")
  /\ UNCHANGED <<clientVars, req, owed, proc>>

\* Where a thread goes when the barrier lets it through; the mutation has no
\* critical section after the first one.
AfterBarrierNoInit(p) == "gate"
AfterBarrier(p) == IF p \in {"bar1", "wait1"} THEN "init" ELSE "gate"

\* The count the barrier was created with, and one that misses a thread.
BarrierCountMissesOne(c) == Cardinality(ThreadsOf(c)) - 1
BarrierCount(c) == Cardinality(ThreadsOf(c))

\* pthread_barrier_wait: the thread that completes the count frees the others.
BarrierWait(t) ==
  LET c == ClientOf[t]
      arrived == barrier[c] \cup {t}
  IN /\ proc = "running"
     /\ pc[t] \in {"bar1", "bar2"}
     /\ IF Cardinality(arrived) = BarrierCount(c)
        THEN /\ barrier' = [barrier EXCEPT ![c] = {}]
             /\ pc' = [u \in Threads |-> IF u \in arrived
                                         THEN AfterBarrier(pc[u]) ELSE pc[u]]
        ELSE /\ barrier' = [barrier EXCEPT ![c] = arrived]
             /\ pc' = [pc EXCEPT ![t] = IF @ = "bar1" THEN "wait1" ELSE "wait2"]
     /\ UNCHANGED <<status, dist, ready, startedReqs, inFlightReqs, samples,
                    publishing, req, owed, proc>>

\* The first thread into this critical section starts the warm-up period and
\* re-creates the barrier (destroying one that has waiters loses them).
InitDist(t) ==
  LET c == ClientOf[t]
  IN /\ proc = "running"
     /\ Goto(t, "init", "bar2")
     /\ IF dist[c]
        THEN UNCHANGED <<status, dist, barrier>>
        ELSE /\ dist' = [dist EXCEPT ![c] = TRUE]
             /\ status' = [status EXCEPT ![c] = "WARMUP"]
             /\ barrier' = [barrier EXCEPT ![c] = {}]
     /\ UNCHANGED <<ready, startedReqs, inFlightReqs, samples, publishing,
                    req, owed, proc>>

\* The gate of line 121, its two unlocked reads one after the other.  Mutated:
\* closed in the ROI too; closed only at the quota, not above; closed one early.
CheckStatusIgnored(t) ==
  /\ proc = "running"
  /\ Goto(t, "gate", "gate2")
  /\ UNCHANGED <<clientVars, req, owed, proc>>

CheckStatus(t) ==
  /\ proc = "running"
  /\ Goto(t, "gate", IF status[ClientOf[t]] = "WARMUP" THEN "gate2" ELSE "gen")
  /\ UNCHANGED <<clientVars, req, owed, proc>>

CheckStartedExactly(t) ==
  /\ proc = "running"
  /\ Goto(t, "gate2", IF startedReqs[ClientOf[t]] = WarmupReqsClient
                      THEN "cv" ELSE "gen")
  /\ UNCHANGED <<clientVars, req, owed, proc>>

CheckStartedEarly(t) ==
  /\ proc = "running"
  /\ Goto(t, "gate2", IF startedReqs[ClientOf[t]] + 1 >= WarmupReqsClient
                      THEN "cv" ELSE "gen")
  /\ UNCHANGED <<clientVars, req, owed, proc>>

CheckStarted(t) ==
  /\ proc = "running"
  /\ Goto(t, "gate2", IF startedReqs[ClientOf[t]] >= WarmupReqsClient
                      THEN "cv" ELSE "gen")
  /\ UNCHANGED <<clientVars, req, owed, proc>>

\* cv.wait with its predicate: a spurious wake-up would only test it again.
CvWait(t) ==
  /\ proc = "running"
  /\ Goto(t, "cv", IF ready[ClientOf[t]] THEN "gen" ELSE "cvwait")
  /\ UNCHANGED <<clientVars, req, owed, proc>>

\* The id is allocated and the request becomes in flight, under the lock.
GenReq(t) ==
  LET c == ClientOf[t]
      id == ReqId(c, startedReqs[c])
  IN /\ proc = "running"
     /\ startedReqs[c] < MaxStarted
     /\ Goto(t, "gen", "ret")
     /\ startedReqs' = [startedReqs EXCEPT ![c] = @ + 1]
     /\ inFlightReqs' = [inFlightReqs EXCEPT ![c] = @ \cup {id}]
     /\ req' = [req EXCEPT ![t] = id]
     /\ UNCHANGED <<status, dist, barrier, ready, samples, publishing, owed,
                    proc>>

\* The pacing sleep ends and the caller gets the request.
Return(t) ==
  /\ proc = "running"
  /\ Goto(t, "ret", "idle")
  /\ owed' = [owed EXCEPT ![t] = @ \cup {req[t]}]
  /\ req' = [req EXCEPT ![t] = 0]
  /\ UNCHANGED <<clientVars, proc>>

-----------------------------------------------------------------------------
(* finiReq and startRoi *)

\* Whether the latency of a response counts, and a version that counts those
\* of the warm-up.
MeasuredAlways(c) == TRUE
Measured(c) == status[c] = "ROI"

\* finiReq on the response with this id, to a request t's startReq returned.
FiniReq(t, id) ==
  LET c == ClientOf[t]
  IN /\ proc = "running"
     /\ owed' = [owed EXCEPT ![t] = @ \ {id}]
     /\ IF id \in inFlightReqs[c]
        THEN /\ inFlightReqs' = [inFlightReqs EXCEPT ![c] = @ \ {id}]
             /\ samples' = [samples EXCEPT ![c] =
                              IF Measured(c) THEN @ \cup {id} ELSE @]
             /\ UNCHANGED proc
        ELSE proc' = "aborted" /\ UNCHANGED <<inFlightReqs, samples>>
     /\ UNCHANGED <<status, dist, barrier, ready, startedReqs, publishing,
                    pc, req>>

\* The body of _startRoi: the samples are dropped, the phase changes.
EnterRoi(c) ==
  IF status[c] = "WARMUP"
  THEN /\ status' = [status EXCEPT ![c] = "ROI"]
       /\ samples' = [samples EXCEPT ![c] = {}]
       /\ dist' = [dist EXCEPT ![c] = TRUE]
       /\ UNCHANGED proc
  ELSE proc' = "aborted" /\ UNCHANGED <<status, samples, dist>>

\* startRoi, its section under `lock'; `ready' is not published yet.
StartRoi(c) ==
  /\ proc = "running"
  /\ EnterRoi(c)
  /\ publishing' = [publishing EXCEPT ![c] = TRUE]
  /\ UNCHANGED <<barrier, ready, startedReqs, inFlightReqs, threadVars>>

\* The threads notify_all wakes up, and the one notify_one would.
WokenByNotifyOne(c) ==
  LET blocked == {t \in ThreadsOf(c) : pc[t] = "cvwait"}
  IN IF blocked = {} THEN {} ELSE {CHOOSE t \in blocked : TRUE}
Woken(c) == {t \in ThreadsOf(c) : pc[t] = "cvwait"}

\* startRoi, its section under `m': ready is set and notify_all wakes up.
PublishReady(c) ==
  /\ proc = "running"
  /\ publishing[c]
  /\ publishing' = [publishing EXCEPT ![c] = FALSE]
  /\ ready' = [ready EXCEPT ![c] = TRUE]
  /\ pc' = [t \in Threads |-> IF t \in Woken(c) THEN "cv" ELSE pc[t]]
  /\ UNCHANGED <<status, dist, barrier, startedReqs, inFlightReqs, samples,
                 req, owed, proc>>

-----------------------------------------------------------------------------
(* The component in an environment that answers a request at most once and *)
(* after startReq returned it, and ends a client's warm-up once, after the *)
(* client sent something.                                                  *)

StartReqStep(t) ==
  \/ StartReq(t) \/ BarrierWait(t) \/ InitDist(t) \/ CheckStatus(t)
  \/ CheckStarted(t) \/ CvWait(t) \/ GenReq(t) \/ Return(t)

EnvStartRoi(c) == startedReqs[c] > 0 /\ status[c] # "ROI" /\ StartRoi(c)

ClientNext ==
  \/ \E t \in Threads : StartReqStep(t) \/ \E id \in owed[t] : FiniReq(t, id)
  \/ \E c \in Clients : EnvStartRoi(c) \/ PublishReady(c)

\* A thread that runs keeps running, and so does the one inside startRoi;
\* nobody is obliged to call startReq, finiReq or startRoi.
ClientFairness ==
  /\ \A t \in Threads : WF_vars(StartReqStep(t) /\ pc[t] # "idle")
  /\ \A c \in Clients : WF_vars(PublishReady(c))

ClientSpec == ClientInit /\ [][ClientNext]_vars /\ ClientFairness

-----------------------------------------------------------------------------
(* Properties *)

IdsBelow(c, n) == {ReqId(c, k) : k \in 0 .. n - 1}

\* Types, and ids that were really allocated: by startReq of that client.
ClientTypeOK ==
  /\ status \in [Clients -> {"INIT", "WARMUP", "ROI"}]
  /\ dist \in [Clients -> BOOLEAN]
  /\ barrier \in [Clients -> SUBSET Threads]
  /\ ready \in [Clients -> BOOLEAN]
  /\ startedReqs \in [Clients -> Nat]
  /\ inFlightReqs \in [Clients -> SUBSET Nat]
  /\ samples \in [Clients -> SUBSET Nat]
  /\ publishing \in [Clients -> BOOLEAN]
  /\ pc \in [Threads -> PC]
  /\ req \in [Threads -> Nat]
  /\ owed \in [Threads -> SUBSET Nat]
  /\ proc \in {"running", "aborted", "exited"}

Starting == {"bar1", "wait1", "init", "bar2", "wait2"}

\* The start-up protocol of startReq (lines 102-120): no request of a client
\* is generated before every one of its threads is through both barriers, and
\* a thread that skips the barriers finds the arrival process in place.
StartTogether ==
  \A c \in Clients :
    /\ startedReqs[c] > 0 =>
         \A t \in ThreadsOf(c) : pc[t] \notin Starting
    /\ \A t \in ThreadsOf(c) :
         pc[t] \in PC \ (Starting \cup {"idle"}) => dist[c] /\ status[c] # "INIT"

\* A thread past the gate will start one more request, whatever happens.
Passed(c) == {t \in ThreadsOf(c) : pc[t] = "gen"}

\* The gate of line 121 is check-then-act: while the client warms up, the
\* requests its threads started, and those they are past the gate to start,
\* overshoot the warm-up quota by less than the number of threads.
WarmupOvershoot ==
  \A c \in Clients :
    status[c] = "WARMUP" =>
      startedReqs[c] + Cardinality(Passed(c))
        < WarmupReqsClient + Cardinality(ThreadsOf(c))

\* No assertion of finiReq (line 150) or _startRoi (line 179) fails, though
\* ids are allocated by many threads of several clients and finiReq is called
\* by threads other than the one that started the request.
NoAssertFails == proc # "aborted"

\* Every request somebody still has to answer is in flight in its own client,
\* and no other thread or client has a request with that id.
OwedInFlight ==
  \A t \in Threads : \A id \in owed[t] :
    /\ id \in inFlightReqs[ClientOf[t]]
    /\ \A u \in Threads \ {t} : id \notin owed[u]
    /\ \A c \in Clients \ {ClientOf[t]} : id \notin inFlightReqs[c]

\* No wake-up is lost (lines 121-126 against 194-201): a thread blocked at the
\* gate of a client that has left its warm-up is about to be notified.
NoLostWakeup ==
  \A t \in Threads :
    LET c == ClientOf[t]
    IN pc[t] = "cvwait" /\ status[c] = "ROI" => publishing[c]

\* A thread that is at the gate when startRoi is under way gets through it.
GateOpens ==
  \A t \in Threads :
    (pc[t] \in {"gate2", "cv", "cvwait"} /\ publishing[ClientOf[t]])
      ~> (pc[t] = "gen")

\* The detailed client implements the measurement it promises.
M == INSTANCE Measurement WITH
       Id <- UNION {IdsBelow(c, MaxStarted) : c \in Clients}, phase <- status, pending <- inFlightReqs,
       recorded <- samples,
       issued <- UNION {IdsBelow(c, startedReqs[c]) : c \in Clients}

\* Every step of the client is a step of Measurement, or changes nothing there.
ImplementsMeasurement == M!Spec
=============================================================================
