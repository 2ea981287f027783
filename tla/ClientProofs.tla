---------------------------- MODULE ClientProofs ----------------------------
(***************************************************************************)
(* Proofs about module Client, for every number of clients, every set of   *)
(* threads, every distribution of the threads over the clients and every   *)
(* warm-up quota; and that Client implements Measurement: ids are unique,  *)
(* what somebody still has to answer is in flight, and every step of the   *)
(* detailed client is a step of the abstract one or changes nothing there. *)
(***************************************************************************)
EXTENDS Client, FiniteSetTheorems, TLAPS

USE ClientOfAssumption

LEMMA ClientsInNat == Clients \subseteq Nat
  BY NClientsAssumption DEF Clients

LEMMA ClientOfThread == \A t \in Threads : ClientOf[t] \in Clients
  OBVIOUS

\* The steps of the component, one action each.
LEMMA Steps ==
  ASSUME ClientNext
  PROVE  \/ \E t \in Threads :
              \/ StartReq(t) \/ BarrierWait(t) \/ InitDist(t) \/ CheckStatus(t)
              \/ CheckStarted(t) \/ CvWait(t) \/ GenReq(t) \/ Return(t)
              \/ \E id \in owed[t] : FiniReq(t, id)
         \/ \E c \in Clients : EnvStartRoi(c) \/ PublishReady(c)
  BY DEF ClientNext, StartReqStep

-----------------------------------------------------------------------------
(* Types *)

LEMMA ReqIdType ==
  ASSUME NEW c \in Clients, NEW k \in Nat
  PROVE  ReqId(c, k) \in Nat
  BY ClientsInNat, NClientsAssumption, Z3 DEF ReqId

LEMMA TypeStep ==
  ASSUME ClientTypeOK, [ClientNext]_vars
  PROVE  ClientTypeOK'
<1> USE DEF ClientTypeOK
<1>1. ASSUME NEW t \in Threads, StartReq(t)
      PROVE  ClientTypeOK'
  BY <1>1 DEF StartReq, Goto, PC, clientVars
<1>2. ASSUME NEW t \in Threads, BarrierWait(t)
      PROVE  ClientTypeOK'
  <2> DEFINE c == ClientOf[t]
             arrived == barrier[c] \cup {t}
  <2>1. pc' \in [Threads -> PC] /\ barrier' \in [Clients -> SUBSET Threads]
    <3>1. CASE Cardinality(arrived) = Cardinality(ThreadsOf(c))
      <4>1. \A p \in PC : AfterBarrier(p) \in PC
        BY DEF AfterBarrier, PC
      <4>2. pc' = [u \in Threads |-> IF u \in arrived
                                     THEN AfterBarrier(pc[u]) ELSE pc[u]]
        BY <1>2, <3>1 DEF BarrierWait, BarrierCount
      <4>3. pc' \in [Threads -> PC]
        BY <4>1, <4>2
      <4>4. barrier' = [barrier EXCEPT ![c] = {}]
        BY <1>2, <3>1 DEF BarrierWait, BarrierCount
      <4> QED BY <4>3, <4>4
    <3>2. CASE Cardinality(arrived) # Cardinality(ThreadsOf(c))
      <4>1. /\ barrier' = [barrier EXCEPT ![c] = arrived]
            /\ pc' = [pc EXCEPT ![t] = IF pc[t] = "bar1" THEN "wait1"
                                       ELSE "wait2"]
        BY <1>2, <3>2 DEF BarrierWait, BarrierCount
      <4>2. arrived \in SUBSET Threads
        OBVIOUS
      <4> QED BY <4>1, <4>2 DEF PC
    <3> QED BY <3>1, <3>2
  <2> QED BY <1>2, <2>1 DEF BarrierWait, BarrierCount
<1>3. ASSUME NEW t \in Threads, InitDist(t)
      PROVE  ClientTypeOK'
  BY <1>3 DEF InitDist, Goto, PC
<1>4. ASSUME NEW t \in Threads, CheckStatus(t)
      PROVE  ClientTypeOK'
  BY <1>4 DEF CheckStatus, Goto, PC, clientVars
<1>5. ASSUME NEW t \in Threads, CheckStarted(t)
      PROVE  ClientTypeOK'
  BY <1>5 DEF CheckStarted, Goto, PC, clientVars
<1>6. ASSUME NEW t \in Threads, CvWait(t)
      PROVE  ClientTypeOK'
  BY <1>6 DEF CvWait, Goto, PC, clientVars
<1>7. ASSUME NEW t \in Threads, GenReq(t)
      PROVE  ClientTypeOK'
  <2>1. ReqId(ClientOf[t], startedReqs[ClientOf[t]]) \in Nat
    BY ReqIdType
  <2> QED BY <1>7, <2>1 DEF GenReq, Goto, PC
<1>8. ASSUME NEW t \in Threads, Return(t)
      PROVE  ClientTypeOK'
  BY <1>8 DEF Return, Goto, PC, clientVars
<1>9. ASSUME NEW t \in Threads, NEW id \in owed[t], FiniReq(t, id)
      PROVE  ClientTypeOK'
  <2>1. id \in Nat
    OBVIOUS
  <2>2. CASE id \in inFlightReqs[ClientOf[t]]
    BY <1>9, <2>1, <2>2 DEF FiniReq
  <2>3. CASE id \notin inFlightReqs[ClientOf[t]]
    BY <1>9, <2>3 DEF FiniReq
  <2> QED BY <2>2, <2>3
<1>10. ASSUME NEW c \in Clients, EnvStartRoi(c)
       PROVE  ClientTypeOK'
  BY <1>10 DEF EnvStartRoi, StartRoi, EnterRoi, threadVars
<1>11. ASSUME NEW c \in Clients, PublishReady(c)
       PROVE  ClientTypeOK'
  BY <1>11 DEF PublishReady, Woken, ThreadsOf, PC
<1>12. ASSUME UNCHANGED vars
       PROVE  ClientTypeOK'
  BY <1>12 DEF vars, clientVars, threadVars
<1> QED BY <1>1, <1>2, <1>3, <1>4, <1>5, <1>6, <1>7, <1>8, <1>9, <1>10,
           <1>11, <1>12, Steps

\* The client's variables keep their types: no operation leaves them.
THEOREM TypeCorrect == ClientSpec => []ClientTypeOK
<1>1. ClientInit => ClientTypeOK
  BY DEF ClientInit, ClientTypeOK, PC
<1> QED BY <1>1, TypeStep, PTL DEF ClientSpec

-----------------------------------------------------------------------------
(* The start-up protocol *)

Mid == {"init", "bar2", "wait2"}

\* Nobody of client c is past the first barrier before dist is set, nobody is
\* before it once dist is set, and nobody is between the barriers unless
\* everybody is.
StartInvOf(c) ==
  /\ barrier[c] = {t \in ThreadsOf(c) : pc[t] \in {"wait1", "wait2"}}
  /\ dist[c] <=> status[c] # "INIT"
  /\ ~dist[c] =>
       \A t \in ThreadsOf(c) : pc[t] \in {"idle", "bar1", "wait1", "init"}
  /\ dist[c] => \A t \in ThreadsOf(c) : pc[t] \notin {"bar1", "wait1"}
  /\ \A t, u \in ThreadsOf(c) : pc[t] \in Mid => pc[u] \in Mid
  /\ startedReqs[c] > 0 => dist[c] /\ \A t \in ThreadsOf(c) : pc[t] \notin Mid

StartInv == \A c \in Clients : StartInvOf(c)

\* A barrier that counts as many threads as the client has holds all of them.
LEMMA FullBarrier ==
  ASSUME NEW c \in Clients, NEW S \in SUBSET ThreadsOf(c),
         Cardinality(S) = Cardinality(ThreadsOf(c))
  PROVE  S = ThreadsOf(c)
<1>1. ThreadsOf(c) \in SUBSET Threads
  BY DEF ThreadsOf
<1>2. IsFiniteSet(ThreadsOf(c))
  BY <1>1, ThreadsAssumption, FS_Subset
<1> QED BY <1>2, FS_Subset

\* A thread belongs to one client only.
LEMMA OneClient ==
  ASSUME NEW c \in Clients, NEW t \in ThreadsOf(c)
  PROVE  t \in Threads /\ ClientOf[t] = c
  BY DEF ThreadsOf

LEMMA StartInvStep ==
  ASSUME ClientTypeOK, StartInv, [ClientNext]_vars
  PROVE  StartInv'
<1> SUFFICES ASSUME NEW c \in Clients
             PROVE  StartInvOf(c)'
  BY DEF StartInv
<1> USE DEF StartInvOf, Mid, ClientTypeOK
<1>0. StartInvOf(c)
  BY DEF StartInv
<1>11. ThreadsOf(c)' = ThreadsOf(c) /\ ThreadsOf(c) \subseteq Threads
  BY DEF ThreadsOf
<1>1. ASSUME NEW t \in Threads, StartReq(t)
      PROVE  StartInvOf(c)'
  BY <1>0, <1>1, <1>11, OneClient DEF StartReq, Goto, clientVars, ThreadsOf
<1>2. ASSUME NEW t \in Threads, BarrierWait(t)
      PROVE  StartInvOf(c)'
  <2> DEFINE d == ClientOf[t]
             arrived == barrier[d] \cup {t}
  <2>1. UNCHANGED <<status, dist, startedReqs>> /\ pc[t] \in {"bar1", "bar2"}
    BY <1>2 DEF BarrierWait, BarrierCount
  <2>2. CASE c # d
    <3>1. \A u \in arrived : u \notin ThreadsOf(c)
      BY <2>2 DEF StartInv, ThreadsOf
    <3>2. barrier'[c] = barrier[c] /\ \A u \in ThreadsOf(c) : pc'[u] = pc[u]
      BY <1>2, <1>11, <2>2, <3>1 DEF BarrierWait, BarrierCount
    <3> QED BY <1>0, <1>11, <2>1, <3>2
  <2>3. CASE c = d
    <3>1. t \in ThreadsOf(c) /\ arrived \in SUBSET ThreadsOf(c)
      BY <1>0, <2>3 DEF ThreadsOf
    <3>2. CASE Cardinality(arrived) = Cardinality(ThreadsOf(d))
      <4>1. arrived = ThreadsOf(c)
        BY <2>3, <3>1, <3>2, FullBarrier
      <4>2. \A u \in ThreadsOf(c) : pc'[u] = AfterBarrier(pc[u])
        BY <1>2, <1>11, <2>3, <3>2, <4>1 DEF BarrierWait, BarrierCount
      <4>3. barrier'[c] = {}
        BY <1>2, <2>3, <3>2 DEF BarrierWait, BarrierCount
      <4>6. \A u \in ThreadsOf(c) : u = t \/ pc[u] \in {"wait1", "wait2"}
        <5>1. barrier[c] = {u \in ThreadsOf(c) : pc[u] \in {"wait1", "wait2"}}
          BY <1>0
        <5> QED BY <2>3, <4>1, <5>1
      <4>4. CASE pc[t] = "bar1"
        <5>4. ~dist[c]
          BY <1>0, <3>1, <4>4
        <5>1. ~dist[c] /\ \A u \in ThreadsOf(c) : pc[u] \in {"bar1", "wait1"}
          BY <1>0, <4>6, <4>4, <5>4
        <5>2. \A u \in ThreadsOf(c) : pc'[u] = "init"
          BY <4>2, <5>1 DEF AfterBarrier
        <5>3. status'[c] = "INIT" /\ ~dist'[c] /\ ~(startedReqs'[c] > 0)
          BY <1>0, <2>1, <5>1
        <5> QED BY <1>11, <4>3, <5>2, <5>3
      <4>5. CASE pc[t] = "bar2"
        <5>4. dist[c]
          BY <1>0, <3>1, <4>5
        <5>1. dist[c] /\ \A u \in ThreadsOf(c) : pc[u] \in {"bar2", "wait2"}
          BY <1>0, <4>6, <4>5, <5>4
        <5>2. \A u \in ThreadsOf(c) : pc'[u] = "gate"
          BY <4>2, <5>1 DEF AfterBarrier
        <5> QED BY <1>0, <1>11, <2>1, <4>3, <5>1, <5>2
      <4> QED BY <2>1, <4>4, <4>5
    <3>3. CASE Cardinality(arrived) # Cardinality(ThreadsOf(d))
      <4>1. /\ barrier' = [barrier EXCEPT ![c] = arrived]
            /\ pc' = [pc EXCEPT ![t] = IF pc[t] = "bar1" THEN "wait1"
                                       ELSE "wait2"]
        BY <1>2, <2>3, <3>3 DEF BarrierWait, BarrierCount
      <4> QED BY <1>0, <1>11, <2>1, <2>3, <3>1, <4>1
    <3> QED BY <3>2, <3>3
  <2> QED BY <2>2, <2>3
<1>3. ASSUME NEW t \in Threads, InitDist(t)
      PROVE  StartInvOf(c)'
  <2>1. /\ pc[t] = "init" /\ pc' = [pc EXCEPT ![t] = "bar2"]
        /\ UNCHANGED startedReqs
    BY <1>3 DEF InitDist, Goto
  <2>2. CASE ClientOf[t] # c
    <3>1. t \notin ThreadsOf(c)
      BY <2>2 DEF ThreadsOf
    <3>2. /\ status'[c] = status[c] /\ dist'[c] = dist[c]
          /\ barrier'[c] = barrier[c]
      BY <1>3, <2>2 DEF InitDist
    <3>3. \A u \in ThreadsOf(c) : pc'[u] = pc[u]
      BY <1>11, <2>1, <3>1
    <3> QED BY <1>0, <1>11, <2>1, <3>2, <3>3
  <2>3. CASE ClientOf[t] = c /\ dist[c]
    <3>1. t \in ThreadsOf(c)
      BY <2>3 DEF ThreadsOf
    <3>2. UNCHANGED <<status, dist, barrier>>
      BY <1>3, <2>3 DEF InitDist
    <3> QED BY <1>0, <1>11, <2>1, <2>3, <3>1, <3>2
  <2>4. CASE ClientOf[t] = c /\ ~dist[c]
    <3>1. t \in ThreadsOf(c)
      BY <2>4 DEF ThreadsOf
    <3>2. \A u \in ThreadsOf(c) : pc[u] = "init"
      BY <1>0, <2>1, <2>4, <3>1
    <3>3. dist'[c] /\ status'[c] = "WARMUP" /\ barrier'[c] = {}
      BY <1>3, <2>4 DEF InitDist
    <3>4. ~(startedReqs'[c] > 0)
      BY <1>0, <2>1, <2>4
    <3> QED BY <1>11, <2>1, <3>1, <3>2, <3>3, <3>4
  <2> QED BY <2>2, <2>3, <2>4
<1>4. ASSUME NEW t \in Threads, CheckStatus(t) \/ CheckStarted(t) \/ CvWait(t)
      PROVE  StartInvOf(c)'
  <2>1. /\ UNCHANGED clientVars
        /\ \E p \in {"gate2", "cv", "cvwait", "gen"} :
             pc[t] \in {"gate", "gate2", "cv"} /\ pc' = [pc EXCEPT ![t] = p]
    BY <1>4 DEF CheckStatus, CheckStarted, CvWait, Goto
  <2> QED BY <1>0, <1>11, <2>1 DEF clientVars
<1>5. ASSUME NEW t \in Threads, GenReq(t)
      PROVE  StartInvOf(c)'
  <2>1. /\ pc[t] = "gen" /\ pc' = [pc EXCEPT ![t] = "ret"]
        /\ UNCHANGED <<status, dist, barrier>>
        /\ startedReqs' = [startedReqs EXCEPT ![ClientOf[t]] =
                             startedReqs[ClientOf[t]] + 1]
    BY <1>5 DEF GenReq, Goto
  <2>2. CASE ClientOf[t] = c
    <3>1. t \in ThreadsOf(c)
      BY <2>2 DEF ThreadsOf
    <3>2. dist[c] /\ \A u \in ThreadsOf(c) : pc[u] \notin Mid
      BY <1>0, <2>1, <3>1
    <3> QED BY <1>0, <1>11, <2>1, <3>1, <3>2
  <2>3. CASE ClientOf[t] # c
    <3>1. t \notin ThreadsOf(c) /\ startedReqs'[c] = startedReqs[c]
      BY <2>1, <2>3 DEF ThreadsOf
    <3> QED BY <1>0, <1>11, <2>1, <3>1
  <2> QED BY <2>2, <2>3
<1>6. ASSUME NEW t \in Threads, Return(t)
      PROVE  StartInvOf(c)'
  BY <1>0, <1>6, <1>11 DEF Return, Goto, clientVars
<1>7. ASSUME NEW t \in Threads, NEW id \in owed[t], FiniReq(t, id)
      PROVE  StartInvOf(c)'
  BY <1>0, <1>7, <1>11 DEF FiniReq
<1>8. ASSUME NEW d \in Clients, EnvStartRoi(d)
      PROVE  StartInvOf(c)'
  <2>1. UNCHANGED <<pc, barrier, startedReqs>>
    BY <1>8 DEF EnvStartRoi, StartRoi, threadVars
  <2>2. \/ UNCHANGED <<status, dist>>
        \/ /\ status[d] = "WARMUP"
           /\ status' = [status EXCEPT ![d] = "ROI"]
           /\ dist' = [dist EXCEPT ![d] = TRUE]
    BY <1>8 DEF EnvStartRoi, StartRoi, EnterRoi
  <2>3. dist'[c] = dist[c] /\ (status'[c] # "INIT" <=> status[c] # "INIT")
    BY <1>0, <2>2
  <2> QED BY <1>0, <1>11, <2>1, <2>3
<1>9. ASSUME NEW d \in Clients, PublishReady(d)
      PROVE  StartInvOf(c)'
  <2>1. UNCHANGED <<status, dist, barrier, startedReqs>>
    BY <1>9 DEF PublishReady, Woken, ThreadsOf
  <2>2. \A u \in Threads : \/ pc'[u] = pc[u]
                           \/ pc[u] = "cvwait" /\ pc'[u] = "cv"
    BY <1>9 DEF PublishReady, Woken, ThreadsOf
  <2> QED BY <1>0, <1>11, <2>1, <2>2
<1>10. ASSUME UNCHANGED vars
       PROVE  StartInvOf(c)'
  BY <1>0, <1>10, <1>11 DEF vars, clientVars, threadVars
<1> QED BY <1>1, <1>2, <1>3, <1>4, <1>5, <1>6, <1>7, <1>8, <1>9, <1>10, Steps

LEMMA StartInvariant == ClientSpec => []StartInv
<1>1. ClientInit => StartInv
  BY DEF ClientInit, StartInv, StartInvOf, ThreadsOf, Mid
<1> QED BY <1>1, StartInvStep, TypeCorrect, PTL DEF ClientSpec

\* All the threads of a client start to send together, whatever their number
\* and however the barrier calls, the re-creation of the barrier and the
\* unlocked read of `status' interleave.
THEOREM ThreadsStartTogether == ClientSpec => []StartTogether
<1>1. ClientTypeOK /\ StartInv => StartTogether
  BY DEF StartTogether, StartInv, StartInvOf, Starting, Mid, PC, ThreadsOf,
         ClientTypeOK
<1> QED BY <1>1, StartInvariant, TypeCorrect, PTL

-----------------------------------------------------------------------------
(* The gate between warm-up and ROI *)

\* ready is only ever set in the ROI, a thread blocks only while it is not
\* set, and in the ROI it is set or startRoi is about to set it.
GateInv ==
  /\ \A c \in Clients : status[c] = "ROI" <=> ready[c] \/ publishing[c]
  /\ \A t \in Threads : pc[t] = "cvwait" => ~ready[ClientOf[t]]

LEMMA GateInvStep ==
  ASSUME ClientTypeOK, StartInv, GateInv, [ClientNext]_vars
  PROVE  GateInv'
<1> USE DEF ClientTypeOK, GateInv
<1>1. ASSUME NEW t \in Threads, StartReq(t) \/ CheckStatus(t) \/ CheckStarted(t)
      PROVE  GateInv'
  <2>1. /\ UNCHANGED clientVars
        /\ \E p \in {"bar1", "gate", "gate2", "gen", "cv"} :
             pc' = [pc EXCEPT ![t] = p]
    BY <1>1 DEF StartReq, CheckStatus, CheckStarted, Goto
  <2> QED BY <2>1 DEF clientVars
<1>2. ASSUME NEW t \in Threads, BarrierWait(t)
      PROVE  GateInv'
  <2>1. UNCHANGED <<status, ready, publishing>>
    BY <1>2 DEF BarrierWait, BarrierCount
  <2>2. \A u \in Threads : pc'[u] = "cvwait" => pc[u] = "cvwait"
    <3>1. \A p \in PC : AfterBarrier(p) # "cvwait"
      BY DEF AfterBarrier
    <3> QED BY <1>2, <3>1 DEF BarrierWait, BarrierCount
  <2> QED BY <2>1, <2>2
<1>3. ASSUME NEW t \in Threads, InitDist(t)
      PROVE  GateInv'
  <2> DEFINE c == ClientOf[t]
  <2>1. UNCHANGED <<ready, publishing>> /\ pc' = [pc EXCEPT ![t] = "bar2"]
    BY <1>3 DEF InitDist, Goto
  <2>2. CASE UNCHANGED status
    BY <2>1, <2>2
  <2>3. CASE ~dist[c] /\ status' = [status EXCEPT ![c] = "WARMUP"]
    <3>1. status[c] = "INIT"
      BY <2>3 DEF StartInv, StartInvOf
    <3> QED BY <2>1, <2>3, <3>1
  <2> QED BY <1>3, <2>2, <2>3 DEF InitDist
<1>4. ASSUME NEW t \in Threads, CvWait(t)
      PROVE  GateInv'
  BY <1>4 DEF CvWait, Goto, clientVars
<1>5. ASSUME NEW t \in Threads, GenReq(t)
      PROVE  GateInv'
  BY <1>5 DEF GenReq, Goto
<1>6. ASSUME NEW t \in Threads, Return(t)
      PROVE  GateInv'
  BY <1>6 DEF Return, Goto, clientVars
<1>7. ASSUME NEW t \in Threads, NEW id \in owed[t], FiniReq(t, id)
      PROVE  GateInv'
  BY <1>7 DEF FiniReq
<1>8. ASSUME NEW c \in Clients, EnvStartRoi(c)
      PROVE  GateInv'
  <2>1. status[c] = "WARMUP"
    BY <1>8 DEF EnvStartRoi, StartInv, StartInvOf
  <2>2. /\ status' = [status EXCEPT ![c] = "ROI"]
        /\ publishing' = [publishing EXCEPT ![c] = TRUE]
        /\ UNCHANGED <<ready, pc>>
    BY <1>8, <2>1 DEF EnvStartRoi, StartRoi, EnterRoi, threadVars
  <2> QED BY <2>2
<1>9. ASSUME NEW c \in Clients, PublishReady(c)
      PROVE  GateInv'
  <2>1. /\ publishing[c]
        /\ publishing' = [publishing EXCEPT ![c] = FALSE]
        /\ ready' = [ready EXCEPT ![c] = TRUE]
        /\ UNCHANGED status
    BY <1>9 DEF PublishReady, Woken, ThreadsOf
  <2>2. \A t \in Threads :
          pc'[t] = "cvwait" => pc[t] = "cvwait" /\ ClientOf[t] # c
    BY <1>9 DEF PublishReady, Woken, ThreadsOf
  <2> QED BY <2>1, <2>2
<1>10. ASSUME UNCHANGED vars
       PROVE  GateInv'
  BY <1>10 DEF vars, clientVars, threadVars
<1> QED BY <1>1, <1>2, <1>3, <1>4, <1>5, <1>6, <1>7, <1>8, <1>9, <1>10, Steps

LEMMA GateInvariant == ClientSpec => []GateInv
<1>1. ClientInit => GateInv
  BY DEF ClientInit, GateInv
<1> QED BY <1>1, GateInvStep, StartInvariant, TypeCorrect, PTL DEF ClientSpec

\* No thread stays blocked at the gate of a client that is in its ROI, unless
\* startRoi is about to wake it up.
THEOREM WakeupIsNotLost == ClientSpec => []NoLostWakeup
<1>1. ClientTypeOK /\ GateInv => NoLostWakeup
  BY DEF ClientTypeOK, GateInv, NoLostWakeup
<1> QED BY <1>1, GateInvariant, TypeCorrect, PTL

LEMMA PassedIsFinite ==
  ASSUME NEW c \in Clients
  PROVE  /\ IsFiniteSet(ThreadsOf(c)) /\ Cardinality(ThreadsOf(c)) \in Nat
         /\ Cardinality(ThreadsOf(c)) > 0
         /\ IsFiniteSet(Passed(c)) /\ Cardinality(Passed(c)) \in Nat
         /\ Cardinality(Passed(c)) <= Cardinality(ThreadsOf(c))
<1>1. IsFiniteSet(ThreadsOf(c))
  <2>1. ThreadsOf(c) \in SUBSET Threads
    BY DEF ThreadsOf
  <2> QED BY <2>1, ThreadsAssumption, FS_Subset
<1>2. Passed(c) \in SUBSET ThreadsOf(c)
  BY DEF Passed
<1>3. /\ IsFiniteSet(Passed(c))
      /\ Cardinality(Passed(c)) <= Cardinality(ThreadsOf(c))
  BY <1>1, <1>2, FS_Subset
<1>4. Cardinality(ThreadsOf(c)) \in Nat /\ Cardinality(Passed(c)) \in Nat
  BY <1>1, <1>3, FS_CardinalityType
<1>5. Cardinality(ThreadsOf(c)) # 0
  BY <1>1, FS_EmptySet
<1> QED BY <1>1, <1>3, <1>4, <1>5

LEMMA OvershootStep ==
  ASSUME ClientTypeOK, StartInv, GateInv, WarmupOvershoot, [ClientNext]_vars
  PROVE  WarmupOvershoot'
<1> SUFFICES ASSUME NEW c \in Clients, status'[c] = "WARMUP"
             PROVE  startedReqs'[c] + Cardinality(Passed(c)')
                      < WarmupReqsClient + Cardinality(ThreadsOf(c))
  BY DEF WarmupOvershoot, ThreadsOf
<1> DEFINE n == Cardinality(ThreadsOf(c))
           p == Cardinality(Passed(c))
<1> USE DEF ClientTypeOK
<1>0. /\ n \in Nat /\ p \in Nat /\ n > 0 /\ p <= n
      /\ startedReqs[c] \in Nat /\ WarmupReqsClient \in Nat
      /\ IsFiniteSet(Passed(c))
  BY PassedIsFinite, WarmupAssumption
<1>1. status[c] = "WARMUP" => startedReqs[c] + p < WarmupReqsClient + n
  BY DEF WarmupOvershoot
<1>2. ASSUME status[c] = "WARMUP", startedReqs'[c] = startedReqs[c],
             \A u \in ThreadsOf(c) : pc'[u] = "gen" => pc[u] = "gen"
      PROVE  startedReqs'[c] + Cardinality(Passed(c)') < WarmupReqsClient + n
  <2>1. Passed(c)' \in SUBSET Passed(c)
    BY <1>2 DEF Passed, ThreadsOf
  <2>2. IsFiniteSet(Passed(c)') /\ Cardinality(Passed(c)') <= p
    BY <1>0, <2>1, FS_Subset
  <2>3. Cardinality(Passed(c)') \in Nat
    BY <2>2, FS_CardinalityType
  <2> QED BY <1>0, <1>1, <1>2, <2>2, <2>3
<1>3. ASSUME NEW t \in Threads, StartReq(t) \/ CheckStatus(t) \/ CvWait(t)
      PROVE  startedReqs'[c] + Cardinality(Passed(c)') < WarmupReqsClient + n
  <2>1. UNCHANGED <<status, startedReqs>>
    BY <1>3 DEF StartReq, CheckStatus, CvWait, clientVars
  <2>2. \A u \in ThreadsOf(c) : pc'[u] = "gen" => pc[u] = "gen"
    <3>1. CASE ClientOf[t] # c
      BY <1>3, <3>1 DEF StartReq, CheckStatus, CvWait, Goto, ThreadsOf
    <3>2. CASE ClientOf[t] = c
      <4>1. status[c] = "WARMUP" /\ ~ready[c]
        BY <2>1 DEF GateInv
      <4> QED BY <1>3, <3>2, <4>1
              DEF StartReq, CheckStatus, CvWait, Goto, ThreadsOf
    <3> QED BY <3>1, <3>2
  <2> QED BY <1>2, <2>1, <2>2
<1>4. ASSUME NEW t \in Threads, BarrierWait(t)
      PROVE  startedReqs'[c] + Cardinality(Passed(c)') < WarmupReqsClient + n
  <2>1. UNCHANGED <<status, startedReqs>>
    BY <1>4 DEF BarrierWait, BarrierCount
  <2>2. \A u \in Threads : pc'[u] = "gen" => pc[u] = "gen"
    <3>1. \A q \in PC : AfterBarrier(q) # "gen"
      BY DEF AfterBarrier
    <3> QED BY <1>4, <3>1 DEF BarrierWait, BarrierCount
  <2> QED BY <1>2, <2>1, <2>2 DEF ThreadsOf
<1>5. ASSUME NEW t \in Threads, InitDist(t)
      PROVE  startedReqs'[c] + Cardinality(Passed(c)') < WarmupReqsClient + n
  <2>1. /\ pc[t] = "init" /\ pc' = [pc EXCEPT ![t] = "bar2"]
        /\ UNCHANGED startedReqs
    BY <1>5 DEF InitDist, Goto
  <2>2. CASE status[c] = "WARMUP"
    BY <1>2, <2>1, <2>2 DEF ThreadsOf
  <2>3. CASE status[c] # "WARMUP"
    <3>1. c = ClientOf[t] /\ ~dist[c]
      BY <1>5, <2>3 DEF InitDist
    <3>2. startedReqs[c] = 0
      BY <1>0, <3>1 DEF StartInv, StartInvOf
    <3>3. \A u \in ThreadsOf(c) : pc[u] # "gen"
      BY <3>1 DEF StartInv, StartInvOf
    <3>4. Passed(c)' = {}
      BY <2>1, <3>3 DEF Passed, ThreadsOf
    <3>5. Cardinality(Passed(c)') = 0
      BY <3>4, FS_EmptySet
    <3> QED BY <1>0, <2>1, <3>2, <3>5
  <2> QED BY <2>2, <2>3
<1>6. ASSUME NEW t \in Threads, CheckStarted(t)
      PROVE  startedReqs'[c] + Cardinality(Passed(c)') < WarmupReqsClient + n
  <2>1. UNCHANGED <<status, startedReqs>>
    BY <1>6 DEF CheckStarted, clientVars
  <2>2. CASE ClientOf[t] # c \/ startedReqs[c] >= WarmupReqsClient
    <3>1. \A u \in ThreadsOf(c) : pc'[u] = "gen" => pc[u] = "gen"
      BY <1>6, <2>2 DEF CheckStarted, Goto, ThreadsOf
    <3> QED BY <1>2, <2>1, <3>1
  <2>3. CASE startedReqs[c] < WarmupReqsClient
    <3>1. Passed(c)' \in SUBSET ThreadsOf(c)
      BY DEF Passed, ThreadsOf
    <3>2. Cardinality(Passed(c)') <= n /\ IsFiniteSet(Passed(c)')
      BY <3>1, PassedIsFinite, FS_Subset
    <3>3. Cardinality(Passed(c)') \in Nat
      BY <3>2, FS_CardinalityType
    <3> QED BY <1>0, <2>1, <2>3, <3>2, <3>3
  <2> QED BY <1>0, <2>2, <2>3
<1>7. ASSUME NEW t \in Threads, GenReq(t)
      PROVE  startedReqs'[c] + Cardinality(Passed(c)') < WarmupReqsClient + n
  <2>1. /\ pc[t] = "gen" /\ pc' = [pc EXCEPT ![t] = "ret"]
        /\ UNCHANGED status
        /\ startedReqs' = [startedReqs EXCEPT ![ClientOf[t]] =
                             startedReqs[ClientOf[t]] + 1]
    BY <1>7 DEF GenReq, Goto
  <2>2. CASE ClientOf[t] # c
    BY <1>2, <2>1, <2>2 DEF ThreadsOf
  <2>3. CASE ClientOf[t] = c
    <3>1. t \in Passed(c) /\ Passed(c)' = Passed(c) \ {t}
      BY <2>1, <2>3 DEF Passed, ThreadsOf
    <3>2. Cardinality(Passed(c)') = p - 1
      BY <1>0, <3>1, FS_RemoveElement
    <3>3. startedReqs'[c] = startedReqs[c] + 1
      BY <2>1, <2>3
    <3> QED BY <1>0, <1>1, <2>1, <3>2, <3>3
  <2> QED BY <2>2, <2>3
<1>8. ASSUME NEW t \in Threads, Return(t)
      PROVE  startedReqs'[c] + Cardinality(Passed(c)') < WarmupReqsClient + n
  BY <1>2, <1>8 DEF Return, Goto, clientVars, ThreadsOf
<1>9. ASSUME NEW t \in Threads, NEW id \in owed[t], FiniReq(t, id)
      PROVE  startedReqs'[c] + Cardinality(Passed(c)') < WarmupReqsClient + n
  BY <1>2, <1>9 DEF FiniReq
<1>10. ASSUME NEW d \in Clients, EnvStartRoi(d)
       PROVE  startedReqs'[c] + Cardinality(Passed(c)') < WarmupReqsClient + n
  <2>1. UNCHANGED <<startedReqs, pc>> /\ status[c] = "WARMUP"
    BY <1>10 DEF EnvStartRoi, StartRoi, EnterRoi, threadVars
  <2> QED BY <1>2, <2>1
<1>11. ASSUME NEW d \in Clients, PublishReady(d)
       PROVE  startedReqs'[c] + Cardinality(Passed(c)') < WarmupReqsClient + n
  BY <1>2, <1>11 DEF PublishReady, Woken, ThreadsOf
<1>12. ASSUME UNCHANGED vars
       PROVE  startedReqs'[c] + Cardinality(Passed(c)') < WarmupReqsClient + n
  BY <1>2, <1>12 DEF vars, clientVars, threadVars
<1> QED BY <1>3, <1>4, <1>5, <1>6, <1>7, <1>8, <1>9, <1>10, <1>11, <1>12, Steps

\* The check-then-act at the gate costs at most one request per other thread:
\* while the client warms up, it has started, or its threads are past the gate
\* to start, fewer than warmupReqs_client plus nthreads requests.
THEOREM OvershootIsBounded == ClientSpec => []WarmupOvershoot
<1>1. ClientInit => WarmupOvershoot
  BY DEF ClientInit, WarmupOvershoot
<1> QED BY <1>1, OvershootStep, StartInvariant, GateInvariant,
           TypeCorrect, PTL DEF ClientSpec
-----------------------------------------------------------------------------
(* Ids *)

\* Multiples of N are N apart.
LEMMA Multiples ==
  ASSUME NEW N \in Nat, NEW k \in Nat, NEW l \in Nat, k < l
  PROVE  k * N + N <= l * N
<1>1. l - k - 1 \in Nat
  OBVIOUS
<1>2. (l - k - 1) * N >= 0
  BY <1>1, Z3
<1>3. (l - k - 1) * N = l * N - k * N - N
  BY Z3
<1>4. k * N \in Int /\ l * N \in Int
  BY Z3
<1> QED BY <1>2, <1>3, <1>4

\* No two requests of the clients of one process have the same id.
LEMMA ReqIdInjective ==
  ASSUME NEW c \in Clients, NEW d \in Clients, NEW k \in Nat, NEW l \in Nat,
         ReqId(c, k) = ReqId(d, l)
  PROVE  c = d /\ k = l
<1>1. /\ c \in Nat /\ d \in Nat /\ NClients \in Nat
      /\ c < NClients /\ d < NClients
  BY NClientsAssumption DEF Clients
<1>2. k * NClients + c = l * NClients + d
  BY DEF ReqId
<1>3. k * NClients \in Int /\ l * NClients \in Int
  BY <1>1, Z3
<1>4. CASE k < l
  <2>1. k * NClients + NClients <= l * NClients
    BY <1>1, <1>4, Multiples
  <2> QED BY <1>1, <1>2, <1>3, <2>1
<1>5. CASE l < k
  <2>1. l * NClients + NClients <= k * NClients
    BY <1>1, <1>5, Multiples
  <2> QED BY <1>1, <1>2, <1>3, <2>1
<1>6. CASE k = l
  BY <1>1, <1>2, <1>3, <1>6
<1> QED BY <1>4, <1>5, <1>6

\* The id a client allocates next was not allocated before, by anybody.
LEMMA NextIdIsNew ==
  ASSUME NEW c \in Clients, NEW d \in Clients, NEW k \in Nat, NEW n \in Nat,
         d = c => n <= k
  PROVE  ReqId(c, k) \notin IdsBelow(d, n)
<1> SUFFICES ASSUME NEW l \in 0 .. n - 1, ReqId(c, k) = ReqId(d, l)
             PROVE  FALSE
  BY DEF IdsBelow
<1>1. l \in Nat
  OBVIOUS
<1>2. c = d /\ k = l
  BY <1>1, ReqIdInjective
<1> QED BY <1>2

LEMMA OneMoreId ==
  ASSUME NEW c \in Clients, NEW n \in Nat
  PROVE  IdsBelow(c, n + 1) = IdsBelow(c, n) \cup {ReqId(c, n)}
<1>1. 0 .. (n + 1) - 1 = (0 .. n - 1) \cup {n}
  OBVIOUS
<1> QED BY <1>1 DEF IdsBelow

LEMMA FewerIds ==
  ASSUME NEW c \in Clients, NEW n \in Nat, NEW m \in Nat, n <= m
  PROVE  IdsBelow(c, n) \subseteq IdsBelow(c, m)
<1>1. 0 .. n - 1 \subseteq 0 .. m - 1
  OBVIOUS
<1> QED BY <1>1 DEF IdsBelow

-----------------------------------------------------------------------------
(* What is in flight *)

\* The requests that are thread t's: returned to it, or about to be.
Holds(t) == owed[t] \cup (IF pc[t] = "ret" THEN {req[t]} ELSE {})

\* What is in flight was allocated by that client; a thread's requests are in
\* flight in its client and nobody else's; a request is returned once; so no
\* assertion has failed.
IdInv ==
  /\ \A c \in Clients : /\ startedReqs[c] <= MaxStarted
                        /\ inFlightReqs[c] \subseteq IdsBelow(c, startedReqs[c])
  /\ \A t \in Threads : Holds(t) \subseteq inFlightReqs[ClientOf[t]]
  /\ \A t, u \in Threads : t # u => Holds(t) \cap Holds(u) = {}
  /\ \A t \in Threads : pc[t] = "ret" => req[t] \notin owed[t]
  /\ proc # "aborted"

\* A step that leaves requests and ids alone, and neither brings a thread to
\* the pacing sleep nor wakes it from there.
LEMMA IdInvUnchanged ==
  ASSUME IdInv, UNCHANGED <<startedReqs, inFlightReqs, req, owed>>,
         proc' # "aborted",
         \A t \in Threads : pc'[t] = "ret" <=> pc[t] = "ret"
  PROVE  IdInv'
<1>1. \A t \in Threads : Holds(t)' = Holds(t)
  BY DEF Holds
<1>2. \A c \in Clients : IdsBelow(c, startedReqs[c])' = IdsBelow(c, startedReqs[c])
  BY DEF IdsBelow
<1> QED BY <1>1, <1>2 DEF IdInv

LEMMA IdInvGenReq ==
  ASSUME ClientTypeOK, IdInv, NEW t \in Threads, GenReq(t)
  PROVE  IdInv'
<1> DEFINE c == ClientOf[t]
           n == startedReqs[c]
           id == ReqId(c, n)
<1>1. /\ n \in Nat /\ n < MaxStarted /\ MaxStarted \in Nat
      /\ pc[t] = "gen" /\ pc' = [pc EXCEPT ![t] = "ret"]
      /\ startedReqs' = [startedReqs EXCEPT ![c] = n + 1]
      /\ inFlightReqs' = [inFlightReqs EXCEPT ![c] = inFlightReqs[c] \cup {id}]
      /\ req' = [req EXCEPT ![t] = id]
      /\ UNCHANGED <<owed, proc>>
  BY MaxStartedAssumption DEF GenReq, Goto, ClientTypeOK
<1>2. \A d \in Clients : id \notin inFlightReqs[d]
  <2> SUFFICES ASSUME NEW d \in Clients
               PROVE  id \notin inFlightReqs[d]
    OBVIOUS
  <2>1. startedReqs[d] \in Nat
    BY DEF ClientTypeOK
  <2>2. d = c => startedReqs[d] <= n
    BY <1>1
  <2>3. id \notin IdsBelow(d, startedReqs[d])
    BY <1>1, <2>1, <2>2, NextIdIsNew
  <2> QED BY <2>3 DEF IdInv
<1>3. \A u \in Threads : id \notin Holds(u)
  BY <1>2 DEF IdInv
<1>4. \A d \in Clients :
        /\ startedReqs'[d] <= MaxStarted
        /\ inFlightReqs'[d] \subseteq IdsBelow(d, startedReqs'[d])
  <2> SUFFICES ASSUME NEW d \in Clients
               PROVE  /\ startedReqs'[d] <= MaxStarted
                      /\ inFlightReqs'[d] \subseteq IdsBelow(d, startedReqs'[d])
    OBVIOUS
  <2>1. CASE d # c
    BY <1>1, <2>1 DEF IdInv, ClientTypeOK
  <2>2. CASE d = c
    <3>1. startedReqs'[c] = n + 1 /\ inFlightReqs'[c] = inFlightReqs[c] \cup {id}
      BY <1>1 DEF ClientTypeOK
    <3>2. IdsBelow(c, n + 1) = IdsBelow(c, n) \cup {id}
      BY <1>1, OneMoreId
    <3>3. inFlightReqs[c] \subseteq IdsBelow(c, n)
      BY DEF IdInv
    <3> QED BY <1>1, <2>2, <3>1, <3>2, <3>3
  <2> QED BY <2>1, <2>2
<1>5. \A u \in Threads : Holds(u)' = IF u = t THEN Holds(t) \cup {id} ELSE Holds(u)
  BY <1>1 DEF Holds, ClientTypeOK
<1>6. \A u \in Threads : Holds(u)' \subseteq inFlightReqs'[ClientOf[u]]
  BY <1>1, <1>5 DEF IdInv, ClientTypeOK
<1>7. \A u, v \in Threads : u # v => Holds(u)' \cap Holds(v)' = {}
  BY <1>3, <1>5 DEF IdInv
<1>8. \A u \in Threads : pc'[u] = "ret" => req'[u] \notin owed'[u]
  <2>1. id \notin owed[t]
    BY <1>3 DEF Holds
  <2> QED BY <1>1, <2>1 DEF IdInv, ClientTypeOK
<1>9. \A d \in Clients : IdsBelow(d, startedReqs[d])' = IdsBelow(d, startedReqs'[d])
  BY DEF IdsBelow
<1>10. proc' # "aborted"
  BY <1>1 DEF IdInv
<1> QED BY <1>4, <1>6, <1>7, <1>8, <1>9, <1>10 DEF IdInv

LEMMA IdInvReturn ==
  ASSUME ClientTypeOK, IdInv, NEW t \in Threads, Return(t)
  PROVE  IdInv'
<1>1. /\ pc[t] = "ret" /\ pc' = [pc EXCEPT ![t] = "idle"]
      /\ owed' = [owed EXCEPT ![t] = owed[t] \cup {req[t]}]
      /\ req' = [req EXCEPT ![t] = 0]
      /\ UNCHANGED <<startedReqs, inFlightReqs, proc>>
  BY DEF Return, Goto, clientVars
<1>2. \A u \in Threads : Holds(u)' = Holds(u)
  BY <1>1 DEF Holds, ClientTypeOK
<1>3. \A u \in Threads : pc'[u] = "ret" => req'[u] \notin owed'[u]
  BY <1>1 DEF IdInv, ClientTypeOK
<1>4. \A c \in Clients : IdsBelow(c, startedReqs[c])' = IdsBelow(c, startedReqs[c])
  BY <1>1 DEF IdsBelow
<1> QED BY <1>1, <1>2, <1>3, <1>4 DEF IdInv

\* finiReq finds the id: this is where an assertion could have failed.
LEMMA FiniReqFinds ==
  ASSUME IdInv, NEW t \in Threads, NEW id \in owed[t]
  PROVE  id \in inFlightReqs[ClientOf[t]]
  BY DEF IdInv, Holds

LEMMA IdInvFiniReq ==
  ASSUME ClientTypeOK, IdInv, NEW t \in Threads, NEW id \in owed[t],
         FiniReq(t, id)
  PROVE  IdInv'
<1> DEFINE c == ClientOf[t]
<1>1. /\ owed' = [owed EXCEPT ![t] = owed[t] \ {id}]
      /\ inFlightReqs' = [inFlightReqs EXCEPT ![c] = inFlightReqs[c] \ {id}]
      /\ UNCHANGED <<startedReqs, pc, req, proc>>
  BY FiniReqFinds DEF FiniReq
<1>2. id \in Holds(t)
  BY DEF Holds
<1>3. Holds(t)' = Holds(t) \ {id}
  BY <1>1 DEF Holds, IdInv, ClientTypeOK
<1>4. \A u \in Threads \ {t} : Holds(u)' = Holds(u) /\ id \notin Holds(u)
  BY <1>1, <1>2 DEF Holds, IdInv, ClientTypeOK
<1>5. \A u \in Threads : Holds(u)' \subseteq inFlightReqs'[ClientOf[u]]
  <2>1. Holds(t)' \subseteq inFlightReqs'[c]
    BY <1>1, <1>3 DEF IdInv, ClientTypeOK
  <2>2. \A u \in Threads \ {t} : Holds(u)' \subseteq inFlightReqs'[ClientOf[u]]
    BY <1>1, <1>4 DEF IdInv, ClientTypeOK
  <2> QED BY <2>1, <2>2
<1>6. \A u, v \in Threads : u # v => Holds(u)' \cap Holds(v)' = {}
  BY <1>3, <1>4 DEF IdInv
<1>7. \A u \in Threads : pc'[u] = "ret" => req'[u] \notin owed'[u]
  BY <1>1 DEF IdInv, ClientTypeOK
<1>8. \A d \in Clients :
        /\ IdsBelow(d, startedReqs[d])' = IdsBelow(d, startedReqs[d])
        /\ inFlightReqs'[d] \subseteq inFlightReqs[d]
  BY <1>1 DEF IdsBelow, ClientTypeOK
<1> QED BY <1>1, <1>5, <1>6, <1>7, <1>8 DEF IdInv

LEMMA IdInvStep ==
  ASSUME ClientTypeOK, StartInv, IdInv, [ClientNext]_vars
  PROVE  IdInv'
<1> USE DEF ClientTypeOK
<1>1. ASSUME NEW t \in Threads,
             \/ StartReq(t) \/ InitDist(t) \/ CheckStatus(t) \/ CheckStarted(t)
             \/ CvWait(t)
      PROVE  IdInv'
  <2>1. /\ UNCHANGED <<startedReqs, inFlightReqs, req, owed, proc>>
        /\ pc[t] # "ret"
        /\ \E p \in PC \ {"ret"} : pc' = [pc EXCEPT ![t] = p]
    BY <1>1 DEF StartReq, InitDist, CheckStatus, CheckStarted, CvWait, Goto,
                clientVars, PC
  <2> QED BY <2>1, IdInvUnchanged DEF IdInv
<1>2. ASSUME NEW t \in Threads, BarrierWait(t)
      PROVE  IdInv'
  <2>1. UNCHANGED <<startedReqs, inFlightReqs, req, owed, proc>>
    BY <1>2 DEF BarrierWait
  <2>2. \A u \in Threads : u \in barrier[ClientOf[t]] \cup {t} =>
          pc[u] \in {"bar1", "bar2", "wait1", "wait2"}
    BY <1>2 DEF BarrierWait, StartInv, StartInvOf
  <2>3. \A p : AfterBarrier(p) # "ret"
    BY DEF AfterBarrier
  <2>4. \A u \in Threads : pc'[u] = "ret" <=> pc[u] = "ret"
    <3> DEFINE arrived == barrier[ClientOf[t]] \cup {t}
    <3>1. CASE Cardinality(arrived) = BarrierCount(ClientOf[t])
      <4>1. pc' = [u \in Threads |-> IF u \in arrived
                                     THEN AfterBarrier(pc[u]) ELSE pc[u]]
        BY <1>2, <3>1 DEF BarrierWait
      <4> QED BY <2>2, <2>3, <4>1
    <3>2. CASE Cardinality(arrived) # BarrierCount(ClientOf[t])
      <4>1. pc' = [pc EXCEPT ![t] = IF pc[t] = "bar1" THEN "wait1" ELSE "wait2"]
        BY <1>2, <3>2 DEF BarrierWait
      <4> QED BY <2>2, <4>1
    <3> QED BY <3>1, <3>2
  <2> QED BY <2>1, <2>4, IdInvUnchanged DEF IdInv
<1>3. ASSUME NEW t \in Threads, GenReq(t)
      PROVE  IdInv'
  BY <1>3, IdInvGenReq
<1>4. ASSUME NEW t \in Threads, Return(t)
      PROVE  IdInv'
  BY <1>4, IdInvReturn
<1>5. ASSUME NEW t \in Threads, NEW id \in owed[t], FiniReq(t, id)
      PROVE  IdInv'
  BY <1>5, IdInvFiniReq
<1>6. ASSUME NEW c \in Clients, EnvStartRoi(c)
      PROVE  IdInv'
  <2>1. status[c] = "WARMUP"
    BY <1>6 DEF EnvStartRoi, StartInv, StartInvOf
  <2>2. UNCHANGED <<startedReqs, inFlightReqs, req, owed, pc, proc>>
    BY <1>6, <2>1 DEF EnvStartRoi, StartRoi, EnterRoi, threadVars
  <2> QED BY <2>2, IdInvUnchanged DEF IdInv
<1>7. ASSUME NEW c \in Clients, PublishReady(c)
      PROVE  IdInv'
  <2>1. UNCHANGED <<startedReqs, inFlightReqs, req, owed, proc>>
    BY <1>7 DEF PublishReady
  <2>2. \A u \in Threads : pc'[u] = "ret" <=> pc[u] = "ret"
    BY <1>7 DEF PublishReady, Woken
  <2> QED BY <2>1, <2>2, IdInvUnchanged DEF IdInv
<1>8. ASSUME UNCHANGED vars
      PROVE  IdInv'
  BY <1>8, IdInvUnchanged DEF vars, clientVars, threadVars, IdInv
<1> QED BY <1>1, <1>2, <1>3, <1>4, <1>5, <1>6, <1>7, <1>8, Steps

LEMMA IdInvariant == ClientSpec => []IdInv
<1>1. ClientInit => IdInv
  BY MaxStartedAssumption DEF ClientInit, IdInv, Holds, IdsBelow
<1> QED BY <1>1, IdInvStep, StartInvariant, TypeCorrect, PTL DEF ClientSpec

\* No assertion of finiReq or _startRoi fails, however many threads allocate
\* and answer requests.
THEOREM AssertionsHold == ClientSpec => []NoAssertFails
<1>1. IdInv => NoAssertFails
  BY DEF IdInv, NoAssertFails
<1> QED BY <1>1, IdInvariant, PTL

\* Every request somebody still has to answer is in flight in its client, and
\* its id is nobody else's.
THEOREM OwedIsInFlight == ClientSpec => []OwedInFlight
<1>1. ClientTypeOK /\ IdInv => OwedInFlight
  <2> SUFFICES ASSUME ClientTypeOK, IdInv, NEW t \in Threads, NEW id \in owed[t]
               PROVE  /\ id \in inFlightReqs[ClientOf[t]]
                      /\ \A u \in Threads \ {t} : id \notin owed[u]
                      /\ \A c \in Clients \ {ClientOf[t]} : id \notin inFlightReqs[c]
    BY DEF OwedInFlight
  <2>1. id \in inFlightReqs[ClientOf[t]]
    BY FiniReqFinds
  <2>2. \A u \in Threads \ {t} : id \notin owed[u]
    BY DEF IdInv, Holds
  <2>3. \A c \in Clients \ {ClientOf[t]} : id \notin inFlightReqs[c]
    <3> SUFFICES ASSUME NEW c \in Clients \ {ClientOf[t]}, id \in inFlightReqs[c]
                 PROVE  FALSE
      OBVIOUS
    <3>1. /\ id \in IdsBelow(ClientOf[t], startedReqs[ClientOf[t]])
          /\ id \in IdsBelow(c, startedReqs[c])
      BY <2>1 DEF IdInv
    <3>2. PICK k \in 0 .. startedReqs[ClientOf[t]] - 1 : id = ReqId(ClientOf[t], k)
      BY <3>1 DEF IdsBelow
    <3>3. k \in Nat /\ startedReqs[c] \in Nat
      BY DEF ClientTypeOK
    <3>4. id \notin IdsBelow(c, startedReqs[c])
      BY <3>2, <3>3, NextIdIsNew
    <3> QED BY <3>1, <3>4
  <2> QED BY <2>1, <2>2, <2>3
<1> QED BY <1>1, IdInvariant, TypeCorrect, PTL

-----------------------------------------------------------------------------
(* The refinement *)

AllIds == UNION {IdsBelow(c, MaxStarted) : c \in Clients}
Issued == UNION {IdsBelow(c, startedReqs[c]) : c \in Clients}

\* What the refinement mapping looks at.
Seen == <<status, startedReqs, inFlightReqs, samples>>

LEMMA NothingSeen ==
  ASSUME UNCHANGED Seen
  PROVE  UNCHANGED M!measurement
<1>1. Issued' = Issued
  BY DEF Issued, IdsBelow, Seen
<1> QED BY <1>1 DEF M!measurement, Seen, Issued

LEMMA IssuedUnchanged ==
  ASSUME UNCHANGED startedReqs
  PROVE  Issued' = Issued
  BY DEF Issued, IdsBelow

LEMMA BeginWarmupSimulated ==
  ASSUME ClientTypeOK, StartInv, NEW t \in Threads, InitDist(t)
  PROVE  M!BeginWarmup(ClientOf[t]) \/ UNCHANGED M!measurement
<1> DEFINE c == ClientOf[t]
<1>1. UNCHANGED <<startedReqs, inFlightReqs, samples>>
  BY DEF InitDist
<1>2. CASE dist[c]
  <2>1. UNCHANGED Seen
    BY <1>1, <1>2 DEF InitDist, Seen
  <2> QED BY <2>1, NothingSeen
<1>3. CASE ~dist[c]
  <2>1. status[c] = "INIT"
    BY <1>3 DEF StartInv, StartInvOf
  <2>2. status' = [status EXCEPT ![c] = "WARMUP"]
    BY <1>3 DEF InitDist
  <2>3. Issued' = Issued
    BY <1>1, IssuedUnchanged
  <2> QED BY <1>1, <2>1, <2>2, <2>3 DEF M!BeginWarmup, Issued
<1> QED BY <1>2, <1>3

LEMMA IssueSimulated ==
  ASSUME ClientTypeOK, StartInv, IdInv, NEW t \in Threads, GenReq(t)
  PROVE  LET c == ClientOf[t]
             id == ReqId(c, startedReqs[c])
         IN id \in AllIds /\ M!Issue(c, id)
<1> DEFINE c == ClientOf[t]
           n == startedReqs[c]
           id == ReqId(c, n)
<1>1. /\ n \in Nat /\ n < MaxStarted /\ MaxStarted \in Nat /\ pc[t] = "gen"
      /\ startedReqs' = [startedReqs EXCEPT ![c] = n + 1]
      /\ inFlightReqs' = [inFlightReqs EXCEPT ![c] = inFlightReqs[c] \cup {id}]
      /\ UNCHANGED <<status, samples>>
  BY MaxStartedAssumption DEF GenReq, Goto, ClientTypeOK
<1>2. status[c] # "INIT"
  BY <1>1 DEF StartInv, StartInvOf, ThreadsOf
<1>3. id \notin Issued
  <2> SUFFICES ASSUME NEW d \in Clients, id \in IdsBelow(d, startedReqs[d])
               PROVE  FALSE
    BY DEF Issued
  <2>1. startedReqs[d] \in Nat /\ (d = c => startedReqs[d] <= n)
    BY <1>1 DEF ClientTypeOK
  <2> QED BY <1>1, <2>1, NextIdIsNew
<1>4. Issued' = Issued \cup {id}
  <2>1. IdsBelow(c, startedReqs'[c]) = IdsBelow(c, n) \cup {id}
    <3>1. startedReqs'[c] = n + 1
      BY <1>1 DEF ClientTypeOK
    <3> QED BY <1>1, <3>1, OneMoreId
  <2>2. \A d \in Clients \ {c} : IdsBelow(d, startedReqs'[d]) = IdsBelow(d, startedReqs[d])
    BY <1>1 DEF ClientTypeOK
  <2>3. Issued' = UNION {IdsBelow(d, startedReqs'[d]) : d \in Clients}
    BY DEF Issued, IdsBelow
  <2> HIDE DEF id, n
  <2> QED BY <2>1, <2>2, <2>3 DEF Issued, n
<1>5. id \in AllIds
  <2>1. n \in 0 .. MaxStarted - 1
    BY <1>1
  <2>2. id \in IdsBelow(c, MaxStarted)
    BY <2>1 DEF IdsBelow
  <2> QED BY <2>2 DEF AllIds
<1> QED BY <1>1, <1>2, <1>3, <1>4, <1>5 DEF M!Issue, Issued

LEMMA AnswerSimulated ==
  ASSUME ClientTypeOK, IdInv, NEW t \in Threads, NEW id \in owed[t],
         FiniReq(t, id)
  PROVE  id \in AllIds /\ M!Answer(ClientOf[t], id)
<1> DEFINE c == ClientOf[t]
<1>1. id \in inFlightReqs[c]
  BY FiniReqFinds
<1>2. /\ inFlightReqs' = [inFlightReqs EXCEPT ![c] = inFlightReqs[c] \ {id}]
      /\ samples' = [samples EXCEPT ![c] =
                       IF status[c] = "ROI" THEN samples[c] \cup {id}
                       ELSE samples[c]]
      /\ UNCHANGED <<status, startedReqs>>
  BY <1>1 DEF FiniReq, Measured
<1>3. Issued' = Issued
  BY <1>2, IssuedUnchanged
<1>4. id \in AllIds
  <2>1. /\ startedReqs[c] \in Nat /\ MaxStarted \in Nat
        /\ startedReqs[c] <= MaxStarted
    BY MaxStartedAssumption DEF ClientTypeOK, IdInv
  <2>2. IdsBelow(c, startedReqs[c]) \subseteq IdsBelow(c, MaxStarted)
    BY <2>1, FewerIds
  <2>3. id \in IdsBelow(c, MaxStarted)
    BY <1>1, <2>2 DEF IdInv
  <2> QED BY <2>3 DEF AllIds
<1> QED BY <1>1, <1>2, <1>3, <1>4 DEF M!Answer, Issued

LEMMA BeginRoiSimulated ==
  ASSUME ClientTypeOK, StartInv, NEW c \in Clients, EnvStartRoi(c)
  PROVE  M!BeginRoi(c)
<1>1. status[c] = "WARMUP"
  BY DEF EnvStartRoi, StartInv, StartInvOf, ClientTypeOK
<1>2. /\ status' = [status EXCEPT ![c] = "ROI"]
      /\ samples' = [samples EXCEPT ![c] = {}]
      /\ UNCHANGED <<startedReqs, inFlightReqs>>
  BY <1>1 DEF EnvStartRoi, StartRoi, EnterRoi
<1>3. Issued' = Issued
  BY <1>2, IssuedUnchanged
<1> QED BY <1>1, <1>2, <1>3 DEF M!BeginRoi, Issued

LEMMA StepSimulated ==
  ASSUME ClientTypeOK, StartInv, IdInv, [ClientNext]_vars
  PROVE  [M!Next]_M!measurement
<1>1. ASSUME NEW t \in Threads,
             \/ StartReq(t) \/ BarrierWait(t) \/ CheckStatus(t)
             \/ CheckStarted(t) \/ CvWait(t) \/ Return(t)
      PROVE  UNCHANGED M!measurement
  <2>1. UNCHANGED Seen
    BY <1>1 DEF StartReq, BarrierWait, CheckStatus, CheckStarted, CvWait,
                Return, clientVars, Seen
  <2> QED BY <2>1, NothingSeen
<1>2. ASSUME NEW t \in Threads, InitDist(t)
      PROVE  [M!Next]_M!measurement
  <2>1. M!BeginWarmup(ClientOf[t]) => M!Next
    BY DEF M!Next
  <2> QED BY <1>2, <2>1, BeginWarmupSimulated
<1>3. ASSUME NEW t \in Threads, GenReq(t)
      PROVE  M!Next
  <2> DEFINE id == ReqId(ClientOf[t], startedReqs[ClientOf[t]])
  <2>1. id \in AllIds /\ M!Issue(ClientOf[t], id)
    BY <1>3, IssueSimulated
  <2> HIDE DEF id
  <2> QED BY <2>1 DEF M!Next, AllIds
<1>4. ASSUME NEW t \in Threads, NEW id \in owed[t], FiniReq(t, id)
      PROVE  M!Next
  <2>1. id \in AllIds /\ M!Answer(ClientOf[t], id)
    BY <1>4, AnswerSimulated
  <2> QED BY <2>1 DEF M!Next, AllIds
<1>5. ASSUME NEW c \in Clients, EnvStartRoi(c)
      PROVE  M!Next
  <2>1. M!BeginRoi(c)
    BY <1>5, BeginRoiSimulated
  <2> QED BY <2>1 DEF M!Next
<1>6. ASSUME NEW c \in Clients, PublishReady(c)
      PROVE  UNCHANGED M!measurement
  <2>1. UNCHANGED Seen
    BY <1>6 DEF PublishReady, Seen
  <2> QED BY <2>1, NothingSeen
<1>7. ASSUME UNCHANGED vars
      PROVE  UNCHANGED M!measurement
  <2>1. UNCHANGED Seen
    BY <1>7 DEF vars, clientVars, Seen
  <2> QED BY <2>1, NothingSeen
<1> QED BY <1>1, <1>2, <1>3, <1>4, <1>5, <1>6, <1>7, Steps

\* The client implements the measurement it promises: ids are new, a request
\* is answered at most once and recorded exactly when it is answered in the
\* ROI, and the phases come in order.
THEOREM ClientImplementsMeasurement == ClientSpec => ImplementsMeasurement
<1>1. ClientInit => M!Init
  BY DEF ClientInit, M!Init, IdsBelow
<1> QED BY <1>1, StepSimulated, IdInvariant, StartInvariant, TypeCorrect, PTL
        DEF ClientSpec, ImplementsMeasurement, M!Spec
=============================================================================
