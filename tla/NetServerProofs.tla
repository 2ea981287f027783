--------------------------- MODULE NetServerProofs ---------------------------
(***************************************************************************)
(* Proofs about module NetServer, for every set of workers and of          *)
(* connections, every length of the two periods and every number of        *)
(* requests.                                                               *)
(***************************************************************************)
EXTENDS NetServer, FiniteSetTheorems, TLAPS

LEMMA NConnsPositive == NConns \in Nat /\ NConns > 0
<1>1. NConns \in Nat
  BY ConnsAssumption, FS_CardinalityType DEF NConns
<1>2. NConns # 0
  BY ConnsAssumption, FS_EmptySet DEF NConns
<1> QED BY <1>1, <1>2

\* The steps, one action each.
LEMMA Steps ==
  ASSUME Next
  PROVE  \/ \E w \in Workers :
              \/ EnterLoop(w) \/ FdSet(w) \/ Select(w) \/ LockRecv(w) \/ Pick(w)
              \/ RecvHdr(w) \/ RecvBody(w) \/ CheckClients(w) \/ SendResp(w)
              \/ LoadFinished(w) \/ StoreFinished(w) \/ Broadcast(w)
         \/ \E c \in Conns :
              Accept(c) \/ SendHeader(c) \/ SendBody(c) \/ Close(c)
  BY DEF Next, WorkerStep

-----------------------------------------------------------------------------
(* Types *)

\* TypeOK, group by group.
FdOK ==
  /\ fdBuf \in [1 .. NConns -> Conns] /\ fdCnt \in 0 .. NConns
  /\ recvClientHead \in Nat
LoopOK ==
  /\ readSet \in [Workers -> SUBSET Conns]
  /\ cur \in [Workers -> Nat] /\ end \in [Workers -> 0 .. NConns]
BufferOK ==
  /\ fd \in [Workers -> Conns \cup {NoFd}]
  /\ reqbuf \in [Workers -> Ids \cup {NoId}]
  /\ reqInfo \in [Workers -> Ids \cup {NoId}]
  /\ activeFds \in [Workers -> Conns]
CountOK == finishedReqs \in Nat /\ reg \in [Workers -> Nat]
PcOK ==
  /\ wpc \in [Workers -> WorkerPC] /\ sproc \in ServerStates
  /\ recvLock \in Workers \cup {NoWorker}
  /\ \A w \in Workers : wpc[w] \in {"pick", "hdr", "body"} <=> recvLock = w
StreamOK ==
  /\ toServer \in [Conns -> Seq(Units)] /\ toClient \in [Conns -> Seq(Frames)]
EnvOK ==
  /\ sent \in [Conns -> Nat] /\ half \in [Conns -> BOOLEAN]
  /\ closed \in [Conns -> BOOLEAN] /\ skipped \in [Conns -> Nat]

\* Iterators stay in the buffer; a worker that reads from a connection has one,
\* and clientFds is not empty then, because only who holds recvLock removes
\* from it; the constructor accepts no more than nclients connections.
PlaceInv ==
  /\ sproc = "accepting" => fdCnt < NConns
  /\ \A w \in Workers :
       /\ wpc[w] \in {"fdset", "roi", "fin"} => cur[w] >= 1 /\ cur[w] <= end[w]
       /\ wpc[w] \in {"hdr", "body"} => fd[w] \in Conns /\ fdCnt > 0
       /\ wpc[w] = "check" => fd[w] \in Conns \/ fdCnt = 0
       /\ sproc = "accepting" => wpc[w] = "recv"

TypeInv ==
  /\ FdOK /\ LoopOK /\ BufferOK /\ CountOK /\ PcOK /\ StreamOK /\ EnvOK
  /\ PlaceInv

LEMMA TypeInvEnterLoop ==
  ASSUME TypeInv, NEW w \in Workers, EnterLoop(w)
  PROVE  TypeInv'
<1>1. /\ UNCHANGED <<fdVars, fd, reqbuf, infoVars, countVars, sproc, toServer,
                     toClient, envVars, skipped>>
      /\ sproc = "running" /\ wpc[w] = "recv"
  BY DEF EnterLoop, At
<1>2. FdOK' /\ BufferOK' /\ CountOK' /\ StreamOK' /\ EnvOK'
  BY <1>1 DEF TypeInv, FdOK, BufferOK, CountOK, StreamOK, EnvOK, fdVars,
              infoVars, countVars, envVars
<1>3. CASE fdCnt = 0
  <2>1. wpc' = [wpc EXCEPT ![w] = "check"] /\ UNCHANGED <<readSet, cur, end>>
    BY <1>3 DEF EnterLoop, Goto
  <2>2. LoopOK'
    BY <2>1 DEF TypeInv, LoopOK
  <2>3. PcOK'
    BY <1>1, <2>1 DEF TypeInv, PcOK, WorkerPC, fdVars
  <2>4. PlaceInv'
    BY <1>1, <1>3, <2>1 DEF TypeInv, PcOK, PlaceInv, fdVars
  <2> QED BY <1>2, <2>2, <2>3, <2>4 DEF TypeInv
<1>4. CASE fdCnt # 0
  <2>1. /\ wpc' = [wpc EXCEPT ![w] = "fdset"]
        /\ readSet' = [readSet EXCEPT ![w] = {}]
        /\ cur' = [cur EXCEPT ![w] = 1]
        /\ end' = [end EXCEPT ![w] = fdCnt]
    BY <1>4 DEF EnterLoop, Goto
  <2>2. LoopOK'
    BY <2>1 DEF TypeInv, LoopOK, FdOK
  <2>3. PcOK'
    BY <1>1, <2>1 DEF TypeInv, PcOK, WorkerPC, fdVars
  <2>4. PlaceInv'
    BY <1>1, <1>4, <2>1, NConnsPositive DEF TypeInv, LoopOK, PcOK, FdOK, PlaceInv, fdVars
  <2> QED BY <1>2, <2>2, <2>3, <2>4 DEF TypeInv
<1> QED BY <1>3, <1>4

\* The two loops over clientFds move on, or end.
LEMMA AdvanceInv ==
  ASSUME TypeInv, NEW w \in Workers, NEW next \in {"select", "recv"},
         wpc[w] \in {"fdset", "roi", "fin"}, Advance(w, next),
         UNCHANGED <<fdCnt, recvLock, fd>>,
         sproc' \in ServerStates \ {"accepting"}
  PROVE  /\ cur' \in [Workers -> Nat] /\ end' \in [Workers -> 0 .. NConns]
         /\ PcOK' /\ PlaceInv'
<1>1. CASE cur[w] = end[w]
  <2>1. /\ wpc' = [wpc EXCEPT ![w] = next]
        /\ cur' = [cur EXCEPT ![w] = 0] /\ end' = [end EXCEPT ![w] = 0]
    BY <1>1 DEF Advance, Goto
  <2>2. cur' \in [Workers -> Nat] /\ end' \in [Workers -> 0 .. NConns]
    BY <2>1, NConnsPositive DEF TypeInv, LoopOK
  <2>3. PcOK'
    BY <2>1 DEF TypeInv, PcOK, WorkerPC
  <2>4. PlaceInv'
    BY <2>1 DEF TypeInv, PcOK, LoopOK, PlaceInv
  <2> QED BY <2>2, <2>3, <2>4
<1>2. CASE cur[w] # end[w]
  <2>1. cur' = [cur EXCEPT ![w] = cur[w] + 1] /\ UNCHANGED <<wpc, end>>
    BY <1>2 DEF Advance
  <2>2. cur' \in [Workers -> Nat] /\ end' \in [Workers -> 0 .. NConns]
    BY <2>1 DEF TypeInv, LoopOK
  <2>3. PcOK'
    BY <2>1 DEF TypeInv, PcOK
  <2>4. cur[w] < end[w] /\ cur[w] >= 1
    BY <1>2, NConnsPositive DEF TypeInv, LoopOK, PlaceInv
  <2>5. PlaceInv'
    BY <2>1, <2>4, NConnsPositive DEF TypeInv, LoopOK, PlaceInv
  <2> QED BY <2>2, <2>3, <2>5
<1> QED BY <1>1, <1>2

\* An iterator points at a connection.
LEMMA IteratorInBuffer ==
  ASSUME TypeInv, NEW w \in Workers, wpc[w] \in {"fdset", "roi", "fin"}
  PROVE  fdBuf[cur[w]] \in Conns
<1>1. cur[w] \in 1 .. NConns
  BY NConnsPositive DEF TypeInv, LoopOK, PlaceInv
<1> QED BY <1>1 DEF TypeInv, FdOK

LEMMA TypeInvFdSet ==
  ASSUME TypeInv, NEW w \in Workers, FdSet(w)
  PROVE  TypeInv'
<1>1. /\ UNCHANGED <<fdVars, fd, reqbuf, infoVars, countVars, sproc, toServer,
                     toClient, envVars, skipped>>
      /\ sproc = "running" /\ wpc[w] = "fdset" /\ Advance(w, "select")
      /\ readSet' = [readSet EXCEPT ![w] = readSet[w] \cup {fdBuf[cur[w]]}]
  BY DEF FdSet, At
<1>2. FdOK' /\ BufferOK' /\ CountOK' /\ StreamOK' /\ EnvOK'
  BY <1>1 DEF TypeInv, FdOK, BufferOK, CountOK, StreamOK, EnvOK, fdVars,
              infoVars, countVars, envVars
<1>3. /\ cur' \in [Workers -> Nat] /\ end' \in [Workers -> 0 .. NConns]
      /\ PcOK' /\ PlaceInv'
  BY <1>1, AdvanceInv DEF fdVars, ServerStates
<1>4. readSet' \in [Workers -> SUBSET Conns]
  BY <1>1, IteratorInBuffer DEF TypeInv, LoopOK
<1> QED BY <1>2, <1>3, <1>4 DEF TypeInv, LoopOK

LEMMA TypeInvSelect ==
  ASSUME TypeInv, NEW w \in Workers, Select(w)
  PROVE  TypeInv'
<1>1. /\ UNCHANGED <<fdVars, cur, end, fd, reqbuf, infoVars, countVars, sproc,
                     toServer, toClient, envVars, skipped>>
      /\ wpc[w] = "select" /\ wpc' = [wpc EXCEPT ![w] = "lock"]
      /\ readSet' = [readSet EXCEPT ![w] = {c \in readSet[w] : Readable(c)}]
      /\ sproc = "running"
  BY DEF Select, At, Goto
<1>2. FdOK' /\ BufferOK' /\ CountOK' /\ StreamOK' /\ EnvOK'
  BY <1>1 DEF TypeInv, FdOK, BufferOK, CountOK, StreamOK, EnvOK, fdVars,
              infoVars, countVars, envVars
<1>3. LoopOK'
  BY <1>1 DEF TypeInv, LoopOK
<1>4. PcOK'
  BY <1>1 DEF TypeInv, PcOK, WorkerPC, fdVars
<1>5. PlaceInv'
  BY <1>1 DEF TypeInv, PcOK, PlaceInv, fdVars
<1> QED BY <1>2, <1>3, <1>4, <1>5 DEF TypeInv

LEMMA TypeInvLockRecv ==
  ASSUME TypeInv, NEW w \in Workers, LockRecv(w)
  PROVE  TypeInv'
<1>1. /\ UNCHANGED <<fdBuf, fdCnt, recvClientHead, loopVars, infoVars,
                     countVars, sproc, toServer, toClient, envVars, skipped>>
      /\ wpc[w] = "lock" /\ wpc' = [wpc EXCEPT ![w] = "pick"]
      /\ recvLock = NoWorker /\ recvLock' = w /\ sproc = "running"
  BY DEF LockRecv, At, Goto
<1>2. FdOK' /\ LoopOK' /\ BufferOK' /\ CountOK' /\ StreamOK' /\ EnvOK'
  BY <1>1 DEF TypeInv, FdOK, LoopOK, BufferOK, CountOK, StreamOK, EnvOK,
              loopVars, infoVars, countVars, envVars
<1>3. PcOK'
  BY <1>1, WorkersAssumption DEF TypeInv, PcOK, WorkerPC
<1>4. PlaceInv'
  BY <1>1 DEF TypeInv, PcOK, PlaceInv, loopVars
<1> QED BY <1>2, <1>3, <1>4 DEF TypeInv

LEMMA TypeInvPick ==
  ASSUME TypeInv, NEW w \in Workers, Pick(w)
  PROVE  TypeInv'
<1>1. /\ UNCHANGED <<fdBuf, fdCnt, recvLock, cur, end, reqbuf, infoVars,
                     countVars, toServer, toClient, envVars>>
      /\ sproc = "running" /\ wpc[w] = "pick"
      /\ readSet' = [readSet EXCEPT ![w] = {}]
  BY DEF Pick, At
<1>2. LoopOK' /\ CountOK' /\ StreamOK'
  BY <1>1 DEF TypeInv, LoopOK, CountOK, StreamOK, countVars
<1>3. CASE \/ fdCnt = 0
           \/ fdCnt # 0 /\ Eligible(w) = {}
  <2>1. /\ UNCHANGED <<fd, wpc, skipped>> /\ sproc' \in {"sigfpe", "aborted"}
        /\ \/ UNCHANGED recvClientHead
           \/ fdCnt # 0 /\ recvClientHead' = NextHead
    BY <1>3 DEF Pick
  <2>2. recvClientHead' \in Nat
    BY <2>1 DEF TypeInv, FdOK, NextHead
  <2>3. FdOK' /\ BufferOK' /\ EnvOK'
    BY <1>1, <2>1, <2>2 DEF TypeInv, FdOK, BufferOK, EnvOK, infoVars, envVars
  <2>4. PcOK'
    BY <1>1, <2>1 DEF TypeInv, PcOK, ServerStates
  <2>5. PlaceInv'
    BY <1>1, <2>1 DEF TypeInv, PlaceInv
  <2> QED BY <1>2, <2>3, <2>4, <2>5 DEF TypeInv
<1>4. CASE fdCnt # 0 /\ Eligible(w) # {}
  <2>1. PICK i \in Eligible(w) :
          /\ fd' = [fd EXCEPT ![w] = Candidate(i)]
          /\ skipped' = [d \in Conns |->
               IF d = Candidate(i) \/ d \notin readSet[w] \cap Connected
               THEN 0 ELSE skipped[d] + 1]
          /\ wpc' = [wpc EXCEPT ![w] = "hdr"]
          /\ UNCHANGED sproc
          /\ recvClientHead' = NextHead
    BY <1>4 DEF Pick, Goto
  <2>2. Candidate(i) \in Conns
    BY <2>1 DEF TypeInv, LoopOK, Eligible
  <2>3. recvClientHead' \in Nat
    BY <1>4, <2>1 DEF TypeInv, FdOK, NextHead
  <2>4. FdOK'
    BY <1>1, <2>3 DEF TypeInv, FdOK
  <2>5. BufferOK'
    BY <1>1, <2>1, <2>2 DEF TypeInv, BufferOK, infoVars
  <2>6. EnvOK'
    BY <1>1, <2>1 DEF TypeInv, EnvOK, envVars
  <2>7. PcOK'
    BY <1>1, <2>1 DEF TypeInv, PcOK, WorkerPC
  <2>8. PlaceInv'
    BY <1>1, <1>4, <2>1, <2>2 DEF TypeInv, FdOK, BufferOK, PcOK, PlaceInv
  <2> QED BY <1>2, <2>4, <2>5, <2>6, <2>7, <2>8 DEF TypeInv
<1> QED BY <1>3, <1>4

\* One of the three outcomes of recvfull and checkRecv is the end of a client
\* that left; only the worker that holds recvLock removes one.
LEMMA TypeInvClientLeft ==
  ASSUME TypeInv, NEW w \in Workers, wpc[w] \in {"hdr", "body"},
         sproc = "running", ClientLeft(w),
         UNCHANGED <<recvClientHead, readSet, cur, end, infoVars, countVars,
                     toClient, envVars, skipped>>
  PROVE  TypeInv'
<1>1. /\ fdCnt > 0 /\ fdCnt' = fdCnt - 1
      /\ \E p : fdBuf' = [i \in 1 .. NConns |->
                            IF i >= p /\ i < fdCnt THEN fdBuf[i + 1] ELSE fdBuf[i]]
      /\ fd' = [fd EXCEPT ![w] = NoFd]
      /\ wpc' = [wpc EXCEPT ![w] = "recv"]
      /\ recvLock = w /\ recvLock' = NoWorker
      /\ UNCHANGED <<toServer, reqbuf, sproc>>
  BY DEF ClientLeft, RemoveClient, Goto, TypeInv, PlaceInv, PcOK
<1>2. LoopOK' /\ CountOK' /\ StreamOK' /\ EnvOK'
  BY <1>1 DEF TypeInv, LoopOK, CountOK, StreamOK, EnvOK, countVars, envVars
<1>3. FdOK'
  <2>1. fdCnt' \in 0 .. NConns
    BY <1>1, NConnsPositive DEF TypeInv, FdOK
  <2>2. \A i \in 1 .. NConns : i < fdCnt => i + 1 \in 1 .. NConns
    BY NConnsPositive DEF TypeInv, FdOK
  <2>3. fdBuf' \in [1 .. NConns -> Conns]
    BY <1>1, <2>2 DEF TypeInv, FdOK
  <2> QED BY <2>1, <2>3 DEF TypeInv, FdOK
<1>4. BufferOK'
  BY <1>1 DEF TypeInv, BufferOK, infoVars
<1>5. PcOK'
  BY <1>1, WorkersAssumption DEF TypeInv, PcOK, WorkerPC
<1>6. PlaceInv'
  <2>1. \A v \in Workers \ {w} : wpc[v] \notin {"hdr", "body"}
    BY <1>1 DEF TypeInv, PcOK
  <2> QED BY <1>1, <2>1 DEF TypeInv, BufferOK, PcOK, PlaceInv
<1> QED BY <1>2, <1>3, <1>4, <1>5, <1>6 DEF TypeInv

LEMMA TypeInvCutShort ==
  ASSUME TypeInv, NEW w \in Workers, NEW part, sproc = "running",
         CutShort(w, part),
         UNCHANGED <<recvClientHead, readSet, cur, end, infoVars, countVars,
                     toClient, envVars, skipped>>
  PROVE  TypeInv'
<1>1. /\ sproc' = "exit-1"
      /\ UNCHANGED <<fdBuf, fdCnt, recvLock, fd, toServer, reqbuf, wpc>>
  BY DEF CutShort
<1>2. FdOK' /\ LoopOK' /\ BufferOK' /\ CountOK' /\ StreamOK' /\ EnvOK'
  BY <1>1 DEF TypeInv, FdOK, LoopOK, BufferOK, CountOK, StreamOK, EnvOK,
              infoVars, countVars, envVars
<1>3. PcOK' /\ PlaceInv'
  BY <1>1 DEF TypeInv, PcOK, PlaceInv, ServerStates
<1> QED BY <1>2, <1>3 DEF TypeInv

\* What a part that was read leaves behind, and the id it carried.
LEMMA ReceivedTypes ==
  ASSUME TypeInv, NEW w \in Workers, NEW part, fd[w] \in Conns,
         Received(w, part)
  PROVE  /\ toServer' \in [Conns -> Seq(Units)]
         /\ Head(toServer[fd[w]]).id \in Ids \cup {NoId}
<1>1. toServer[fd[w]] \in Seq(Units) /\ toServer[fd[w]] # <<>>
  BY DEF TypeInv, StreamOK, Received
<1>2. Tail(toServer[fd[w]]) \in Seq(Units) /\ Head(toServer[fd[w]]) \in Units
  BY <1>1
<1>3. toServer' = [toServer EXCEPT ![fd[w]] = Tail(toServer[fd[w]])]
  BY DEF Received
<1> QED BY <1>2, <1>3 DEF TypeInv, StreamOK, Units

LEMMA TypeInvRecvHdr ==
  ASSUME TypeInv, NEW w \in Workers, RecvHdr(w)
  PROVE  TypeInv'
<1>1. /\ sproc = "running" /\ wpc[w] = "hdr" /\ fd[w] \in Conns
      /\ UNCHANGED <<recvClientHead, readSet, cur, end, infoVars, countVars,
                     toClient, envVars, skipped>>
  BY DEF RecvHdr, At, TypeInv, PlaceInv
<1>2. CASE ClientLeft(w)
  BY <1>1, <1>2, TypeInvClientLeft
<1>3. CASE CutShort(w, "hdr")
  BY <1>1, <1>3, TypeInvCutShort
<1>4. CASE /\ Received(w, "hdr")
           /\ reqbuf' = [reqbuf EXCEPT ![w] = Head(toServer[fd[w]]).id]
           /\ Goto(w, "body") /\ UNCHANGED recvLock
  <2>1. UNCHANGED <<fdBuf, fdCnt, fd, sproc>>
    BY <1>4 DEF Received
  <2>2. FdOK' /\ LoopOK' /\ CountOK' /\ EnvOK'
    BY <1>1, <2>1 DEF TypeInv, FdOK, LoopOK, CountOK, EnvOK, countVars, envVars
  <2>3. StreamOK' /\ Head(toServer[fd[w]]).id \in Ids \cup {NoId}
    BY <1>1, <1>4, ReceivedTypes DEF TypeInv, StreamOK
  <2>4. BufferOK'
    BY <1>1, <1>4, <2>1, <2>3 DEF TypeInv, BufferOK, infoVars
  <2>5. PcOK'
    BY <1>1, <1>4, <2>1 DEF TypeInv, PcOK, WorkerPC, Goto
  <2>6. PlaceInv'
    BY <1>1, <1>4, <2>1 DEF TypeInv, PcOK, PlaceInv, Goto
  <2> QED BY <2>2, <2>3, <2>4, <2>5, <2>6 DEF TypeInv
<1> QED BY <1>2, <1>3, <1>4 DEF RecvHdr

LEMMA TypeInvRecvBody ==
  ASSUME TypeInv, NEW w \in Workers, RecvBody(w)
  PROVE  TypeInv'
<1>1. /\ sproc = "running" /\ wpc[w] = "body" /\ fd[w] \in Conns
      /\ UNCHANGED <<recvClientHead, readSet, cur, end, infoVars, countVars,
                     toClient, envVars, skipped>>
  BY DEF RecvBody, At, TypeInv, PlaceInv
<1>2. CASE ClientLeft(w)
  BY <1>1, <1>2, TypeInvClientLeft
<1>3. CASE CutShort(w, "body")
  BY <1>1, <1>3, TypeInvCutShort
<1>4. CASE /\ Received(w, "body")
           /\ recvLock' = NoWorker
           /\ Goto(w, "check") /\ UNCHANGED reqbuf
  <2>1. UNCHANGED <<fdBuf, fdCnt, fd, sproc>>
    BY <1>4 DEF Received
  <2>2. FdOK' /\ LoopOK' /\ CountOK' /\ EnvOK' /\ BufferOK'
    BY <1>1, <1>4, <2>1 DEF TypeInv, FdOK, LoopOK, CountOK, EnvOK, BufferOK,
                            countVars, envVars, infoVars
  <2>3. StreamOK'
    BY <1>1, <1>4, ReceivedTypes DEF TypeInv, StreamOK
  <2>4. PcOK'
    BY <1>1, <1>4, <2>1, WorkersAssumption DEF TypeInv, PcOK, WorkerPC, Goto
  <2>5. PlaceInv'
    BY <1>1, <1>4, <2>1 DEF TypeInv, PcOK, PlaceInv, Goto
  <2> QED BY <2>2, <2>3, <2>4, <2>5 DEF TypeInv
<1> QED BY <1>2, <1>3, <1>4 DEF RecvBody

LEMMA TypeInvCheckClients ==
  ASSUME TypeInv, NEW w \in Workers, CheckClients(w)
  PROVE  TypeInv'
<1>1. /\ sproc = "running" /\ wpc[w] = "check"
      /\ UNCHANGED <<fdVars, readSet, cur, end, reqbuf, countVars, toServer,
                     toClient, envVars, skipped>>
  BY DEF CheckClients, At
<1>2. FdOK' /\ LoopOK' /\ CountOK' /\ EnvOK' /\ StreamOK'
  BY <1>1 DEF TypeInv, FdOK, LoopOK, CountOK, EnvOK, StreamOK, fdVars,
              countVars, envVars
<1>3. CASE fdCnt = 0
  <2>1. sproc' = "exit0" /\ UNCHANGED <<wpc, fd, infoVars>>
    BY <1>3 DEF CheckClients
  <2>2. BufferOK' /\ PcOK' /\ PlaceInv'
    BY <1>1, <2>1 DEF TypeInv, BufferOK, PcOK, PlaceInv, ServerStates, fdVars,
                      infoVars
  <2> QED BY <1>2, <2>2 DEF TypeInv
<1>4. CASE fdCnt # 0
  <2>1. /\ reqInfo' = [reqInfo EXCEPT ![w] = reqbuf[w]]
        /\ activeFds' = [activeFds EXCEPT ![w] = fd[w]]
        /\ fd' = [fd EXCEPT ![w] = NoFd]
        /\ wpc' = [wpc EXCEPT ![w] = "serve"]
        /\ UNCHANGED sproc
    BY <1>4 DEF CheckClients, Record, Goto
  <2>2. fd[w] \in Conns
    BY <1>1, <1>4 DEF TypeInv, PlaceInv
  <2>3. BufferOK'
    BY <1>1, <2>1, <2>2 DEF TypeInv, BufferOK
  <2>4. PcOK'
    BY <1>1, <2>1 DEF TypeInv, PcOK, WorkerPC, fdVars
  <2>5. PlaceInv'
    BY <1>1, <2>1 DEF TypeInv, PcOK, BufferOK, PlaceInv, fdVars
  <2> QED BY <1>2, <2>3, <2>4, <2>5 DEF TypeInv
<1> QED BY <1>3, <1>4

LEMMA SendFrameTypes ==
  ASSUME TypeInv, NEW w \in Workers, NEW c \in Conns,
         NEW type \in {"RESPONSE", "ROI_BEGIN", "FINISH"},
         SendFrame(w, c, type), UNCHANGED toServer
  PROVE  StreamOK' /\ sproc' \in {sproc, "aborted"}
<1>1. CASE UNCHANGED toClient /\ sproc' = "aborted"
  BY <1>1 DEF TypeInv, StreamOK
<1>2. CASE UNCHANGED sproc
  <2> DEFINE frame == [type |-> type,
                       id |-> IF type = "RESPONSE" THEN reqInfo[w] ELSE NoId]
  <2>1. frame \in Frames
    BY DEF TypeInv, BufferOK, Frames
  <2>2. \/ UNCHANGED toClient
        \/ toClient' = [toClient EXCEPT ![c] = Append(toClient[c], frame)]
    BY DEF SendFrame
  <2> HIDE DEF frame
  <2>3. Append(toClient[c], frame) \in Seq(Frames)
    BY <2>1 DEF TypeInv, StreamOK
  <2> QED BY <1>2, <2>2, <2>3 DEF TypeInv, StreamOK
<1> QED BY <1>1, <1>2 DEF SendFrame

LEMMA TypeInvSendResp ==
  ASSUME TypeInv, NEW w \in Workers, SendResp(w)
  PROVE  TypeInv'
<1>1. /\ sproc = "running" /\ wpc[w] = "serve"
      /\ wpc' = [wpc EXCEPT ![w] = "load"]
      /\ SendFrame(w, activeFds[w], "RESPONSE")
      /\ UNCHANGED <<fdVars, loopVars, infoVars, countVars, toServer, envVars,
                     skipped>>
  BY DEF SendResp, At, Goto
<1>2. FdOK' /\ LoopOK' /\ BufferOK' /\ CountOK' /\ EnvOK'
  BY <1>1 DEF TypeInv, FdOK, LoopOK, BufferOK, CountOK, EnvOK, fdVars,
              loopVars, infoVars, countVars, envVars
<1>3. StreamOK' /\ sproc' \in {"running", "aborted"}
  <2>1. activeFds[w] \in Conns
    BY DEF TypeInv, BufferOK
  <2> QED BY <1>1, <2>1, SendFrameTypes
<1>4. PcOK'
  BY <1>1, <1>3 DEF TypeInv, PcOK, WorkerPC, ServerStates, fdVars
<1>5. PlaceInv'
  BY <1>1, <1>3 DEF TypeInv, PcOK, PlaceInv, fdVars, loopVars
<1> QED BY <1>2, <1>3, <1>4, <1>5 DEF TypeInv

LEMMA TypeInvLoadFinished ==
  ASSUME TypeInv, NEW w \in Workers, LoadFinished(w)
  PROVE  TypeInv'
<1>1. /\ sproc = "running" /\ wpc[w] = "load"
      /\ wpc' = [wpc EXCEPT ![w] = "store"]
      /\ reg' = [reg EXCEPT ![w] = finishedReqs]
      /\ UNCHANGED <<fdVars, loopVars, infoVars, finishedReqs, sproc, toServer,
                     toClient, envVars, skipped>>
  BY DEF LoadFinished, At, Goto
<1>2. FdOK' /\ LoopOK' /\ BufferOK' /\ StreamOK' /\ EnvOK'
  BY <1>1 DEF TypeInv, FdOK, LoopOK, BufferOK, StreamOK, EnvOK, fdVars,
              loopVars, infoVars, envVars
<1>3. CountOK'
  BY <1>1 DEF TypeInv, CountOK
<1>4. PcOK'
  BY <1>1 DEF TypeInv, PcOK, WorkerPC, fdVars
<1>5. PlaceInv'
  BY <1>1 DEF TypeInv, PcOK, PlaceInv, fdVars, loopVars
<1> QED BY <1>2, <1>3, <1>4, <1>5 DEF TypeInv

LEMMA TypeInvStoreFinished ==
  ASSUME TypeInv, NEW w \in Workers, StoreFinished(w)
  PROVE  TypeInv'
<1>1. /\ sproc = "running" /\ wpc[w] = "store"
      /\ finishedReqs' = reg[w] + 1
      /\ reg' = [reg EXCEPT ![w] = 0]
      /\ UNCHANGED <<fdVars, readSet, fd, reqbuf, infoVars, sproc, toServer,
                     toClient, envVars, skipped>>
  BY DEF StoreFinished, At
<1>2. FdOK' /\ BufferOK' /\ StreamOK' /\ EnvOK'
  BY <1>1 DEF TypeInv, FdOK, BufferOK, StreamOK, EnvOK, fdVars, infoVars,
              envVars
<1>3. CountOK'
  BY <1>1 DEF TypeInv, CountOK
<1>4. CASE wpc' = [wpc EXCEPT ![w] = "recv"] /\ UNCHANGED <<cur, end>>
  <2>1. LoopOK'
    BY <1>1, <1>4 DEF TypeInv, LoopOK
  <2>2. PcOK'
    BY <1>1, <1>4 DEF TypeInv, PcOK, WorkerPC, fdVars
  <2>3. PlaceInv'
    BY <1>1, <1>4 DEF TypeInv, PcOK, PlaceInv, fdVars
  <2> QED BY <1>2, <1>3, <2>1, <2>2, <2>3 DEF TypeInv
<1>5. CASE /\ \E p \in {"roi", "fin"} : wpc' = [wpc EXCEPT ![w] = p]
           /\ cur' = [cur EXCEPT ![w] = 1]
           /\ end' = [end EXCEPT ![w] = fdCnt] /\ fdCnt # 0
  <2>1. LoopOK'
    BY <1>1, <1>5 DEF TypeInv, LoopOK, FdOK
  <2>2. PcOK'
    BY <1>1, <1>5 DEF TypeInv, PcOK, WorkerPC, fdVars
  <2>3. PlaceInv'
    BY <1>1, <1>5, NConnsPositive
       DEF TypeInv, PcOK, LoopOK, FdOK, PlaceInv, fdVars
  <2> QED BY <1>2, <1>3, <2>1, <2>2, <2>3 DEF TypeInv
<1>6. AfterCount(reg[w] + 1) \in {"recv", "roi", "fin"}
  BY DEF AfterCount
<1> QED BY <1>4, <1>5, <1>6 DEF StoreFinished, Goto

LEMMA TypeInvBroadcast ==
  ASSUME TypeInv, NEW w \in Workers, Broadcast(w)
  PROVE  TypeInv'
<1>1. /\ sproc = "running" /\ wpc[w] \in {"roi", "fin"}
      /\ SendFrame(w, fdBuf[cur[w]],
                   IF wpc[w] = "roi" THEN "ROI_BEGIN" ELSE "FINISH")
      /\ Advance(w, "recv")
      /\ UNCHANGED <<fdVars, readSet, fd, reqbuf, infoVars, countVars,
                     toServer, envVars, skipped>>
  BY DEF Broadcast, At
<1>2. FdOK' /\ BufferOK' /\ CountOK' /\ EnvOK'
  BY <1>1 DEF TypeInv, FdOK, BufferOK, CountOK, EnvOK, fdVars, infoVars,
              countVars, envVars
<1>3. StreamOK' /\ sproc' \in {"running", "aborted"}
  <2>1. fdBuf[cur[w]] \in Conns
    BY <1>1, IteratorInBuffer
  <2> QED BY <1>1, <2>1, SendFrameTypes
<1>4. /\ cur' \in [Workers -> Nat] /\ end' \in [Workers -> 0 .. NConns]
      /\ PcOK' /\ PlaceInv'
  BY <1>1, <1>3, AdvanceInv DEF fdVars, ServerStates
<1>5. LoopOK'
  BY <1>1, <1>4 DEF TypeInv, LoopOK
<1> QED BY <1>2, <1>3, <1>4, <1>5 DEF TypeInv

LEMMA TypeInvAccept ==
  ASSUME TypeInv, NEW c \in Conns, Accept(c)
  PROVE  TypeInv'
<1>1. /\ sproc = "accepting"
      /\ fdBuf' = [fdBuf EXCEPT ![fdCnt + 1] = c] /\ fdCnt' = fdCnt + 1
      /\ sproc' = IF fdCnt' = NConns THEN "running" ELSE sproc
      /\ UNCHANGED <<recvClientHead, recvLock, loopVars, infoVars, countVars,
                     wpc, toServer, toClient, envVars, skipped>>
  BY DEF Accept
<1>2. LoopOK' /\ BufferOK' /\ CountOK' /\ StreamOK' /\ EnvOK'
  BY <1>1 DEF TypeInv, LoopOK, BufferOK, CountOK, StreamOK, EnvOK, loopVars,
              infoVars, countVars, envVars
<1>3. fdCnt \in Nat /\ fdCnt < NConns
  BY <1>1, NConnsPositive DEF TypeInv, FdOK, PlaceInv
<1>4. FdOK'
  BY <1>1, <1>3, NConnsPositive DEF TypeInv, FdOK
<1>5. PcOK'
  BY <1>1 DEF TypeInv, PcOK, ServerStates
<1>6. PlaceInv'
  <2>1. sproc' = "accepting" => fdCnt' < NConns
    BY <1>1, <1>3, NConnsPositive
  <2> QED BY <1>1, <2>1 DEF TypeInv, PlaceInv, loopVars
<1> QED BY <1>2, <1>4, <1>5, <1>6 DEF TypeInv

LEMMA TypeInvClients ==
  ASSUME TypeInv, NEW c \in Conns, SendHeader(c) \/ SendBody(c) \/ Close(c)
  PROVE  TypeInv'
<1>1. UNCHANGED serverVars
  BY DEF SendHeader, SendBody, Close
<1>2. FdOK' /\ LoopOK' /\ BufferOK' /\ CountOK' /\ PcOK' /\ PlaceInv'
  BY <1>1 DEF TypeInv, FdOK, LoopOK, BufferOK, CountOK, PcOK, PlaceInv,
              serverVars, fdVars, loopVars, infoVars, countVars
<1>3. /\ sent' \in [Conns -> Nat] /\ half' \in [Conns -> BOOLEAN]
      /\ closed' \in [Conns -> BOOLEAN]
  <2>1. /\ \/ UNCHANGED sent
           \/ sent' = [sent EXCEPT ![c] = sent[c] + 1]
        /\ \/ UNCHANGED half
           \/ half' = [half EXCEPT ![c] = TRUE]
           \/ half' = [half EXCEPT ![c] = FALSE]
        /\ \/ UNCHANGED closed
           \/ closed' = [closed EXCEPT ![c] = TRUE]
    BY DEF SendHeader, SendBody, Close
  <2>2. sent' \in [Conns -> Nat]
    BY <2>1 DEF TypeInv, EnvOK
  <2>3. half' \in [Conns -> BOOLEAN]
    BY <2>1 DEF TypeInv, EnvOK
  <2>4. closed' \in [Conns -> BOOLEAN]
    BY <2>1 DEF TypeInv, EnvOK
  <2> QED BY <2>2, <2>3, <2>4
<1>4. \A unit \in Units : Append(toServer[c], unit) \in Seq(Units)
  BY DEF TypeInv, StreamOK
<1>5. \/ \E unit \in Units :
           toServer' = [toServer EXCEPT ![c] = Append(toServer[c], unit)]
      \/ toServer' = [toServer EXCEPT ![c] = toServer[c]]
      \/ toServer' = [toServer EXCEPT ![c] = <<>>]
  <2>1. CASE SendHeader(c)
    <3>1. [part |-> "hdr", id |-> <<c, sent'[c]>>] \in Units
      BY <1>3 DEF Units, Ids
    <3> QED BY <2>1, <3>1 DEF SendHeader
  <2>2. CASE SendBody(c)
    <3>1. [part |-> "body", id |-> <<c, sent[c]>>] \in Units
      BY DEF Units, Ids, TypeInv, EnvOK
    <3> QED BY <2>2, <3>1 DEF SendBody
  <2>3. CASE Close(c)
    <3>1. [part |-> "cut", id |-> NoId] \in Units
      BY DEF Units
    <3> QED BY <2>3, <3>1 DEF Close
  <2> QED BY <2>1, <2>2, <2>3
<1>6. toServer' \in [Conns -> Seq(Units)]
  <2>1. <<>> \in Seq(Units)
    OBVIOUS
  <2> QED BY <1>4, <1>5, <2>1 DEF TypeInv, StreamOK
<1> QED BY <1>1, <1>2, <1>3, <1>6 DEF TypeInv, StreamOK, EnvOK, serverVars

LEMMA TypeInvStep ==
  ASSUME TypeInv, [Next]_vars
  PROVE  TypeInv'
<1>1. CASE UNCHANGED vars
  <2>1. FdOK' /\ LoopOK' /\ BufferOK' /\ CountOK'
    BY <1>1 DEF TypeInv, FdOK, LoopOK, BufferOK, CountOK, vars, serverVars,
                fdVars, loopVars, infoVars, countVars
  <2>2. PcOK' /\ StreamOK' /\ EnvOK' /\ PlaceInv'
    BY <1>1 DEF TypeInv, PcOK, StreamOK, EnvOK, PlaceInv, vars, serverVars,
                fdVars, loopVars, envVars
  <2> QED BY <2>1, <2>2 DEF TypeInv
<1>2. CASE Next
  BY <1>2, Steps, TypeInvEnterLoop, TypeInvFdSet, TypeInvSelect,
     TypeInvLockRecv, TypeInvPick, TypeInvRecvHdr, TypeInvRecvBody,
     TypeInvCheckClients, TypeInvSendResp, TypeInvLoadFinished,
     TypeInvStoreFinished, TypeInvBroadcast, TypeInvAccept, TypeInvClients
<1> QED BY <1>1, <1>2

LEMMA TypeInvariant == Spec => []TypeInv
<1>1. Init => TypeInv
  <2> SUFFICES ASSUME Init
               PROVE  TypeInv
    OBVIOUS
  <2>1. (CHOOSE c \in Conns : TRUE) \in Conns
    BY ConnsAssumption
  <2>2. FdOK /\ LoopOK /\ CountOK
    BY <2>1, NConnsPositive DEF Init, FdOK, LoopOK, CountOK
  <2>3. BufferOK
    BY <2>1 DEF Init, BufferOK
  <2>4. PcOK /\ PlaceInv
    BY WorkersAssumption, NConnsPositive
       DEF Init, PcOK, PlaceInv, WorkerPC, ServerStates
  <2>5. StreamOK /\ EnvOK
    BY DEF Init, StreamOK, EnvOK
  <2> QED BY <2>2, <2>3, <2>4, <2>5 DEF TypeInv
<1> QED BY <1>1, TypeInvStep, PTL DEF Spec

\* The server's variables keep their types, no iterator leaves the buffer of
\* clientFds, and only the worker that holds recvLock is past line 190.
THEOREM TypeCorrect == Spec => []TypeOK
<1>1. TypeInv => TypeOK
  BY DEF TypeInv, FdOK, LoopOK, BufferOK, CountOK, PcOK, StreamOK, EnvOK, TypeOK
<1> QED BY <1>1, TypeInvariant, PTL

-----------------------------------------------------------------------------
(* The periods do not end early.                                           *)

\* The workers that sent a response and did not count it yet.
Uncounted == {w \in Workers : wpc[w] \in {"load", "store"}}
Responses == Cardinality(FramesOf("RESPONSE"))

\* Counts may be lost, so the counter is no larger than the responses that
\* went out; to keep that when a register, read a while ago, is stored, the
\* responses that are still to be counted must fit on top of the counter, and
\* of every register.  (A send that aborts the process sends no response.)
Alive == sproc \in {"accepting", "running"}
CountersFit ==
  Alive => /\ finishedReqs + Cardinality(Uncounted) <= Responses
           /\ \A w \in Workers : wpc[w] = "store" =>
                reg[w] + Cardinality(Uncounted) <= Responses

\* A worker that broadcasts found that enough responses were sent.
BroadcastsFit ==
  \A w \in Workers :
    /\ wpc[w] = "roi" => Responses >= WarmupReqs
    /\ wpc[w] = "fin" => Responses >= WarmupReqs + MaxReqs

CountInv ==
  /\ IsFiniteSet(FramesOf("RESPONSE"))
  /\ CountersFit /\ BroadcastsFit /\ NotEarly

LEMMA FramesOfElements ==
  ASSUME NEW type
  PROVE  \A x : x \in FramesOf(type) <=>
           \E d \in Conns : \E i \in DOMAIN toClient[d] :
             toClient[d][i].type = type /\ x = <<d, i>>
  BY DEF FramesOf

LEMMA FramesOfElementsNext ==
  ASSUME NEW type
  PROVE  \A x : x \in FramesOf(type)' <=>
           \E d \in Conns : \E i \in DOMAIN toClient'[d] :
             toClient'[d][i].type = type /\ x = <<d, i>>
  BY DEF FramesOf

\* A frame is written behind the others, or not at all.
LEMMA FramesAppended ==
  ASSUME TypeInv, NEW c \in Conns, NEW frame, NEW type,
         toClient' = [toClient EXCEPT ![c] = Append(toClient[c], frame)]
  PROVE  /\ <<c, Len(toClient[c]) + 1>> \notin FramesOf(type)
         /\ FramesOf(type)' = IF frame.type = type
                              THEN FramesOf(type) \cup
                                     {<<c, Len(toClient[c]) + 1>>}
                              ELSE FramesOf(type)
<1> DEFINE n == Len(toClient[c])
<1>1. /\ n \in Nat /\ DOMAIN toClient[c] = 1 .. n
      /\ DOMAIN toClient'[c] = 1 .. n + 1
      /\ \A i \in 1 .. n : toClient'[c][i] = toClient[c][i]
      /\ toClient'[c][n + 1] = frame
      /\ \A d \in Conns : d # c => toClient'[d] = toClient[d]
  BY DEF TypeInv, StreamOK
<1> HIDE DEF n
<1>2. <<c, n + 1>> \notin FramesOf(type)
  BY <1>1, FramesOfElements
<1>3. ASSUME NEW x \in FramesOf(type)
      PROVE  x \in FramesOf(type)'
  <2>1. PICK d \in Conns : \E i \in DOMAIN toClient[d] :
          toClient[d][i].type = type /\ x = <<d, i>>
    BY <1>3, FramesOfElements
  <2>2. PICK i \in DOMAIN toClient[d] :
          toClient[d][i].type = type /\ x = <<d, i>>
    BY <2>1
  <2>3. i \in DOMAIN toClient'[d] /\ toClient'[d][i] = toClient[d][i]
    BY <1>1, <2>2
  <2> QED BY <2>2, <2>3, FramesOfElementsNext
<1>4. ASSUME frame.type = type
      PROVE  <<c, n + 1>> \in FramesOf(type)'
  <2>1. n + 1 \in DOMAIN toClient'[c] /\ toClient'[c][n + 1].type = type
    BY <1>1, <1>4
  <2> QED BY <2>1, FramesOfElementsNext
<1>5. ASSUME NEW x \in FramesOf(type)', x \notin FramesOf(type)
      PROVE  x = <<c, n + 1>> /\ frame.type = type
  <2>1. PICK d \in Conns : \E i \in DOMAIN toClient'[d] :
          toClient'[d][i].type = type /\ x = <<d, i>>
    BY <1>5, FramesOfElementsNext
  <2>2. PICK i \in DOMAIN toClient'[d] :
          toClient'[d][i].type = type /\ x = <<d, i>>
    BY <2>1
  <2>3. CASE d # c \/ i \in 1 .. n
    <3>1. i \in DOMAIN toClient[d] /\ toClient[d][i].type = type
      BY <1>1, <2>2, <2>3
    <3> QED BY <1>5, <2>2, <3>1, FramesOfElements
  <2>4. CASE d = c /\ i = n + 1
    BY <1>1, <2>2, <2>4
  <2> QED BY <1>1, <2>2, <2>3, <2>4
<1> QED BY <1>2, <1>3, <1>4, <1>5 DEF n

LEMMA UncountedFinite == IsFiniteSet(Uncounted)
  BY WorkersAssumption, FS_Subset DEF Uncounted

\* Steps that neither send a frame nor count one.
LEMMA CountInvOther ==
  ASSUME CountInv, UNCHANGED <<toClient, finishedReqs, reg>>,
         Alive' => Alive,
         \A v \in Workers : wpc'[v] = wpc[v] \/
           {wpc[v], wpc'[v]} \cap {"load", "store", "roi", "fin"} = {}
  PROVE  CountInv'
<1>1. FramesOf("RESPONSE")' = FramesOf("RESPONSE")
      /\ FramesOf("ROI_BEGIN")' = FramesOf("ROI_BEGIN")
      /\ FramesOf("FINISH")' = FramesOf("FINISH")
  BY DEF FramesOf
<1>2. Uncounted' = Uncounted
  BY DEF Uncounted
<1>3. CountersFit' /\ BroadcastsFit'
  BY <1>1, <1>2 DEF CountInv, CountersFit, BroadcastsFit, Responses
<1> QED BY <1>1, <1>3 DEF CountInv, NotEarly

\* What sendfull does to the sets of frames: one of them gets one more, or the
\* process is aborted.
LEMMA FramesSent ==
  ASSUME TypeInv, CountInv, NEW w \in Workers, NEW c \in Conns,
         NEW type \in {"RESPONSE", "ROI_BEGIN", "FINISH"},
         SendFrame(w, c, type)
  PROVE  \/ sproc' = "aborted" /\ UNCHANGED toClient
         \/ /\ UNCHANGED sproc
            /\ \E x : /\ x \notin FramesOf(type)
                     /\ \A t : FramesOf(t)' = IF t = type
                                             THEN FramesOf(t) \cup {x}
                                             ELSE FramesOf(t)
<1> DEFINE frame == [type |-> type,
                     id |-> IF type = "RESPONSE" THEN reqInfo[w] ELSE NoId]
           x == <<c, Len(toClient[c]) + 1>>
<1>1. CASE UNCHANGED sproc /\ toClient' =
             [toClient EXCEPT ![c] = Append(toClient[c], frame)]
  <2>1. frame.type = type
    OBVIOUS
  <2> HIDE DEF frame
  <2>2. \A t : /\ x \notin FramesOf(t)
              /\ FramesOf(t)' = IF frame.type = t THEN FramesOf(t) \cup {x}
                                                  ELSE FramesOf(t)
    BY <1>1, FramesAppended
  <2> HIDE DEF x
  <2> QED BY <1>1, <2>1, <2>2
<1> QED BY <1>1 DEF SendFrame

\* A step that writes no response leaves their number alone.
LEMMA SameResponses ==
  ASSUME CountInv, FramesOf("RESPONSE")' = FramesOf("RESPONSE")
  PROVE  /\ IsFiniteSet(FramesOf("RESPONSE"))'
         /\ Responses' = Responses /\ Responses \in Nat
  BY FS_CardinalityType DEF CountInv, Responses

LEMMA CountInvSendResp ==
  ASSUME TypeInv, CountInv, NEW w \in Workers, SendResp(w)
  PROVE  CountInv'
<1>1. /\ sproc = "running" /\ wpc[w] = "serve"
      /\ wpc' = [wpc EXCEPT ![w] = "load"]
      /\ SendFrame(w, activeFds[w], "RESPONSE")
      /\ UNCHANGED <<finishedReqs, reg>>
  BY DEF SendResp, At, Goto, countVars
<1>2. activeFds[w] \in Conns
  BY DEF TypeInv, BufferOK
<1>3. /\ IsFiniteSet(FramesOf("RESPONSE"))'
      /\ Responses \in Nat /\ Responses' \in Nat /\ Responses' >= Responses
      /\ \/ sproc' = "aborted"
         \/ sproc' = "running" /\ Responses' = Responses + 1
      /\ FramesOf("ROI_BEGIN")' = FramesOf("ROI_BEGIN")
      /\ FramesOf("FINISH")' = FramesOf("FINISH")
  <2>1. CASE sproc' = "aborted" /\ UNCHANGED toClient
    <3>1. /\ FramesOf("RESPONSE")' = FramesOf("RESPONSE")
          /\ FramesOf("ROI_BEGIN")' = FramesOf("ROI_BEGIN")
          /\ FramesOf("FINISH")' = FramesOf("FINISH")
      BY <2>1 DEF FramesOf
    <3> QED BY <2>1, <3>1, SameResponses
  <2>2. CASE /\ UNCHANGED sproc
             /\ \E x : /\ x \notin FramesOf("RESPONSE")
                      /\ \A t : FramesOf(t)' = IF t = "RESPONSE"
                                              THEN FramesOf(t) \cup {x}
                                              ELSE FramesOf(t)
    <3>0. PICK x : /\ x \notin FramesOf("RESPONSE")
                   /\ \A t : FramesOf(t)' = IF t = "RESPONSE"
                                           THEN FramesOf(t) \cup {x}
                                           ELSE FramesOf(t)
      BY <2>2
    <3>1. /\ FramesOf("RESPONSE")' = FramesOf("RESPONSE") \cup {x}
          /\ FramesOf("ROI_BEGIN")' = FramesOf("ROI_BEGIN")
          /\ FramesOf("FINISH")' = FramesOf("FINISH")
      BY <3>0
    <3>2. /\ IsFiniteSet(FramesOf("RESPONSE") \cup {x})
          /\ Cardinality(FramesOf("RESPONSE") \cup {x}) = Responses + 1
          /\ Responses \in Nat
      BY <3>0, FS_AddElement, FS_CardinalityType DEF CountInv, Responses
    <3> QED BY <1>1, <2>2, <3>1, <3>2 DEF Responses
  <2> QED BY <1>1, <1>2, <2>1, <2>2, FramesSent
<1>4. Uncounted' = Uncounted \cup {w} /\ w \notin Uncounted
  BY <1>1 DEF Uncounted, TypeInv, PcOK
<1>5. /\ Cardinality(Uncounted') = Cardinality(Uncounted) + 1
      /\ Cardinality(Uncounted) \in Nat
  BY <1>4, UncountedFinite, FS_AddElement, FS_CardinalityType
<1>6. CountersFit'
  <2> SUFFICES ASSUME Alive'
               PROVE  /\ finishedReqs + Cardinality(Uncounted') <= Responses'
                      /\ \A v \in Workers : wpc'[v] = "store" =>
                           reg[v] + Cardinality(Uncounted') <= Responses'
    BY <1>1 DEF CountersFit
  <2>1. Responses' = Responses + 1 /\ Alive
    BY <1>1, <1>3 DEF Alive
  <2>2. /\ finishedReqs + Cardinality(Uncounted) <= Responses
        /\ \A v \in Workers : wpc[v] = "store" =>
             reg[v] + Cardinality(Uncounted) <= Responses
    BY <2>1 DEF CountInv, CountersFit
  <2>3. finishedReqs \in Nat /\ \A v \in Workers : reg[v] \in Nat
    BY DEF TypeInv, CountOK
  <2>4. \A v \in Workers : wpc'[v] = "store" => wpc[v] = "store"
    BY <1>1 DEF TypeInv, PcOK
  <2> QED BY <1>3, <1>5, <2>1, <2>2, <2>3, <2>4
<1>7. BroadcastsFit'
  <2>1. \A v \in Workers : wpc'[v] \in {"roi", "fin"} => wpc[v] = wpc'[v]
    BY <1>1 DEF TypeInv, PcOK
  <2> QED BY <1>3, <2>1, CountsAssumption DEF CountInv, BroadcastsFit
<1>8. NotEarly'
  BY <1>3, CountsAssumption DEF CountInv, NotEarly, Responses
<1> QED BY <1>3, <1>6, <1>7, <1>8 DEF CountInv

LEMMA CountInvLoadFinished ==
  ASSUME TypeInv, CountInv, NEW w \in Workers, LoadFinished(w)
  PROVE  CountInv'
<1>1. /\ wpc[w] = "load" /\ wpc' = [wpc EXCEPT ![w] = "store"]
      /\ reg' = [reg EXCEPT ![w] = finishedReqs]
      /\ UNCHANGED <<finishedReqs, sproc, toClient>>
  BY DEF LoadFinished, At, Goto
<1>2. /\ FramesOf("RESPONSE")' = FramesOf("RESPONSE")
      /\ FramesOf("ROI_BEGIN")' = FramesOf("ROI_BEGIN")
      /\ FramesOf("FINISH")' = FramesOf("FINISH")
  BY <1>1 DEF FramesOf
<1>3. Uncounted' = Uncounted /\ Responses' = Responses
  BY <1>1, <1>2 DEF Uncounted, Responses, TypeInv, PcOK
<1>4. CountersFit'
  <2>1. \A v \in Workers : wpc'[v] = "store" =>
          \/ wpc[v] = "store" /\ reg'[v] = reg[v]
          \/ reg'[v] = finishedReqs
    BY <1>1 DEF TypeInv, PcOK, CountOK
  <2> QED BY <1>1, <1>3, <2>1 DEF CountInv, CountersFit, Alive
<1>5. BroadcastsFit'
  BY <1>1, <1>3 DEF CountInv, BroadcastsFit, TypeInv, PcOK
<1> QED BY <1>2, <1>4, <1>5 DEF CountInv, NotEarly

\* The value stored is no larger than the responses, less those of the other
\* workers that are still to be counted.
LEMMA CountInvStoreFinished ==
  ASSUME TypeInv, CountInv, NEW w \in Workers, StoreFinished(w)
  PROVE  CountInv'
<1> DEFINE n == reg[w] + 1
<1>1. /\ sproc = "running" /\ wpc[w] = "store"
      /\ finishedReqs' = n /\ reg' = [reg EXCEPT ![w] = 0]
      /\ UNCHANGED <<sproc, toClient>>
      /\ \/ wpc' = [wpc EXCEPT ![w] = "recv"]
         \/ wpc' = [wpc EXCEPT ![w] = "roi"] /\ n = WarmupReqs
         \/ wpc' = [wpc EXCEPT ![w] = "fin"] /\ n = WarmupReqs + MaxReqs
  BY DEF StoreFinished, At, Goto, AfterCount
<1>2. /\ FramesOf("RESPONSE")' = FramesOf("RESPONSE")
      /\ FramesOf("ROI_BEGIN")' = FramesOf("ROI_BEGIN")
      /\ FramesOf("FINISH")' = FramesOf("FINISH")
  BY <1>1 DEF FramesOf
<1>3. Responses' = Responses /\ Responses \in Nat
  BY <1>2, FS_CardinalityType DEF CountInv, Responses
<1>4. Uncounted' = Uncounted \ {w} /\ w \in Uncounted
  BY <1>1 DEF Uncounted, TypeInv, PcOK
<1>5. /\ Cardinality(Uncounted') = Cardinality(Uncounted) - 1
      /\ Cardinality(Uncounted) \in Nat
  BY <1>4, UncountedFinite, FS_RemoveElement, FS_CardinalityType
<1>6. \A v \in Workers : wpc[v] = "store" =>
        reg[v] + Cardinality(Uncounted) <= Responses /\ reg[v] \in Nat
  BY <1>1 DEF CountInv, CountersFit, Alive, TypeInv, CountOK
<1>7. n \in Nat /\ n <= Responses
  <2>1. Cardinality(Uncounted) # 0
    BY <1>4, UncountedFinite, FS_EmptySet
  <2> QED BY <1>1, <1>3, <1>5, <1>6, <2>1
<1>8. CountersFit'
  <2>1. finishedReqs' + Cardinality(Uncounted') <= Responses'
    BY <1>1, <1>3, <1>5, <1>6
  <2>2. \A v \in Workers : wpc'[v] = "store" =>
          wpc[v] = "store" /\ reg'[v] = reg[v]
    BY <1>1 DEF TypeInv, PcOK, CountOK
  <2>3. \A v \in Workers : wpc'[v] = "store" =>
          reg'[v] + Cardinality(Uncounted') <= Responses'
    BY <1>3, <1>5, <1>6, <2>2
  <2> QED BY <2>1, <2>3 DEF CountersFit
<1>9. BroadcastsFit'
  BY <1>1, <1>3, <1>7 DEF CountInv, BroadcastsFit, TypeInv, PcOK
<1> QED BY <1>2, <1>8, <1>9 DEF CountInv, NotEarly

LEMMA CountInvBroadcast ==
  ASSUME TypeInv, CountInv, NEW w \in Workers, Broadcast(w)
  PROVE  CountInv'
<1> DEFINE type == IF wpc[w] = "roi" THEN "ROI_BEGIN" ELSE "FINISH"
<1>1. /\ sproc = "running" /\ wpc[w] \in {"roi", "fin"}
      /\ SendFrame(w, fdBuf[cur[w]], type)
      /\ wpc' = [wpc EXCEPT ![w] = "recv"] \/ UNCHANGED wpc
      /\ UNCHANGED <<finishedReqs, reg>>
  BY DEF Broadcast, At, Advance, Goto, countVars
<1>2. fdBuf[cur[w]] \in Conns
  BY <1>1, IteratorInBuffer
<1>3. /\ IsFiniteSet(FramesOf("RESPONSE"))' /\ Responses' = Responses
      /\ wpc[w] = "roi" => FramesOf("FINISH")' = FramesOf("FINISH")
      /\ wpc[w] = "fin" => FramesOf("ROI_BEGIN")' = FramesOf("ROI_BEGIN")
      /\ sproc' \in {"running", "aborted"}
  <2>1. /\ \A t : t # type => FramesOf(t)' = FramesOf(t)
        /\ sproc' \in {"running", "aborted"}
    <3>1. CASE UNCHANGED toClient /\ sproc' = "aborted"
      BY <3>1 DEF FramesOf
    <3>2. CASE /\ UNCHANGED sproc
               /\ \A t : t # type => FramesOf(t)' = FramesOf(t)
      BY <1>1, <3>2
    <3> QED BY <1>1, <1>2, <3>1, <3>2, FramesSent
  <2>2. FramesOf("RESPONSE")' = FramesOf("RESPONSE")
    BY <2>1
  <2> QED BY <1>1, <2>1, <2>2, SameResponses
<1>4. Uncounted' = Uncounted
  BY <1>1 DEF Uncounted, TypeInv, PcOK
<1>5. CountersFit'
  <2>1. \A v \in Workers : wpc'[v] = "store" => wpc[v] = "store"
    BY <1>1 DEF TypeInv, PcOK
  <2> QED BY <1>1, <1>3, <1>4, <2>1 DEF CountInv, CountersFit, Alive
<1>6. BroadcastsFit'
  BY <1>1, <1>3 DEF CountInv, BroadcastsFit, TypeInv, PcOK
<1>7. NotEarly'
  <2>1. CASE wpc[w] = "roi"
    <3>1. Responses >= WarmupReqs
      BY <2>1 DEF CountInv, BroadcastsFit
    <3> QED BY <1>3, <2>1, <3>1 DEF CountInv, NotEarly, Responses
  <2>2. CASE wpc[w] = "fin"
    <3>1. Responses >= WarmupReqs + MaxReqs
      BY <2>2 DEF CountInv, BroadcastsFit
    <3> QED BY <1>3, <2>2, <3>1 DEF CountInv, NotEarly, Responses
  <2> QED BY <1>1, <2>1, <2>2
<1> QED BY <1>3, <1>5, <1>6, <1>7 DEF CountInv

LEMMA CountInvStep ==
  ASSUME TypeInv, CountInv, [Next]_vars
  PROVE  CountInv'
<1>1. ASSUME UNCHANGED vars
      PROVE  CountInv'
  <2>1. UNCHANGED <<toClient, finishedReqs, reg, wpc, sproc>>
    BY <1>1 DEF vars, serverVars, countVars
  <2> QED BY <2>1, CountInvOther DEF Alive
<1>2. ASSUME NEW w \in Workers,
             \/ EnterLoop(w) \/ FdSet(w) \/ Select(w) \/ LockRecv(w)
             \/ Pick(w) \/ RecvHdr(w) \/ RecvBody(w) \/ CheckClients(w)
      PROVE  CountInv'
  <2>1. UNCHANGED <<toClient, finishedReqs, reg>> /\ sproc = "running"
    BY <1>2 DEF EnterLoop, FdSet, Select, LockRecv, Pick, RecvHdr, RecvBody,
                CheckClients, countVars, At
  <2>2. /\ wpc[w] \notin {"load", "store", "roi", "fin"}
        /\ \/ UNCHANGED wpc
           \/ \E p \in {"recv", "fdset", "select", "lock", "pick", "hdr",
                        "body", "check", "serve"} :
                wpc' = [wpc EXCEPT ![w] = p]
    <3>1. CASE EnterLoop(w) \/ FdSet(w) \/ Select(w) \/ LockRecv(w)
      BY <3>1 DEF EnterLoop, FdSet, Select, LockRecv, At, Goto, Advance
    <3>2. CASE Pick(w) \/ CheckClients(w)
      BY <3>2 DEF Pick, CheckClients, At, Goto
    <3>3. CASE RecvHdr(w) \/ RecvBody(w)
      BY <3>3 DEF RecvHdr, RecvBody, ClientLeft, CutShort, At, Goto
    <3> QED BY <1>2, <3>1, <3>2, <3>3
  <2>3. \A v \in Workers : wpc'[v] = wpc[v] \/
          {wpc[v], wpc'[v]} \cap {"load", "store", "roi", "fin"} = {}
    BY <2>2 DEF TypeInv, PcOK
  <2> QED BY <2>1, <2>3, CountInvOther DEF Alive
<1>3. ASSUME NEW c \in Conns,
             Accept(c) \/ SendHeader(c) \/ SendBody(c) \/ Close(c)
      PROVE  CountInv'
  <2>1. /\ UNCHANGED <<toClient, finishedReqs, reg, wpc>>
        /\ UNCHANGED sproc \/ sproc = "accepting"
    BY <1>3 DEF Accept, SendHeader, SendBody, Close, serverVars, countVars
  <2> QED BY <2>1, CountInvOther DEF Alive
<1> QED BY <1>1, <1>2, <1>3, Steps, CountInvSendResp, CountInvLoadFinished,
           CountInvStoreFinished, CountInvBroadcast

LEMMA CountInvariant == Spec => []CountInv
<1>1. Init => CountInv
  <2> SUFFICES ASSUME Init
               PROVE  CountInv
    OBVIOUS
  <2>1. \A type : FramesOf(type) = {}
    BY DEF Init, FramesOf
  <2>2. Uncounted = {}
    BY DEF Init, Uncounted
  <2>3. IsFiniteSet({}) /\ Cardinality({}) = 0
    BY FS_EmptySet
  <2>4. Responses = 0 /\ IsFiniteSet(FramesOf("RESPONSE"))
    BY <2>1, <2>3 DEF Responses
  <2>5. \A w \in Workers : wpc[w] = "recv"
    BY DEF Init
  <2>6. CountersFit
    BY <2>2, <2>3, <2>4, <2>5 DEF Init, CountersFit
  <2>7. BroadcastsFit
    BY <2>5 DEF BroadcastsFit
  <2>8. NotEarly
    BY <2>1 DEF NotEarly
  <2> QED BY <2>4, <2>6, <2>7, <2>8 DEF CountInv
<1> QED BY <1>1, CountInvStep, TypeInvariant, PTL DEF Spec

\* However many counts the unsynchronised ++finishedReqs loses, and in whatever
\* order the workers load and store it, no client is told that the ROI begins
\* before warmupReqs responses went out, nor that it is over before
\* warmupReqs + maxReqs did.
THEOREM PeriodsNotEarly == Spec => []NotEarly
<1>1. CountInv => NotEarly
  BY DEF CountInv
<1> QED BY <1>1, CountInvariant, PTL

-----------------------------------------------------------------------------
(* The round robin *)

LEMMA ModOf ==
  ASSUME NEW a \in Nat, NEW n \in Nat \ {0}
  PROVE  a % n \in 0 .. n - 1 /\ a \div n \in Nat /\ a = (a \div n) * n + (a % n)
  BY Z3

LEMMA ModIs ==
  ASSUME NEW q \in Nat, NEW n \in Nat \ {0}, NEW r \in 0 .. n - 1
  PROVE  (q * n + r) % n = r
  BY Z3

\* A step of the head around n places is a step of everybody's distance.
LEMMA HeadMoves ==
  ASSUME NEW h \in Nat, NEW n \in Nat \ {0}, NEW i \in Nat
  PROVE  (((h + 1) % n) + i) % n = (h + (i + 1)) % n
<1> DEFINE q == (h + 1) \div n
           r == (h + 1) % n
           p == (r + i) \div n
           s == (r + i) % n
<1>1. q \in Nat /\ r \in 0 .. n - 1 /\ h + 1 = q * n + r
  <2>1. h + 1 \in Nat
    OBVIOUS
  <2> QED BY <2>1, ModOf
<1>2. p \in Nat /\ s \in 0 .. n - 1 /\ r + i = p * n + s
  <2>1. r + i \in Nat
    BY <1>1
  <2> HIDE DEF r
  <2> QED BY <2>1, ModOf
<1>3. q + p \in Nat /\ h + (i + 1) = (q + p) * n + s
  <2> HIDE DEF q, r, p, s
  <2>1. h + (i + 1) = q * n + (p * n + s)
    <3>1. q * n \in Int /\ p * n \in Int
      BY <1>1, <1>2, Z3
    <3> QED BY <1>1, <1>2, <3>1
  <2> QED BY <1>1, <1>2, <2>1, Z3
<1>4. (h + (i + 1)) % n = s
  <2> HIDE DEF q, r, p, s
  <2> QED BY <1>2, <1>3, ModIs
<1> QED BY <1>4

LEMMA FullRound ==
  ASSUME NEW h \in Nat, NEW n \in Nat \ {0}
  PROVE  (h + n) % n = (h + 0) % n
<1> DEFINE q == h \div n
           r == h % n
<1>1. q \in Nat /\ r \in 0 .. n - 1 /\ h = q * n + r
  BY ModOf
<1> HIDE DEF q, r
<1>2. q + 1 \in Nat /\ h + n = (q + 1) * n + r /\ h + 0 = q * n + r
  BY <1>1, Z3
<1> QED BY <1>1, <1>2, ModIs

\* The head reaches every place.
LEMMA PlaceReached ==
  ASSUME NEW h \in Nat, NEW n \in Nat \ {0}, NEW p \in 0 .. n - 1
  PROVE  \E i \in 0 .. n - 1 : (h + i) % n = p
<1> DEFINE q == h \div n
           r == h % n
<1>1. q \in Nat /\ r \in 0 .. n - 1 /\ h = q * n + r
  BY ModOf
<1> HIDE DEF q, r
<1>2. CASE r <= p
  <2>1. p - r \in 0 .. n - 1 /\ h + (p - r) = q * n + p
    <3>1. q * n \in Int
      BY <1>1, Z3
    <3> QED BY <1>1, <1>2, <3>1
  <2> QED BY <1>1, <2>1, ModIs
<1>3. CASE p < r
  <2>1. p + n - r \in 0 .. n - 1 /\ h + (p + n - r) = (q + 1) * n + p
    <3>1. q * n \in Int /\ (q + 1) * n = q * n + n
      BY <1>1, Z3
    <3> QED BY <1>1, <1>3, <3>1
  <2>2. q + 1 \in Nat
    BY <1>1
  <2> QED BY <2>1, <2>2, ModIs
<1> QED BY <1>1, <1>2, <1>3

\* Twice the picks that may have passed over somebody when n connections are
\* left: a round less one of the n, and of every size there was before.
Budget(n) == NConns * (NConns - 1) - (n - 1) * (n - 2)

LEMMA BudgetFacts ==
  ASSUME NEW n \in 1 .. NConns
  PROVE  /\ Budget(n) \in Int /\ 2 * (n - 1) <= Budget(n)
         /\ Budget(n) <= NConns * (NConns - 1)
         /\ Budget(n) + 2 * (n - 2) = Budget(n - 1)
<1>1. NConns \in Nat /\ n \in Int /\ 1 <= n /\ n <= NConns
  BY NConnsPositive
<1>2. NConns * (NConns - 1) \in Int /\ (n - 1) * (n - 2) \in Int
  BY <1>1, Z3
<1>3. 0 <= (n - 1) * (n - 2)
  <2>1. CASE n = 1
    BY <2>1
  <2>2. CASE n >= 2
    BY <1>1, <2>2, Z3
  <2> QED BY <1>1, <2>1, <2>2
<1>4. n * (n - 1) <= NConns * (NConns - 1)
  <2>1. n * (n - 1) <= NConns * (n - 1)
    BY <1>1, Z3
  <2>2. NConns * (n - 1) <= NConns * (NConns - 1)
    BY <1>1, Z3
  <2>3. n * (n - 1) \in Int /\ NConns * (n - 1) \in Int
    BY <1>1, Z3
  <2> QED BY <1>2, <2>1, <2>2, <2>3
<1>5. n * (n - 1) = (n - 1) * (n - 2) + 2 * (n - 1)
  BY <1>1, Z3
<1>6. (n - 1) * (n - 2) = (n - 1 - 1) * (n - 1 - 2) + 2 * (n - 2)
  BY <1>1, Z3
<1>7. n * (n - 1) \in Int /\ (n - 1 - 1) * (n - 1 - 2) \in Int
  BY <1>1, Z3
<1> QED BY <1>1, <1>2, <1>3, <1>4, <1>5, <1>6, <1>7 DEF Budget

\* Who is i places from the head has i picks to wait at most.
SkipInv ==
  /\ BoundedSkip
  /\ sproc = "accepting" =>
       recvClientHead = 0 /\ \A c \in Conns : skipped[c] = 0
  /\ sproc \in {"accepting", "running"} =>
       \A i \in 0 .. fdCnt - 1 :
         2 * (skipped[Candidate(i)] + i) <= Budget(fdCnt)

LEMMA CandidateTypes ==
  ASSUME TypeInv, fdCnt > 0
  PROVE  /\ \A i \in 0 .. fdCnt - 1 : Candidate(i) \in Conns
         /\ \A p \in 1 .. fdCnt : \E i \in 0 .. fdCnt - 1 : Candidate(i) = fdBuf[p]
<1>1. /\ fdCnt \in Nat \ {0} /\ fdCnt \in 1 .. NConns /\ NConns \in Nat
      /\ recvClientHead \in Nat /\ fdBuf \in [1 .. NConns -> Conns]
  BY NConnsPositive DEF TypeInv, FdOK
<1>2. ASSUME NEW i \in 0 .. fdCnt - 1
      PROVE  Candidate(i) \in Conns
  <2> DEFINE k == (recvClientHead + i) % fdCnt
  <2>1. recvClientHead + i \in Nat
    BY <1>1
  <2>2. k \in 0 .. fdCnt - 1
    BY <1>1, <2>1, ModOf
  <2> HIDE DEF k
  <2>3. k + 1 \in 1 .. NConns
    BY <1>1, <2>2
  <2>4. Candidate(i) = fdBuf[k + 1]
    BY DEF Candidate, k
  <2> QED BY <1>1, <2>3, <2>4
<1>3. ASSUME NEW p \in 1 .. fdCnt
      PROVE  \E i \in 0 .. fdCnt - 1 : Candidate(i) = fdBuf[p]
  <2>1. p - 1 \in 0 .. fdCnt - 1
    BY <1>1
  <2>2. PICK i \in 0 .. fdCnt - 1 : (recvClientHead + i) % fdCnt = p - 1
    BY <1>1, <2>1, PlaceReached
  <2>3. Candidate(i) = fdBuf[(p - 1) + 1]
    BY <2>2 DEF Candidate
  <2>4. (p - 1) + 1 = p
    BY <1>1
  <2> QED BY <2>3, <2>4
<1> QED BY <1>2, <1>3

LEMMA SkipInvOther ==
  ASSUME SkipInv, UNCHANGED <<fdBuf, fdCnt, recvClientHead, skipped>>,
         sproc' \in {sproc, "exit0", "exit-1", "aborted", "sigfpe"}
  PROVE  SkipInv'
<1>1. \A i : Candidate(i)' = Candidate(i)
  BY DEF Candidate
<1>2. Budget(fdCnt)' = Budget(fdCnt) /\ NConns' = NConns
  BY DEF Budget, NConns
<1> QED BY <1>1, <1>2 DEF SkipInv, BoundedSkip

\* Everybody who was passed over is one place nearer; who is at the head is
\* taken, or was not reported.
LEMMA SkipInvPick ==
  ASSUME TypeInv, SkipInv, NEW w \in Workers, Pick(w), fdCnt > 0,
         Eligible(w) # {}
  PROVE  SkipInv'
<1> DEFINE n == fdCnt
           h == recvClientHead
<1>1. /\ n \in Nat \ {0} /\ n \in 1 .. NConns /\ h \in Nat
      /\ skipped \in [Conns -> Nat]
      /\ UNCHANGED <<fdBuf, fdCnt>> /\ sproc = "running"
      /\ recvClientHead' = (h + 1) % n
  BY DEF TypeInv, FdOK, EnvOK, Pick, At, NextHead
<1>2. PICK k \in Eligible(w) :
        /\ \A j \in Eligible(w) : k <= j
        /\ skipped' = [d \in Conns |->
             IF d = Candidate(k) \/ d \notin readSet[w] \cap Connected
             THEN 0 ELSE skipped[d] + 1]
        /\ UNCHANGED sproc
  BY <1>1 DEF Pick
<1>3. /\ Budget(n) \in Int /\ 2 * (n - 1) <= Budget(n)
      /\ Budget(n) <= NConns * (NConns - 1)
  BY <1>1, BudgetFacts
<1>4. \A d \in Conns : skipped'[d] = 0 \/ skipped'[d] = skipped[d] + 1
  BY <1>2
<1>5. ASSUME NEW i \in 0 .. n - 1
      PROVE  2 * (skipped'[Candidate(i)'] + i) <= Budget(n)
  <2>1. Candidate(i)' = fdBuf[((((h + 1) % n) + i) % n) + 1]
    BY <1>1 DEF Candidate
  <2>2. CASE i < n - 1
    <3>1. i + 1 \in 0 .. n - 1 /\ i \in Nat
      BY <1>1, <2>2
    <3>2. Candidate(i)' = Candidate(i + 1)
      <4>1. (((h + 1) % n) + i) % n = (h + (i + 1)) % n
        BY <1>1, <3>1, HeadMoves
      <4> QED BY <2>1, <4>1 DEF Candidate
    <3>3. Candidate(i + 1) \in Conns
      BY <1>1, <3>1, CandidateTypes
    <3>4. 2 * (skipped[Candidate(i + 1)] + (i + 1)) <= Budget(n)
      BY <1>1, <3>1 DEF SkipInv
    <3>5. /\ skipped[Candidate(i + 1)] \in Nat
          /\ \/ skipped'[Candidate(i + 1)] = 0
             \/ skipped'[Candidate(i + 1)] = skipped[Candidate(i + 1)] + 1
      BY <1>1, <1>4, <3>3
    <3> HIDE DEF n
    <3> QED BY <1>1, <1>3, <3>1, <3>2, <3>4, <3>5
  <2>3. CASE i = n - 1
    <3>1. Candidate(i)' = Candidate(0)
      <4>1. (((h + 1) % n) + i) % n = (h + (i + 1)) % n
        BY <1>1, HeadMoves
      <4>2. h + (i + 1) = h + n
        BY <1>1, <2>3
      <4>3. (h + n) % n = (h + 0) % n
        BY <1>1, FullRound
      <4> QED BY <2>1, <4>1, <4>2, <4>3 DEF Candidate
    <3>2. Candidate(0) \in Conns /\ 0 \in 0 .. n - 1
      BY <1>1, CandidateTypes
    <3>3. Candidate(0) \in readSet[w] => Candidate(k) = Candidate(0)
      <4> SUFFICES ASSUME Candidate(0) \in readSet[w]
                   PROVE  k = 0
        OBVIOUS
      <4>1. 0 \in Eligible(w)
        BY <3>2 DEF Eligible
      <4>2. k <= 0 /\ k \in 0 .. n - 1
        BY <1>2, <4>1 DEF Eligible
      <4> QED BY <1>1, <4>2
    <3>4. skipped'[Candidate(0)] = 0
      BY <1>2, <3>2, <3>3
    <3> HIDE DEF n
    <3> QED BY <1>1, <1>3, <2>3, <3>1, <3>4
  <2> QED BY <1>1, <2>2, <2>3
<1>6. BoundedSkip'
  <2> SUFFICES ASSUME NEW d \in Conns
               PROVE  2 * skipped'[d] <= NConns * (NConns - 1)
    BY DEF BoundedSkip, NConns
  <2>1. CASE skipped'[d] = 0
    <3>1. 0 <= NConns * (NConns - 1) /\ NConns * (NConns - 1) \in Int
      BY NConnsPositive, Z3
    <3> QED BY <2>1, <3>1
  <2>2. CASE skipped'[d] # 0
    <3>1. d \in Connected
      BY <1>2, <2>2
    <3>2. PICK p \in 1 .. n : d = fdBuf[p]
      BY <3>1 DEF Connected
    <3>3. \A i : Candidate(i)' = fdBuf'[((recvClientHead' + i) % fdCnt') + 1]
      BY DEF Candidate
    <3>4. (h + 1) % n \in Nat
      <4>1. h + 1 \in Nat
        BY <1>1
      <4> QED BY <1>1, <4>1, ModOf
    <3>5. PICK i \in 0 .. n - 1 : (((h + 1) % n) + i) % n = p - 1
      <4>1. p - 1 \in 0 .. n - 1
        BY <1>1, <3>2
      <4> QED BY <1>1, <3>4, <4>1, PlaceReached
    <3>6. Candidate(i)' = d
      <4>1. (p - 1) + 1 = p
        BY <1>1, <3>2
      <4> QED BY <1>1, <3>2, <3>3, <3>5, <4>1
    <3>7. 2 * (skipped'[d] + i) <= Budget(n)
      BY <1>5, <3>6
    <3>8. skipped'[d] \in Nat /\ NConns * (NConns - 1) \in Int
      <4>1. NConns * (NConns - 1) \in Int
        BY NConnsPositive, Z3
      <4> QED BY <1>1, <1>2, <4>1
    <3> HIDE DEF n
    <3> QED BY <1>1, <1>3, <3>7, <3>8
  <2> QED BY <2>1, <2>2
<1>7. Budget(fdCnt)' = Budget(n)
  BY <1>1 DEF Budget, NConns
<1> QED BY <1>1, <1>2, <1>5, <1>6, <1>7 DEF SkipInv

\* Whoever is left may have lost the place it had: the budget is raised by the
\* round that the others can now take before it.
LEMMA SkipInvClientLeft ==
  ASSUME TypeInv, SkipInv, NEW w \in Workers, fdCnt > 0, ClientLeft(w),
         sproc = "running", UNCHANGED <<recvClientHead, skipped>>
  PROVE  SkipInv'
<1> DEFINE n == fdCnt
           m == fdCnt - 1
<1>1. /\ n \in Nat \ {0} /\ n \in 1 .. NConns /\ NConns \in Nat /\ m \in Nat
      /\ recvClientHead \in Nat /\ skipped \in [Conns -> Nat]
      /\ fdCnt' = m /\ UNCHANGED sproc
      /\ \A p \in 1 .. m : fdBuf'[p] \in {fdBuf[p], fdBuf[p + 1]}
  BY NConnsPositive DEF TypeInv, FdOK, EnvOK, ClientLeft, RemoveClient
<1>2. \A i \in 0 .. n - 1 : 2 * (skipped[Candidate(i)] + i) <= Budget(n)
  BY DEF SkipInv
<1>3. /\ Budget(n) \in Int
      /\ Budget(n) + 2 * (n - 2) = Budget(m)
  BY <1>1, BudgetFacts
<1>4. ASSUME NEW p \in 1 .. n
      PROVE  fdBuf[p] \in Conns /\ 2 * skipped[fdBuf[p]] <= Budget(n)
  <2>1. PICK i \in 0 .. n - 1 : Candidate(i) = fdBuf[p]
    BY <1>1, CandidateTypes
  <2>2. Candidate(i) \in Conns /\ skipped[Candidate(i)] \in Nat
    BY <1>1, CandidateTypes
  <2>3. 2 * (skipped[Candidate(i)] + i) <= Budget(n)
    BY <1>2
  <2> HIDE DEF n
  <2> QED BY <1>3, <2>1, <2>2, <2>3
<1>5. ASSUME NEW i \in 0 .. m - 1
      PROVE  2 * (skipped'[Candidate(i)'] + i) <= Budget(m)
  <2> DEFINE p == ((recvClientHead + i) % m) + 1
  <2>1. p \in 1 .. m /\ Candidate(i)' = fdBuf'[p]
    <3>1. m \in Nat \ {0} /\ recvClientHead + i \in Nat
      BY <1>1
    <3>2. (recvClientHead + i) % m \in 0 .. m - 1
      BY <3>1, ModOf
    <3>3. Candidate(i)' = fdBuf'[p]
      BY <1>1 DEF Candidate
    <3> QED BY <3>1, <3>2, <3>3
  <2> HIDE DEF p
  <2>2. p \in 1 .. n /\ p + 1 \in 1 .. n
    BY <1>1, <2>1
  <2>3. /\ Candidate(i)' \in Conns
        /\ 2 * skipped[Candidate(i)'] <= Budget(n)
    BY <1>1, <1>4, <2>1, <2>2
  <2>4. skipped[Candidate(i)'] \in Nat /\ skipped' = skipped
    BY <1>1, <2>3
  <2>5. i <= n - 2 /\ i \in Nat
    BY <1>1
  <2> HIDE DEF n, m
  <2> QED BY <1>1, <1>3, <2>3, <2>4, <2>5
<1>6. BoundedSkip'
  BY DEF SkipInv, BoundedSkip, NConns
<1>7. Budget(fdCnt)' = Budget(m)
  BY <1>1 DEF Budget, NConns
<1> QED BY <1>1, <1>5, <1>6, <1>7 DEF SkipInv

LEMMA SkipInvAccept ==
  ASSUME TypeInv, SkipInv, NEW c \in Conns, Accept(c)
  PROVE  SkipInv'
<1> DEFINE n == fdCnt + 1
<1>1. /\ n \in 1 .. NConns /\ NConns \in Nat /\ fdCnt' = n
      /\ fdBuf' \in [1 .. NConns -> Conns]
      /\ recvClientHead = 0 /\ \A d \in Conns : skipped[d] = 0
      /\ UNCHANGED <<recvClientHead, skipped>>
  BY NConnsPositive DEF Accept, TypeInv, FdOK, PlaceInv, SkipInv
<1>2. Budget(n) \in Int /\ 2 * (n - 1) <= Budget(n)
  BY <1>1, BudgetFacts
<1>3. ASSUME NEW i \in 0 .. n - 1
      PROVE  2 * (skipped'[Candidate(i)'] + i) <= Budget(n)
  <2> DEFINE p == ((0 + i) % n) + 1
  <2>1. Candidate(i)' = fdBuf'[p]
    BY <1>1 DEF Candidate
  <2>2. p \in 1 .. NConns
    <3>1. 0 + i \in Nat /\ n \in Nat \ {0}
      BY <1>1
    <3>2. (0 + i) % n \in 0 .. n - 1
      BY <3>1, ModOf
    <3> QED BY <1>1, <3>2
  <2> HIDE DEF p
  <2>3. skipped'[Candidate(i)'] = 0
    BY <1>1, <2>1, <2>2
  <2> HIDE DEF n
  <2> QED BY <1>1, <1>2, <2>3
<1>4. BoundedSkip'
  BY <1>1 DEF SkipInv, BoundedSkip, NConns
<1>5. Budget(fdCnt)' = Budget(n)
  BY <1>1 DEF Budget, NConns
<1> QED BY <1>1, <1>3, <1>4, <1>5 DEF SkipInv

LEMMA SkipInvStep ==
  ASSUME TypeInv, SkipInv, [Next]_vars
  PROVE  SkipInv'
<1>1. ASSUME NEW w \in Workers,
             \/ EnterLoop(w) \/ FdSet(w) \/ Select(w) \/ LockRecv(w)
             \/ CheckClients(w) \/ SendResp(w) \/ LoadFinished(w)
             \/ StoreFinished(w) \/ Broadcast(w)
      PROVE  SkipInv'
  <2>1. /\ UNCHANGED <<fdBuf, fdCnt, recvClientHead, skipped>>
        /\ sproc' \in {sproc, "exit0", "aborted"}
    BY <1>1 DEF EnterLoop, FdSet, Select, LockRecv, CheckClients, SendResp,
                LoadFinished, StoreFinished, Broadcast, SendFrame, fdVars
  <2> QED BY <2>1, SkipInvOther
<1>2. ASSUME NEW w \in Workers, Pick(w)
      PROVE  SkipInv'
  <2>1. CASE fdCnt = 0
    <3>1. /\ UNCHANGED <<fdBuf, fdCnt, recvClientHead, skipped>>
          /\ sproc' = "sigfpe"
      BY <1>2, <2>1 DEF Pick
    <3> QED BY <3>1, SkipInvOther
  <2>2. CASE fdCnt # 0 /\ Eligible(w) = {}
    <3>1. UNCHANGED skipped /\ sproc' = "aborted"
      BY <1>2, <2>2 DEF Pick
    <3> QED BY <3>1 DEF SkipInv, BoundedSkip, NConns
  <2>3. CASE fdCnt # 0 /\ Eligible(w) # {}
    <3>1. fdCnt > 0
      BY <2>3 DEF TypeInv, FdOK
    <3> QED BY <1>2, <2>3, <3>1, SkipInvPick
  <2> QED BY <2>1, <2>2, <2>3
<1>3. ASSUME NEW w \in Workers, RecvHdr(w) \/ RecvBody(w)
      PROVE  SkipInv'
  <2>1. /\ UNCHANGED <<recvClientHead, skipped>> /\ sproc = "running"
        /\ fdCnt > 0
    BY <1>3 DEF RecvHdr, RecvBody, At, TypeInv, PlaceInv
  <2>2. CASE ClientLeft(w)
    BY <2>1, <2>2, SkipInvClientLeft
  <2>3. CASE ~ClientLeft(w)
    <3>1. /\ UNCHANGED <<fdBuf, fdCnt>>
          /\ sproc' \in {sproc, "exit-1"}
      BY <1>3, <2>3 DEF RecvHdr, RecvBody, CutShort, Received
    <3> QED BY <2>1, <3>1, SkipInvOther
  <2> QED BY <2>2, <2>3
<1>4. ASSUME NEW c \in Conns, Accept(c)
      PROVE  SkipInv'
  BY <1>4, SkipInvAccept
<1>5. ASSUME \/ \E c \in Conns : SendHeader(c) \/ SendBody(c) \/ Close(c)
             \/ UNCHANGED vars
      PROVE  SkipInv'
  <2>1. UNCHANGED <<fdBuf, fdCnt, recvClientHead, skipped, sproc>>
    BY <1>5 DEF SendHeader, SendBody, Close, vars, serverVars, fdVars
  <2> QED BY <2>1, SkipInvOther
<1> QED BY <1>1, <1>2, <1>3, <1>4, <1>5, Steps

\* However many clients there are and whenever they leave, a client whose
\* requests select() reports is passed over by a bounded number of picks.
THEOREM NobodyIsPassedOver == Spec => []BoundedSkip
<1>1. Init => SkipInv
  <2> SUFFICES ASSUME Init
               PROVE  SkipInv
    OBVIOUS
  <2>1. 0 <= NConns * (NConns - 1)
    BY NConnsPositive, Z3
  <2> QED BY <2>1 DEF Init, SkipInv, BoundedSkip
<1>2. SkipInv => BoundedSkip
  BY DEF SkipInv
<1> QED BY <1>1, <1>2, SkipInvStep, TypeInvariant, PTL DEF Spec
=============================================================================
