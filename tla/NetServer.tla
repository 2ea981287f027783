----------------------------- MODULE NetServer -----------------------------
(***************************************************************************)
(* The networked server (NetworkedServer in server.h and                   *)
(* tbench_server_networked.cpp): worker threads that loop over             *)
(* tBenchRecvReq and tBenchSendResp on the connections accepted by the     *)
(* constructor, with clients that send requests and leave.                 *)
(*                                                                         *)
(* A critical section of sendLock is a step.  The one of recvLock is not:  *)
(* it reads the socket twice and blocks there.  Shared data read without a *)
(* lock (clientFds, finishedReqs) is read, and written, in steps of its    *)
(* own, in the order the compiled code (-O3) has: clientFds' bounds once   *)
(* per loop, finishedReqs loaded, incremented in a register that the two   *)
(* tests then use, and stored.                                             *)
(*                                                                         *)
(* wpc[w]: recv     at the head of recvReq's loop                          *)
(*         fdset    in the loop that fills readSet                         *)
(*         select   in select()                                            *)
(*         lock     waiting for recvLock                                   *)
(*         pick     holds recvLock, choosing a connection                  *)
(*         hdr, body   holds recvLock, in recvfull                         *)
(*         check    after the loop, line 227                               *)
(*         serve    the application has the request                        *)
(*         load, store   ++finishedReqs                                    *)
(*         roi, fin      in the loop that sends ROI_BEGIN / FINISH         *)
(* Local variables that go out of scope get a fixed value.                 *)
(***************************************************************************)
EXTENDS Integers, Sequences, FiniteSets

CONSTANTS Workers,      \* the server threads
          NoWorker,     \* nobody holds recvLock
          Conns,        \* the connections, one per client
          WarmupReqs, MaxReqs,
          MaxSent,      \* [Conns -> Nat], bound on the requests a client sends
          EarlyExit     \* may a client leave before it is told to?

NConns == Cardinality(Conns)

ASSUME WorkersAssumption == IsFiniteSet(Workers) /\ NoWorker \notin Workers
ASSUME ConnsAssumption == IsFiniteSet(Conns) /\ Conns # {}
ASSUME CountsAssumption ==
  WarmupReqs \in Nat /\ MaxReqs \in Nat /\ MaxSent \in [Conns -> Nat]
ASSUME EarlyExitAssumption == EarlyExit \in BOOLEAN

VARIABLES
  fdBuf, fdCnt,    \* clientFds: its buffer, with what erase leaves behind
                   \* the end, and its size
  recvClientHead, recvLock,
  readSet,         \* [Workers -> SUBSET Conns], the local fd_set
  cur, end,        \* [Workers -> Nat], the iterators of the loop w is in
  fd,              \* [Workers -> Conns \cup {NoFd}], the local variable
  reqbuf,          \* [Workers -> Request ids], the header in reqbuf[tid]
  reqInfo, activeFds,
  finishedReqs, reg,   \* the counter, and each worker's register
  wpc,
  sproc,           \* the server process, see ServerStates
  toServer,        \* [Conns -> Seq], what is in flight or unread
  toClient,        \* [Conns -> Seq], every frame written, in order
  sent, half,      \* requests client c began, and is one half sent?
  closed,          \* [Conns -> BOOLEAN], the client left
  skipped          \* history: picks in a row that passed over a ready c

fdVars == <<fdBuf, fdCnt, recvClientHead, recvLock>>
loopVars == <<readSet, cur, end, fd, reqbuf>>
infoVars == <<reqInfo, activeFds>>
countVars == <<finishedReqs, reg>>
envVars == <<sent, half, closed>>
serverVars ==
  <<fdVars, loopVars, infoVars, countVars, wpc, sproc, toClient, skipped>>
vars == <<serverVars, toServer, envVars>>

ServerStates ==
  {"accepting", "running", "exit0", "exit-1", "aborted", "sigfpe"}

Ids == Conns \X Nat
NoId == <<>>
NoFd == -1

Init ==
  /\ fdBuf = [i \in 1 .. NConns |-> CHOOSE c \in Conns : TRUE] /\ fdCnt = 0
  /\ recvClientHead = 0 /\ recvLock = NoWorker
  /\ readSet = [w \in Workers |-> {}]
  /\ cur = [w \in Workers |-> 0] /\ end = [w \in Workers |-> 0]
  /\ fd = [w \in Workers |-> NoFd]
  /\ reqbuf = [w \in Workers |-> NoId]
  /\ reqInfo = [w \in Workers |-> NoId]
  /\ activeFds = [w \in Workers |-> CHOOSE c \in Conns : TRUE]
  /\ finishedReqs = 0 /\ reg = [w \in Workers |-> 0]
  /\ wpc = [w \in Workers |-> "recv"] /\ sproc = "accepting"
  /\ toServer = [c \in Conns |-> <<>>] /\ toClient = [c \in Conns |-> <<>>]
  /\ sent = [c \in Conns |-> 0] /\ half = [c \in Conns |-> FALSE]
  /\ closed = [c \in Conns |-> FALSE]
  /\ skipped = [c \in Conns |-> 0]

-----------------------------------------------------------------------------
(* The constructor: the connections are accepted before any worker runs.   *)

Accept(c) ==
  /\ sproc = "accepting"
  /\ \A i \in 1 .. fdCnt : fdBuf[i] # c
  /\ fdBuf' = [fdBuf EXCEPT ![fdCnt + 1] = c]
  /\ fdCnt' = fdCnt + 1
  /\ sproc' = IF fdCnt' = NConns THEN "running" ELSE sproc
  /\ UNCHANGED <<recvClientHead, recvLock, loopVars, infoVars, countVars, wpc,
                 toServer, toClient, envVars, skipped>>

-----------------------------------------------------------------------------
(* recvReq *)

At(w, p) == sproc = "running" /\ wpc[w] = p
Goto(w, p) == wpc' = [wpc EXCEPT ![w] = p]

\* As EnterLoop, but only the connections from recvClientHead on are selected.
EnterLoopFromHead(w) ==
  /\ At(w, "recv")
  /\ IF fdCnt = 0
     THEN Goto(w, "check") /\ UNCHANGED <<readSet, cur, end>>
     ELSE /\ Goto(w, "fdset")
          /\ readSet' = [readSet EXCEPT ![w] = {}]
          /\ cur' = [cur EXCEPT ![w] = (recvClientHead % fdCnt) + 1]
          /\ end' = [end EXCEPT ![w] = fdCnt]
  /\ UNCHANGED <<fdVars, fd, reqbuf, infoVars, countVars, sproc, toServer,
                 toClient, envVars, skipped>>

\* while (!success && clientFds.size() > 0): the loop is entered, or left.
EnterLoop(w) ==
  /\ At(w, "recv")
  /\ IF fdCnt = 0
     THEN Goto(w, "check") /\ UNCHANGED <<readSet, cur, end>>
     ELSE /\ Goto(w, "fdset")
          /\ readSet' = [readSet EXCEPT ![w] = {}]
          /\ cur' = [cur EXCEPT ![w] = 1]
          /\ end' = [end EXCEPT ![w] = fdCnt]
  /\ UNCHANGED <<fdVars, fd, reqbuf, infoVars, countVars, sproc, toServer,
                 toClient, envVars, skipped>>

\* The loop that w is in goes on, or ends and control reaches pc `next'.
Advance(w, next) ==
  IF cur[w] = end[w]
  THEN /\ Goto(w, next)
       /\ cur' = [cur EXCEPT ![w] = 0] /\ end' = [end EXCEPT ![w] = 0]
  ELSE cur' = [cur EXCEPT ![w] = @ + 1] /\ UNCHANGED <<wpc, end>>

\* One FD_SET, of an element that erase may have moved meanwhile.
FdSet(w) ==
  /\ At(w, "fdset")
  /\ readSet' = [readSet EXCEPT ![w] = @ \cup {fdBuf[cur[w]]}]
  /\ Advance(w, "select")
  /\ UNCHANGED <<fdVars, fd, reqbuf, infoVars, countVars, sproc, toServer,
                 toClient, envVars, skipped>>

\* Data to read, or the end of the stream.
Readable(c) == toServer[c] # <<>> \/ closed[c]

Select(w) ==
  LET ready == {c \in readSet[w] : Readable(c)}
  IN /\ At(w, "select")
     /\ ready # {}
     /\ readSet' = [readSet EXCEPT ![w] = ready]
     /\ Goto(w, "lock")
     /\ UNCHANGED <<fdVars, cur, end, fd, reqbuf, infoVars, countVars, sproc,
                    toServer, toClient, envVars, skipped>>

LockRecv(w) ==
  /\ At(w, "lock")
  /\ recvLock = NoWorker
  /\ recvLock' = w
  /\ Goto(w, "pick")
  /\ UNCHANGED <<fdBuf, fdCnt, recvClientHead, loopVars, infoVars, countVars,
                 sproc, toServer, toClient, envVars, skipped>>

Connected == {fdBuf[i] : i \in 1 .. fdCnt}

\* The i-th connection to consider, from the head on.
Candidate(i) == fdBuf[((recvClientHead + i) % fdCnt) + 1]
Eligible(w) == {i \in 0 .. fdCnt - 1 : Candidate(i) \in readSet[w]}

\* The head after a pick, and one that stays where it is.
NextHeadStuck == recvClientHead % fdCnt
NextHead == (recvClientHead + 1) % fdCnt

\* Lines 191-203: the first eligible connection from the head on, and the head
\* moves by one.  An empty clientFds divides by zero, and none eligible fails
\* the assertion.
Pick(w) ==
  /\ At(w, "pick")
  /\ readSet' = [readSet EXCEPT ![w] = {}]
  /\ IF fdCnt = 0
     THEN /\ sproc' = "sigfpe"
          /\ UNCHANGED <<recvClientHead, fd, wpc, skipped>>
     ELSE /\ recvClientHead' = NextHead
          /\ IF Eligible(w) = {}
             THEN sproc' = "aborted" /\ UNCHANGED <<fd, wpc, skipped>>
             ELSE \E i \in Eligible(w) :
                    LET c == Candidate(i)
                    IN /\ \A j \in Eligible(w) : i <= j
                       /\ fd' = [fd EXCEPT ![w] = c]
                       /\ skipped' = [d \in Conns |->
                            IF d = c \/ d \notin readSet[w] \cap Connected
                            THEN 0 ELSE skipped[d] + 1]
                       /\ Goto(w, "hdr")
                       /\ UNCHANGED sproc
  /\ UNCHANGED <<fdBuf, fdCnt, recvLock, cur, end, reqbuf, infoVars,
                 countVars, toServer, toClient, envVars>>

\* removeClient: erase moves the elements behind c down by one.
RemoveClient(c) ==
  LET p == CHOOSE i \in 1 .. fdCnt :
             fdBuf[i] = c /\ \A j \in 1 .. i - 1 : fdBuf[j] # c
  IN /\ fdBuf' = [i \in 1 .. NConns |->
                    IF i >= p /\ i < fdCnt THEN fdBuf[i + 1] ELSE fdBuf[i]]
     /\ fdCnt' = fdCnt - 1

\* recvfull and checkRecv.  An end of stream before the first byte removes the
\* client and starts the loop again; one after it (a request cut short) ends
\* the process; otherwise the part that was expected is read.
ClientLeft(w) ==
  /\ toServer[fd[w]] = <<>> /\ closed[fd[w]]
  /\ RemoveClient(fd[w])
  /\ fd' = [fd EXCEPT ![w] = NoFd]
  /\ recvLock' = NoWorker
  /\ Goto(w, "recv")
  /\ UNCHANGED <<toServer, reqbuf, sproc>>

CutShort(w, part) ==
  /\ toServer[fd[w]] # <<>> /\ Head(toServer[fd[w]]).part # part
  /\ sproc' = "exit-1"
  /\ UNCHANGED <<fdBuf, fdCnt, recvLock, fd, toServer, reqbuf, wpc>>

Received(w, part) ==
  /\ toServer[fd[w]] # <<>> /\ Head(toServer[fd[w]]).part = part
  /\ toServer' = [toServer EXCEPT ![fd[w]] = Tail(@)]
  /\ UNCHANGED <<fdBuf, fdCnt, fd, sproc>>

RecvHdrUnlocks(w) ==   \* a mutation: the body is read without the lock
  /\ At(w, "hdr")
  /\ Received(w, "hdr")
  /\ reqbuf' = [reqbuf EXCEPT ![w] = Head(toServer[fd[w]]).id]
  /\ recvLock' = NoWorker
  /\ Goto(w, "body")
  /\ UNCHANGED <<recvClientHead, readSet, cur, end, infoVars, countVars,
                 toClient, envVars, skipped>>

RecvHdr(w) ==
  /\ At(w, "hdr")
  /\ \/ ClientLeft(w)
     \/ CutShort(w, "hdr")
     \/ /\ Received(w, "hdr")
        /\ reqbuf' = [reqbuf EXCEPT ![w] = Head(toServer[fd[w]]).id]
        /\ Goto(w, "body")
        /\ UNCHANGED recvLock
  /\ UNCHANGED <<recvClientHead, readSet, cur, end, infoVars, countVars,
                 toClient, envVars, skipped>>

RecvBody(w) ==
  /\ At(w, "body")
  /\ \/ ClientLeft(w)
     \/ CutShort(w, "body")
     \/ /\ Received(w, "body")
        /\ recvLock' = NoWorker
        /\ Goto(w, "check")
        /\ UNCHANGED reqbuf
  /\ UNCHANGED <<recvClientHead, readSet, cur, end, infoVars, countVars,
                 toClient, envVars, skipped>>

\* An assignment to w's entry of a per-thread table, and to one that all share.
RecordShared(table, w, x) == [v \in Workers |-> x]
Record(table, w, x) == [table EXCEPT ![w] = x]

\* Lines 227-240, clientFds.size() read without a lock.
CheckClients(w) ==
  /\ At(w, "check")
  /\ IF fdCnt = 0
     THEN sproc' = "exit0" /\ UNCHANGED <<wpc, fd, infoVars>>
     ELSE /\ reqInfo' = Record(reqInfo, w, reqbuf[w])
          /\ activeFds' = Record(activeFds, w, fd[w])
          /\ fd' = [fd EXCEPT ![w] = NoFd]
          /\ Goto(w, "serve")
          /\ UNCHANGED sproc
  /\ UNCHANGED <<fdVars, readSet, cur, end, reqbuf, countVars, toServer,
                 toClient, envVars, skipped>>

-----------------------------------------------------------------------------
(* sendResp *)

\* sendfull of a whole frame under sendLock.  The socket of a client that left
\* takes the bytes, or the assertion on the count (or SIGPIPE) ends the process.
\* What a broadcast carries besides its type is not read by anybody.
SendFrame(w, c, type) ==
  \/ /\ toClient' = [toClient EXCEPT ![c] =
                       Append(@, [type |-> type,
                                  id |-> IF type = "RESPONSE"
                                         THEN reqInfo[w] ELSE NoId])]
     /\ UNCHANGED sproc
  \/ closed[c] /\ sproc' = "aborted" /\ UNCHANGED toClient

SendResp(w) ==
  /\ At(w, "serve")
  /\ SendFrame(w, activeFds[w], "RESPONSE")
  /\ Goto(w, "load")
  /\ UNCHANGED <<fdVars, loopVars, infoVars, countVars, toServer, envVars,
                 skipped>>

LoadFinished(w) ==
  /\ At(w, "load")
  /\ reg' = [reg EXCEPT ![w] = finishedReqs]
  /\ Goto(w, "store")
  /\ UNCHANGED <<fdVars, loopVars, infoVars, finishedReqs, sproc, toServer,
                 toClient, envVars, skipped>>

\* What follows the n-th response, and what would if the count were taken to
\* begin with the ROI.
AfterCountOfRoi(n) ==
  IF n = MaxReqs THEN "fin" ELSE IF n = WarmupReqs THEN "roi" ELSE "recv"
AfterCount(n) ==
  IF n = WarmupReqs THEN "roi"
  ELSE IF n = WarmupReqs + MaxReqs THEN "fin" ELSE "recv"

\* The store, and the two tests on the register.
StoreFinished(w) ==
  LET n == reg[w] + 1
      next == AfterCount(n)
  IN /\ At(w, "store")
     /\ finishedReqs' = n
     /\ reg' = [reg EXCEPT ![w] = 0]
     /\ IF next = "recv" \/ fdCnt = 0
        THEN Goto(w, "recv") /\ UNCHANGED <<cur, end>>
        ELSE /\ Goto(w, next)
             /\ cur' = [cur EXCEPT ![w] = 1]
             /\ end' = [end EXCEPT ![w] = fdCnt]
     /\ UNCHANGED <<fdVars, readSet, fd, reqbuf, infoVars, sproc, toServer,
                    toClient, envVars, skipped>>

\* One round of the loop over clientFds, up to the end it had at its start.
Broadcast(w) ==
  /\ At(w, "roi") \/ At(w, "fin")
  /\ SendFrame(w, fdBuf[cur[w]], IF wpc[w] = "roi" THEN "ROI_BEGIN"
                                   ELSE "FINISH")
  /\ Advance(w, "recv")
  /\ UNCHANGED <<fdVars, readSet, fd, reqbuf, infoVars, countVars, toServer,
                 envVars, skipped>>

-----------------------------------------------------------------------------
(* The clients *)

\* A request is a header and a body, which may arrive one after the other.
SendHeader(c) ==
  /\ ~closed[c] /\ ~half[c] /\ sent[c] < MaxSent[c]
  /\ sent' = [sent EXCEPT ![c] = @ + 1]
  /\ half' = [half EXCEPT ![c] = TRUE]
  /\ toServer' = [toServer EXCEPT ![c] =
                    Append(@, [part |-> "hdr", id |-> <<c, sent'[c]>>])]
  /\ UNCHANGED <<serverVars, closed>>

SendBody(c) ==
  /\ ~closed[c] /\ half[c]
  /\ half' = [half EXCEPT ![c] = FALSE]
  /\ toServer' = [toServer EXCEPT ![c] =
                    Append(@, [part |-> "body", id |-> <<c, sent[c]>>])]
  /\ UNCHANGED <<serverVars, sent, closed>>

Told(c) == \E i \in DOMAIN toClient[c] : toClient[c][i].type = "FINISH"

\* The client process ends, between two frames or in the middle of one; a
\* reset may drop what the server has not read.
Close(c) ==
  /\ ~closed[c] /\ (EarlyExit \/ Told(c))
  /\ closed' = [closed EXCEPT ![c] = TRUE]
  /\ \E rest \in {toServer[c],
                  Append(toServer[c], [part |-> "cut", id |-> NoId]), <<>>} :
       toServer' = [toServer EXCEPT ![c] = rest]
  /\ UNCHANGED <<serverVars, sent, half>>

-----------------------------------------------------------------------------
WorkerStep(w) ==
  \/ EnterLoop(w) \/ FdSet(w) \/ Select(w) \/ LockRecv(w) \/ Pick(w)
  \/ RecvHdr(w) \/ RecvBody(w) \/ CheckClients(w) \/ SendResp(w)
  \/ LoadFinished(w) \/ StoreFinished(w) \/ Broadcast(w)

Next ==
  \/ \E w \in Workers : WorkerStep(w)
  \/ \E c \in Conns : Accept(c) \/ SendHeader(c) \/ SendBody(c) \/ Close(c)

\* Workers run, and a client that began a request finishes it or leaves; no
\* client is obliged to send a request.
Fairness ==
  /\ \A w \in Workers : WF_vars(WorkerStep(w))
  /\ \A c \in Conns : WF_vars(SendBody(c)) /\ WF_vars(Accept(c))

Spec == Init /\ [][Next]_vars /\ Fairness

-----------------------------------------------------------------------------
(* Properties *)

Frames == [type : {"RESPONSE", "ROI_BEGIN", "FINISH"}, id : Ids \cup {NoId}]
Units == [part : {"hdr", "body", "cut"}, id : Ids \cup {NoId}]
WorkerPC == {"recv", "fdset", "select", "lock", "pick", "hdr", "body", "check",
             "serve", "load", "store", "roi", "fin"}

\* Types, and a worker is past line 190 exactly when it holds recvLock.
TypeOK ==
  /\ fdBuf \in [1 .. NConns -> Conns] /\ fdCnt \in 0 .. NConns
  /\ recvClientHead \in Nat /\ recvLock \in Workers \cup {NoWorker}
  /\ readSet \in [Workers -> SUBSET Conns]
  /\ cur \in [Workers -> Nat] /\ end \in [Workers -> 0 .. NConns]
  /\ fd \in [Workers -> Conns \cup {NoFd}]
  /\ reqbuf \in [Workers -> Ids \cup {NoId}]
  /\ reqInfo \in [Workers -> Ids \cup {NoId}]
  /\ activeFds \in [Workers -> Conns]
  /\ finishedReqs \in Nat /\ reg \in [Workers -> Nat]
  /\ wpc \in [Workers -> WorkerPC] /\ sproc \in ServerStates
  /\ toServer \in [Conns -> Seq(Units)] /\ toClient \in [Conns -> Seq(Frames)]
  /\ sent \in [Conns -> Nat] /\ half \in [Conns -> BOOLEAN]
  /\ closed \in [Conns -> BOOLEAN] /\ skipped \in [Conns -> Nat]
  /\ \A w \in Workers : wpc[w] \in {"pick", "hdr", "body"} <=> recvLock = w

\* Every frame of one type, at its place in the stream of its connection.
FramesOf(type) ==
  UNION {{<<c, i>> : i \in {j \in DOMAIN toClient[c] :
                              toClient[c][j].type = type}} : c \in Conns}

\* The unsynchronised ++finishedReqs of line 265 may lose counts and may even
\* count down, but never ends a period early: a client is told that the ROI
\* begins after warmupReqs responses went out (on all connections together),
\* and that it is over after warmupReqs + maxReqs.
NotEarly ==
  /\ FramesOf("ROI_BEGIN") # {} =>
       Cardinality(FramesOf("RESPONSE")) >= WarmupReqs
  /\ FramesOf("FINISH") # {} =>
       Cardinality(FramesOf("RESPONSE")) >= WarmupReqs + MaxReqs

\* A response goes to the connection its request came from, once, although
\* requests and responses go through per-thread tables (reqInfo, activeFds)
\* and connections are shared by all the workers.
RespondsToRequester ==
  \A c \in Conns : \A i \in DOMAIN toClient[c] :
    toClient[c][i].type = "RESPONSE" =>
      /\ toClient[c][i].id \in {c} \X (1 .. sent[c])
      /\ \A j \in 1 .. i - 1 : toClient[c][j].type = "RESPONSE" =>
           toClient[c][j].id # toClient[c][i].id

\* No worker reads a body as a header: a stream starts with a body only while
\* the worker that read its header holds recvLock and is about to read it.
FrameAligned ==
  sproc = "running" =>
    \A c \in Conns :
      toServer[c] # <<>> /\ Head(toServer[c]).part = "body" =>
        \E w \in Workers : /\ recvLock = w /\ wpc[w] = "body" /\ fd[w] = c
                           /\ reqbuf[w] = Head(toServer[c]).id

\* What recvClientHead is for (server.h, lines 75-80): no client is favoured,
\* i.e. there is a bound on the picks in a row that pass over a client that
\* select() reported.  While nobody leaves, that is one round: fewer picks than
\* there are connections.  But the head keeps its value when erase moves the
\* connections (line 142), so each client that leaves can cost the others the
\* round they had waited for: (n-1) + (n-2) + ... + 1 picks at most.
BoundedSkip == \A c \in Conns : 2 * skipped[c] <= NConns * (NConns - 1)

\* A whole request is waiting on connection c.
Waiting(c) == Len(toServer[c]) >= 2 /\ sproc = "running"

\* A waiting request is taken off its connection unless some worker holds
\* recvLock for ever: blocked in recvfull on another connection, which a
\* select() that was out of date said was readable.
ServedUnlessBlocked ==
  []<>(recvLock = NoWorker) => \A c \in Conns : Waiting(c) ~> ~Waiting(c)

\* The requests client c has sent whole.
Asked(c) == {<<c, k>> : k \in 1 .. sent[c] - (IF half[c] THEN 1 ELSE 0)}

\* All that the clients rely on (module ServerContract): with workers that
\* share the sockets, the tables and an unsynchronised counter, what a client
\* reads is its own answers, each once and after it asked, and announcements
\* that do not come early.
Contract == INSTANCE ServerContract WITH
              Request <- UNION {{c} \X (1 .. MaxSent[c]) : c \in Conns},
              asked <- [c \in Conns |-> Asked(c)]
ImplementsContract == Contract!Spec

\* What the client asserts of the server (client.cpp, line 179): it is told
\* once that the ROI begins.  Two workers whose increments overlap both find
\* the count equal to warmupReqs, and both broadcast.
RoiBeginOnce ==
  \A c \in Conns : Cardinality({i \in DOMAIN toClient[c] :
                                 toClient[c][i].type = "ROI_BEGIN"}) <= 1

\* What recvReq asserts after it chose a connection (line 203) and announces
\* when the last client has left (line 228): the server does not crash when
\* its clients leave at the end of the run.  A worker whose select() returned
\* before another one removed the client crashes.
ServerEndsCleanly == sproc # "sigfpe"
=============================================================================
