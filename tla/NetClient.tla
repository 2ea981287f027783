----------------------------- MODULE NetClient -----------------------------
(***************************************************************************)
(* The networked client process (tbench_client_networked.cpp and           *)
(* NetworkedClient in client.cpp): every thread number has a sender, which *)
(* loops over startReq and send, and a receiver, which loops over recv and *)
(* handles the frame; main() turns into a monitor that reports the         *)
(* latencies of every interval.  Client is what the threads call; what is  *)
(* at the other end of the connections is any server that keeps            *)
(* ServerContract, and that may die.                                       *)
(*                                                                         *)
(* rpc[t], where receiver t is:                                            *)
(*   recv            about to call recv, or blocked in it                  *)
(*   fini            has a RESPONSE, about to call finiReq                 *)
(*   push, tids      in finiReq, with the lock: startTimes has the entry,  *)
(*                   sjrnTimes not yet / sjrnTimes has it, tids not yet    *)
(*   startroi, publish, count   the three critical sections of ROI_BEGIN   *)
(*   finish          has a FINISH, waiting for lock_live_clients           *)
(*   stats, info     holds it, in the loop of dumpStats / dumpReqInfo      *)
(*   end             returned                                              *)
(* A receiver takes recvLock, waits for a frame and reads it whole: one    *)
(* step, since whoever holds the lock is the only one to read the socket.  *)
(* finiReq is one step unless it measures: then it pushes onto eight       *)
(* vectors, which the dumps read without its lock.                         *)
(***************************************************************************)
EXTENDS Client, Sequences

CONSTANTS WarmupReqs, MaxReqs,   \* the server's
          MaxAnnounced,   \* bound on the announcements per connection and type
          ServerMayDie,
          NoThread        \* nobody holds lock_live_clients

ASSUME NetClientAssumption ==
  /\ WarmupReqs \in Nat /\ MaxReqs \in Nat
  /\ MaxAnnounced \in [{"ROI_BEGIN", "FINISH"} -> Nat]
  /\ ServerMayDie \in BOOLEAN /\ NoThread \notin Threads

VARIABLES
  asked, toClient,   \* the server and the sockets, see ServerContract
  gone,              \* the server process ended
  sendDone,          \* the threads whose sender returned
  nread,             \* [Clients -> Nat], frames taken off the connection
  recvLeaked,        \* [Clients -> BOOLEAN], recvLock is held for ever
  rpc,
  resp,              \* [Threads -> frame], the receiver's local variable
  size,              \* [Threads -> SUBSET Nat], the entries [0, reqs) of the
                     \* vectors when its dump loop began
  torn,              \* the threads whose loop counted an entry that some
                     \* vector had still to get
  liveClients, liveLock,
  lats, reqInfo,     \* the files: the sequence of the dumps in each
  tmpSjrnTimes,      \* [Clients -> SUBSET Nat], as samples
  numStartRoi,
  mon,               \* main(): where it is, the next client, and its count
  shown              \* history: [Clients -> SUBSET Nat], what mon counted

netVars == <<asked, toClient, gone, sendDone>>
recvVars == <<nread, recvLeaked, rpc, resp>>
dumpVars == <<size, torn, liveClients, liveLock, lats, reqInfo>>
monVars == <<tmpSjrnTimes, numStartRoi, mon, shown>>
netClientVars == <<vars, netVars, recvVars, dumpVars, monVars>>

NoFrame == [type |-> "none", id |-> <<>>]

\* The server's side of the connections.
Server == INSTANCE ServerContract WITH
            Conns <- Clients,
            Request <- UNION {IdsBelow(c, MaxStarted) : c \in Clients}

NetClientInit ==
  /\ ClientInit /\ Server!Init /\ gone = FALSE /\ sendDone = {}
  /\ nread = [c \in Clients |-> 0] /\ recvLeaked = [c \in Clients |-> FALSE]
  /\ rpc = [t \in Threads |-> "recv"] /\ resp = [t \in Threads |-> NoFrame]
  /\ size = [t \in Threads |-> {}] /\ torn = {}
  /\ liveClients = NClients /\ liveLock = NoThread
  /\ lats = <<>> /\ reqInfo = <<>>
  /\ tmpSjrnTimes = [c \in Clients |-> {}] /\ numStartRoi = 0
  /\ mon = [at |-> "wait", next |-> 0, requests |-> 0]
  /\ shown = [c \in Clients |-> {}]

\* `lock', which finiReq holds between its pushes.
LockFree(c) == \A t \in ThreadsOf(c) : rpc[t] \notin {"push", "tids"}

-----------------------------------------------------------------------------
(* send *)

\* startReq returns and the request is written to the socket.
Send(t) ==
  /\ Return(t)
  /\ ~gone /\ Server!Ask(ClientOf[t], req[t])
  /\ UNCHANGED <<gone, sendDone, recvVars, dumpVars, monVars>>

\* When the server has ended, the socket takes a request all the same, or send
\* fails and the sender returns, or SIGPIPE kills the process.
SendToNobody(t) ==
  /\ gone /\ Return(t)
  /\ UNCHANGED <<netVars, recvVars, dumpVars, monVars>>

SendFail(t) ==
  /\ gone /\ proc = "running" /\ Goto(t, "ret", "idle")
  /\ req' = [req EXCEPT ![t] = 0]
  /\ sendDone' = sendDone \cup {t}
  /\ UNCHANGED <<clientVars, owed, proc, asked, toClient, gone, recvVars,
                 dumpVars, monVars>>

SigPipe(t) ==
  /\ gone /\ proc = "running" /\ pc[t] = "ret"
  /\ proc' = "sigpipe"
  /\ UNCHANGED <<clientVars, threadVars, netVars, recvVars, dumpVars,
                 monVars>>

\* The rest of startReq, and the loop around it.
Generate(t) ==
  /\ t \notin sendDone /\ pc[t] # "ret" /\ StartReqStep(t)
  /\ pc[t] \in {"init", "gen"} => LockFree(ClientOf[t])
  /\ UNCHANGED <<netVars, recvVars, dumpVars, monVars>>

SendStep(t) ==
  \/ Generate(t) \/ Send(t) \/ SendToNobody(t) \/ SendFail(t) \/ SigPipe(t)

-----------------------------------------------------------------------------
(* recv *)

RecvAt(t, p) == proc = "running" /\ rpc[t] = p
RecvGoto(t, p) == rpc' = [rpc EXCEPT ![t] = p]

\* What the receiver does with a frame.
Handler(type) ==
  CASE type = "RESPONSE"  -> "fini"
    [] type = "ROI_BEGIN" -> "startroi"
    [] type = "FINISH"    -> "finish"

\* What nread becomes when frame n is read, and what two receivers that do not
\* lock may make of it.
CountedUnlocked(n) == {n - 1, n}
Counted(n) == {n}

Recv(t) ==
  LET c == ClientOf[t]
      n == nread[c] + 1
  IN /\ RecvAt(t, "recv") /\ ~recvLeaked[c]
     /\ n <= Len(toClient[c])
     /\ \E m \in Counted(n) : nread' = [nread EXCEPT ![c] = m]
     /\ resp' = [resp EXCEPT ![t] = toClient[c][n]]
     /\ RecvGoto(t, Handler(toClient[c][n].type))
     /\ UNCHANGED <<vars, netVars, recvLeaked, dumpVars, monVars>>

\* The end of the stream: recv returns without unlocking.
RecvFail(t) ==
  LET c == ClientOf[t]
  IN /\ RecvAt(t, "recv") /\ ~recvLeaked[c]
     /\ gone /\ nread[c] = Len(toClient[c])
     /\ recvLeaked' = [recvLeaked EXCEPT ![c] = TRUE]
     /\ RecvGoto(t, "end")
     /\ UNCHANGED <<vars, netVars, nread, resp, dumpVars, monVars>>

\* The thread of t's client that sent the request, any if none did.
Sender(t, id) ==
  LET ts == {u \in ThreadsOf(ClientOf[t]) : id \in owed[u]}
  IN IF ts = {} THEN t ELSE CHOOSE u \in ts : TRUE

\* The effect of finiReq but for the vectors ahead of sjrnTimes, or behind it.
Fini(t) ==
  LET c == ClientOf[t]
  IN /\ FiniReq(Sender(t, resp[t].id), resp[t].id)
     /\ tmpSjrnTimes' = [tmpSjrnTimes EXCEPT ![c] =
                           @ \cup (samples'[c] \ samples[c])]
     /\ UNCHANGED <<netVars, nread, recvLeaked, dumpVars, numStartRoi, mon,
                    shown>>

\* Whether finiReq gets as far as its pushes.
Pushes(t) ==
  LET c == ClientOf[t]
  IN resp[t].id \in inFlightReqs[c] /\ Measured(c)

\* finiReq up to the push onto startTimes.
PushStart(t) ==
  /\ RecvAt(t, "fini") /\ LockFree(ClientOf[t]) /\ Pushes(t)
  /\ RecvGoto(t, "push")
  /\ UNCHANGED <<vars, netVars, nread, recvLeaked, resp, dumpVars, monVars>>

\* Its pushes up to tmpSjrnTimes.
PushSjrn(t) ==
  /\ RecvAt(t, "push") /\ Fini(t)
  /\ RecvGoto(t, "tids")
  /\ UNCHANGED resp

\* The last push, and the unlock.
PushTids(t) ==
  /\ RecvAt(t, "tids")
  /\ resp' = [resp EXCEPT ![t] = NoFrame]
  /\ RecvGoto(t, "recv")
  /\ UNCHANGED <<vars, netVars, nread, recvLeaked, dumpVars, monVars>>

\* finiReq of a response that is not measured, or fails the assertion.
SkipResponse(t) ==
  /\ RecvAt(t, "fini") /\ LockFree(ClientOf[t]) /\ ~Pushes(t)
  /\ Fini(t)
  /\ resp' = [resp EXCEPT ![t] = NoFrame]
  /\ RecvGoto(t, "recv")

HandleRoiBegin(t) ==
  LET c == ClientOf[t]
  IN /\ RecvAt(t, "startroi") /\ LockFree(c)
     /\ StartRoi(c)
     /\ IF proc' = "aborted"
        THEN UNCHANGED <<recvVars, monVars>>
        ELSE /\ RecvGoto(t, "publish")
             /\ tmpSjrnTimes' = [tmpSjrnTimes EXCEPT ![c] = {}]
             /\ UNCHANGED <<nread, recvLeaked, resp, numStartRoi, mon, shown>>
     /\ UNCHANGED <<netVars, dumpVars>>

Publish(t) ==
  /\ RecvAt(t, "publish")
  /\ PublishReady(ClientOf[t])
  /\ RecvGoto(t, "count")
  /\ UNCHANGED <<netVars, nread, recvLeaked, resp, dumpVars, monVars>>

CountRoi(t) ==
  /\ RecvAt(t, "count")
  /\ numStartRoi' = numStartRoi + 1
  /\ resp' = [resp EXCEPT ![t] = NoFrame]
  /\ RecvGoto(t, "recv")
  /\ UNCHANGED <<vars, netVars, nread, recvLeaked, dumpVars, tmpSjrnTimes,
                 mon, shown>>

-----------------------------------------------------------------------------
(* FINISH: the dumps, and the end of the process.                          *)

\* flag: a file is truncated by the first client that dumps, appended to by the
\* others; mutated, it is the last one that truncates.
OpenedByLast(file, live) == IF live = 1 THEN <<>> ELSE file
Opened(file, live) == IF live = NClients THEN <<>> ELSE file

\* The entries of three of the eight vectors, as finiReq fills them: startTimes,
\* then sjrnTimes, then tids.  Mutated: the first is filled last, and what is
\* dumped is the vector of the monitor, which empties it.
InFini(c, place) == {resp[t].id : t \in {u \in ThreadsOf(c) : rpc[u] = place}}
Tids(c) == samples[c] \ InFini(c, "tids")
StartTimesLast(c) == Tids(c)
StartTimes(c) == samples[c] \cup InFini(c, "push")
SjrnTimesTmp(c) == tmpSjrnTimes[c]
SjrnTimes(c) == samples[c]

\* lock_live_clients, when it can be taken and what is left at its unlock; and
\* mutations that do not wait for it, or never unlock it.
CanLockAlways == TRUE
CanLock == liveLock = NoThread
LeftLocked(t) == t
LeftUnlocked(t) == NoThread

\* Lines 88-94 up to the loop of dumpStats, which reads the vector's size, and
\* then its elements, without the lock of finiReq.
BeginStats(t) ==
  LET c == ClientOf[t]
  IN /\ RecvAt(t, "finish") /\ CanLock
     /\ liveLock' = t
     /\ liveClients' = liveClients - 1
     /\ lats' = Opened(lats, liveClients)
     /\ size' = [size EXCEPT ![t] = SjrnTimes(c)]
     /\ RecvGoto(t, "stats")
     /\ UNCHANGED <<vars, netVars, nread, recvLeaked, resp, torn, reqInfo,
                    monVars>>

\* What one loop writes: the entries it counted.  When another receiver appends
\* to a vector meanwhile, the vector may move under the loop, which then reads
\* freed memory, that still has the entries, or not, or is not mapped any more;
\* the same beyond the end of a vector that has fewer entries than were counted.
Written(t, intact) ==
  [client |-> ClientOf[t], ids |-> size[t], intact |-> intact]
Counts(t) == IF rpc[t] = "stats" THEN SjrnTimes(ClientOf[t])
             ELSE StartTimes(ClientOf[t])
MayFault(t) == t \in torn \/ Counts(t) # size[t]

\* The first dump ends, and the second, of all the vectors but sjrnTimes, counts
\* its entries.
EndStats(t) ==
  LET c == ClientOf[t]
  IN /\ RecvAt(t, "stats")
     /\ \E intact \in BOOLEAN :
          /\ intact \/ MayFault(t)
          /\ lats' = Append(lats, Written(t, intact))
     /\ reqInfo' = Opened(reqInfo, liveClients + 1)
     /\ size' = [size EXCEPT ![t] = StartTimes(c)]
     /\ torn' = IF StartTimes(c) = Tids(c) THEN torn ELSE torn \cup {t}
     /\ RecvGoto(t, "info")
     /\ UNCHANGED <<vars, netVars, nread, recvLeaked, resp, liveClients,
                    liveLock, monVars>>

\* The second dump, then exit_group or the unlock.
EndInfo(t) ==
  /\ RecvAt(t, "info")
  /\ \E intact \in BOOLEAN :
       /\ IF intact THEN size[t] \subseteq Tids(ClientOf[t]) ELSE MayFault(t)
       /\ reqInfo' = Append(reqInfo, Written(t, intact))
  /\ size' = [size EXCEPT ![t] = {}] /\ torn' = torn \ {t}
  /\ IF liveClients = 0
     THEN proc' = "exited" /\ UNCHANGED <<liveLock, rpc, resp>>
     ELSE /\ liveLock' = LeftUnlocked(t)
          /\ resp' = [resp EXCEPT ![t] = NoFrame]
          /\ RecvGoto(t, "recv")
          /\ UNCHANGED proc
  /\ UNCHANGED <<clientVars, threadVars, netVars, nread, recvLeaked,
                 liveClients, lats, monVars>>

DumpFault(t) ==
  /\ RecvAt(t, "stats") \/ RecvAt(t, "info")
  /\ MayFault(t)
  /\ proc' = "sigsegv"
  /\ UNCHANGED <<clientVars, threadVars, netVars, recvVars, dumpVars, monVars>>

RecvStep(t) ==
  \/ Recv(t) \/ RecvFail(t) \/ HandleRoiBegin(t)
  \/ PushStart(t) \/ PushSjrn(t) \/ PushTids(t) \/ SkipResponse(t)
  \/ Publish(t) \/ CountRoi(t)
  \/ BeginStats(t) \/ EndStats(t) \/ EndInfo(t) \/ DumpFault(t)

-----------------------------------------------------------------------------
(* main(), after it created the threads: the monitor.                      *)

\* while (num_start_roi < nclients): read without its lock.
MonStart ==
  /\ proc = "running" /\ mon.at = "wait" /\ numStartRoi >= NClients
  /\ mon' = [mon EXCEPT !.at = "sweep"]
  /\ UNCHANGED <<vars, netVars, recvVars, dumpVars, tmpSjrnTimes, numStartRoi,
                 shown>>

\* The index of the 95th percentile among n latencies.
P95Index(n) == (n * 95) \div 100

\* What is left of a client's latencies, and a version that keeps them.
KeptAfterSweep(tmp) == tmp
AfterSweep(tmp) == {}

\* One client's latencies of the interval, under its lock; after the last
\* client, a line is printed, or the monitor stops for good.
MonSweep ==
  LET c == mon.next
      n == mon.requests + Cardinality(tmpSjrnTimes[c])
  IN /\ proc = "running" /\ mon.at = "sweep" /\ LockFree(c)
     /\ shown' = [shown EXCEPT ![c] = @ \cup tmpSjrnTimes[c]]
     /\ tmpSjrnTimes' = [tmpSjrnTimes EXCEPT ![c] = AfterSweep(@)]
     /\ mon' = IF c + 1 < NClients
               THEN [mon EXCEPT !.next = c + 1, !.requests = n]
               ELSE [at |-> IF P95Index(n) > 0 THEN "sweep" ELSE "stopped",
                     next |-> 0, requests |-> 0]
     /\ UNCHANGED <<vars, netVars, recvVars, dumpVars, numStartRoi>>

-----------------------------------------------------------------------------
(* The server, and the process.                                            *)

Announced(c, type) ==
  Cardinality({i \in DOMAIN toClient[c] : toClient[c][i].type = type})

Answer(c) ==
  /\ ~gone /\ \E id \in asked[c] : Server!Answer(c, id)
  /\ UNCHANGED <<vars, gone, sendDone, recvVars, dumpVars, monVars>>

Announce(c, type) ==
  /\ ~gone /\ Announced(c, type) < MaxAnnounced[type]
  /\ Server!Announce(c, type)
  /\ UNCHANGED <<vars, gone, sendDone, recvVars, dumpVars, monVars>>

Die ==
  /\ ServerMayDie /\ ~gone /\ gone' = TRUE
  /\ UNCHANGED <<vars, asked, toClient, sendDone, recvVars, dumpVars, monVars>>

AnnounceFirst(c, type) == Announced(c, type) = 0 /\ Announce(c, type)

NetClientNext ==
  \/ \E t \in Threads : SendStep(t) \/ RecvStep(t)
  \/ MonStart \/ MonSweep
  \/ \E c \in Clients :
       Answer(c) \/ \E type \in {"ROI_BEGIN", "FINISH"} : Announce(c, type)
  \/ Die

\* Threads run; a server that lives answers, and announces each period's end
\* on every connection.  (It may lose count and never announce it: then, of
\* course, no run ends.)
NetClientFairness ==
  /\ \A t \in Threads :
       WF_netClientVars(SendStep(t)) /\ WF_netClientVars(RecvStep(t))
  /\ WF_netClientVars(MonStart \/ MonSweep)
  /\ \A c \in Clients :
       /\ WF_netClientVars(Answer(c))
       /\ \A type \in {"ROI_BEGIN", "FINISH"} :
            WF_netClientVars(AnnounceFirst(c, type))

NetClientSpec ==
  NetClientInit /\ [][NetClientNext]_netClientVars /\ NetClientFairness

-----------------------------------------------------------------------------
(* Properties *)

Frames == [type : {"RESPONSE"}, id : Nat]
          \cup [type : {"ROI_BEGIN", "FINISH", "none"}, id : {<<>>}]
Dumped == [client : Clients, ids : SUBSET Nat, intact : BOOLEAN]

\* Types, and lock_live_clients is held exactly in the two dumps.
NetClientTypeOK ==
  /\ asked \in [Clients -> SUBSET Nat] /\ toClient \in [Clients -> Seq(Frames)]
  /\ gone \in BOOLEAN /\ sendDone \subseteq Threads
  /\ nread \in [Clients -> Nat]
  /\ recvLeaked \in [Clients -> BOOLEAN]
  /\ rpc \in [Threads -> {"recv", "fini", "push", "tids", "startroi",
                          "publish", "count", "finish", "stats", "info", "end"}]
  /\ resp \in [Threads -> Frames] /\ size \in [Threads -> SUBSET Nat]
  /\ torn \subseteq Threads
  /\ liveClients \in Int /\ lats \in Seq(Dumped) /\ reqInfo \in Seq(Dumped)
  /\ liveLock \in Threads \cup {NoThread}
  /\ tmpSjrnTimes \in [Clients -> SUBSET Nat] /\ numStartRoi \in Nat
  /\ mon \in [at : {"wait", "sweep", "stopped"}, next : Clients, requests : Nat]
  /\ shown \in [Clients -> SUBSET Nat]
  /\ proc \in {"running", "aborted", "exited", "sigpipe", "sigsegv"}
  /\ proc = "running" =>
       \A t \in Threads : rpc[t] \in {"stats", "info"} <=> liveLock = t

Place(c, id) == CHOOSE i \in DOMAIN toClient[c] :
                  toClient[c][i].type = "RESPONSE" /\ toClient[c][i].id = id
First(c, type) == CHOOSE i \in DOMAIN toClient[c] :
                    /\ toClient[c][i].type = type
                    /\ \A j \in 1 .. i - 1 : toClient[c][j].type # type

\* A connection that announced each period's end once.
Regular(c) == Announced(c, "ROI_BEGIN") = 1 /\ Announced(c, "FINISH") = 1

\* What a run measures (README, lines 56-61): a client with one receiver dumps
\* exactly the responses it read between ROI_BEGIN and FINISH, although its
\* vectors are read without the lock, and the monitor empties one of them.
DumpMeasuresRoi ==
  \A k \in DOMAIN lats :
    LET c == lats[k].client
        roi == {i \in DOMAIN toClient[c] :
                  /\ toClient[c][i].type = "RESPONSE"
                  /\ First(c, "ROI_BEGIN") < i /\ i < First(c, "FINISH")}
    IN Cardinality(ThreadsOf(c)) = 1 /\ Regular(c) =>
         lats[k] = [client |-> c, ids |-> {toClient[c][i].id : i \in roi},
                    intact |-> TRUE]

\* The responses on connection c that were read, and those a receiver holds.
ReadOn(c) == {toClient[c][i].id : i \in {j \in 1 .. nread[c] :
                                          toClient[c][j].type = "RESPONSE"}}
HeldBy(t) == IF rpc[t] \in {"fini", "push"} THEN {resp[t].id} ELSE {}

\* Receivers that share a connection, and handle frames in another order than
\* they read them, lose no response and handle none twice; and a dump has at
\* most one response for each other receiver that was read in the warm-up.
SharedConnection ==
  /\ \A c \in Clients :
       LET held == UNION {HeldBy(t) : t \in ThreadsOf(c)}
       IN /\ ReadOn(c) \cap inFlightReqs[c] = held
          /\ \A t, u \in ThreadsOf(c) : t # u => HeldBy(t) \cap HeldBy(u) = {}
  /\ \A k \in DOMAIN lats :
       LET c == lats[k].client
       IN Regular(c) =>
            Cardinality({id \in lats[k].ids :
                           Place(c, id) < First(c, "ROI_BEGIN")})
              < Cardinality(ThreadsOf(c))

\* Nothing is lost at the end (lines 86-98): the two dumps of a client with one
\* receiver hold the same responses, and neither read memory that was not its
\* own; and the process exits when every client has dumped into both files,
\* once, unless a connection was told twice that the run is over: live_clients
\* counts frames.
FilesComplete ==
  /\ Len(reqInfo) <= Len(lats)
  /\ \A k \in DOMAIN reqInfo :
       /\ lats[k].client = reqInfo[k].client
       /\ Cardinality(ThreadsOf(lats[k].client)) = 1 =>
            lats[k].intact /\ reqInfo[k] = lats[k]
  /\ proc = "exited" /\ (\A c \in Clients : Announced(c, "FINISH") <= 1) =>
       \A file \in {lats, reqInfo} :
         Len(file) = NClients /\ {file[k].client : k \in DOMAIN file} = Clients

\* What is left of that when other receivers of the client go on appending
\* (lines 163-170) while one dumps without their lock: where neither dump read
\* memory that was not its own, each latency has its request's times, if not
\* the other way round; and a file of latencies that lost no response is whole.
FilesAgree ==
  \A k \in DOMAIN reqInfo :
    /\ lats[k].client = reqInfo[k].client
    /\ lats[k].intact /\ reqInfo[k].intact =>
         lats[k].ids \subseteq reqInfo[k].ids
    /\ lats[k].ids = samples[lats[k].client] => lats[k].intact

\* The assertions of client.cpp (lines 150 and 179) against a server that keeps
\* its contract: one fails only on a connection told twice that the ROI begins,
\* or for a client that has not sent anything when the others' requests end the
\* warm-up.
AbortsOnlyByRoiBegin ==
  proc = "aborted" =>
    \E t \in Threads :
      LET c == ClientOf[t]
      IN /\ rpc[t] = "startroi"
         /\ Announced(c, "ROI_BEGIN") > 1 \/ asked[c] = {}

\* The monitor counts a latency of the ROI once, and none of the warm-up,
\* whatever receivers do between its sections.
MonitorAccounts ==
  /\ mon.at # "wait" => \A c \in Clients : status[c] = "ROI"
  /\ \A c \in Clients :
       /\ samples[c] = tmpSjrnTimes[c] \cup shown[c]
       /\ tmpSjrnTimes[c] \cap shown[c] = {}

\* What a thread can wait for: the other threads at a barrier, the ROI, (in the
\* model only) its bound on requests; a frame, another client's dump.
SenderBlocked(t) ==
  \/ pc[t] \in {"wait1", "wait2", "cvwait"}
  \/ pc[t] = "gen" /\ startedReqs[ClientOf[t]] = MaxStarted
ReceiverBlocked(t) ==
  \/ rpc[t] = "recv" /\ nread[ClientOf[t]] = Len(toClient[ClientOf[t]])
  \/ rpc[t] = "finish" /\ liveLock # NoThread
ServerIdle ==
  /\ \A c \in Clients : asked[c] = Server!Answered(c)
  /\ \A type \in {"ROI_BEGIN", "FINISH"} :
       Server!Due(type) => \A c \in Clients : Announced(c, type) > 0

\* A run goes on to its end (README, lines 56-61): senders, receivers and a
\* server that lives never all wait for each other, at the start-up barriers,
\* at the gate of the warm-up, or over the dumps.
NeverStuck ==
  ~ /\ proc = "running" /\ ~gone
    /\ \A t \in Threads : SenderBlocked(t) /\ ReceiverBlocked(t)
    /\ ServerIdle

\* And it gets there, unless the server ends first: nothing that threads, which
\* run, and a server, which answers and announces, do goes round in circles.
RunEnds == []~gone => <>(proc # "running")
=============================================================================
