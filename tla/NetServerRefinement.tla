------------------------- MODULE NetServerRefinement -------------------------
(***************************************************************************)
(* The networked server implements ServerContract, for every set of        *)
(* workers and of connections: a request is followed from the stream it    *)
(* arrives on, through the buffer and the tables of the worker that read   *)
(* it, to the response.                                                    *)
(***************************************************************************)
EXTENDS NetServerProofs

\* The requests that connection c has sent whole are those up to whole[c].
whole == [c \in Conns |-> sent[c] - (IF half[c] THEN 1 ELSE 0)]

\* The workers that read the header of a request and did not respond yet, the
\* connections it came from, and its id.
Holders == {w \in Workers : \/ wpc[w] \in {"body", "serve"}
                            \/ wpc[w] = "check" /\ fdCnt > 0}
origin ==
  [w \in Workers |-> IF wpc[w] = "serve" THEN activeFds[w] ELSE fd[w]]
held == [w \in Workers |-> IF wpc[w] = "serve" THEN reqInfo[w] ELSE reqbuf[w]]

\* The connection and the request that a worker with recvLock is about to read
\* the body of.
Awaited ==
  {<<fd[w], reqbuf[w]>> :
     w \in {v \in Workers : recvLock = v /\ wpc[v] = "body"}}

-----------------------------------------------------------------------------
(* The stream of a connection                                              *)

\* Requests are numbered from 1, a body is sent last.
Numbered ==
  \A c \in Conns :
    /\ half[c] => sent[c] >= 1
    /\ sent[c] <= MaxSent[c]
    /\ \A i \in DOMAIN toServer[c] :
         /\ toServer[c][i].part = "hdr" =>
              toServer[c][i].id \in {c} \X (1 .. sent[c])
         /\ toServer[c][i].part = "body" =>
              toServer[c][i].id \in {c} \X (1 .. whole[c])

\* A body follows its header, and nothing else does; what follows a request is
\* another one.  A client that leaves may cut this off at any place.
Alternates ==
  \A c \in Conns : \A i, j \in DOMAIN toServer[c] : j = i + 1 =>
    IF toServer[c][i].part = "hdr"
    THEN \/ /\ toServer[c][j].part = "body"
            /\ toServer[c][j].id = toServer[c][i].id
         \/ toServer[c][j].part = "cut"
    ELSE toServer[c][j].part # "body"

\* While the client is there, the last part in flight is the last it sent.
EndsWithLast ==
  \A c \in Conns : ~closed[c] /\ toServer[c] # <<>> =>
    LET last == toServer[c][Len(toServer[c])]
    IN /\ last.part = IF half[c] THEN "hdr" ELSE "body"
       /\ last.id = <<c, sent[c]>>

\* A body that comes next, or that is still to be sent when nothing is in
\* flight, has its reader.
BodyAwaited ==
  \A c \in Conns :
    /\ toServer[c] # <<>> /\ Head(toServer[c]).part = "body" =>
         <<c, Head(toServer[c]).id>> \in Awaited
    /\ ~closed[c] /\ half[c] /\ toServer[c] = <<>> =>
         <<c, <<c, sent[c]>>>> \in Awaited

StreamInv == Numbered /\ Alternates /\ EndsWithLast /\ BodyAwaited

-----------------------------------------------------------------------------
(* The requests                                                            *)

\* A worker has a request of the connection it will respond to; once it has
\* read the body the request was sent whole.
HeldFromOrigin ==
  \A w \in Holders :
    /\ held[w] \in {origin[w]} \X (1 .. sent[origin[w]])
    /\ wpc[w] # "body" => held[w][2] <= whole[origin[w]]

\* A request is in the hands of one worker, until it is answered.
HeldOnce ==
  \A w \in Holders :
    /\ \A v \in Holders \ {w} : held[v] # held[w]
    /\ \A c \in Conns : \A j \in DOMAIN toClient[c] :
         toClient[c][j].type = "RESPONSE" => toClient[c][j].id # held[w]

\* Requests on the way are later than those of their connection that were
\* read: a request is read once.
InOrder ==
  \A c \in Conns : \A i \in DOMAIN toServer[c] : toServer[c][i].part = "hdr" =>
    /\ \A j \in 1 .. i - 1 : toServer[c][j].part = "hdr" =>
         toServer[c][j].id[2] < toServer[c][i].id[2]
    /\ \A w \in Holders : origin[w] = c => held[w][2] < toServer[c][i].id[2]
    /\ \A j \in DOMAIN toClient[c] : toClient[c][j].type = "RESPONSE" =>
         toClient[c][j].id[2] < toServer[c][i].id[2]

RequestInv == HeldFromOrigin /\ HeldOnce /\ InOrder /\ RespondsToRequester

RouteInv == StreamInv /\ RequestInv

-----------------------------------------------------------------------------
\* A request in a worker's hands came from a connection.
LEMMA OriginIsConn ==
  ASSUME TypeInv
  PROVE  \A w \in Holders : origin[w] \in Conns
  BY DEF TypeInv, Holders, origin, PlaceInv, BufferOK, FdOK

\* A worker that holds recvLock awaits the body it is at, if any.
LEMMA AwaitedByHolder ==
  ASSUME NEW w \in Workers, recvLock = w
  PROVE  Awaited = IF wpc[w] = "body" THEN {<<fd[w], reqbuf[w]>>} ELSE {}
  BY DEF Awaited

\* What is left of a stream once its first part was read.
LEMMA TailElements ==
  ASSUME TypeInv, NEW c \in Conns, toServer[c] # <<>>,
         toServer'[c] = Tail(toServer[c])
  PROVE  /\ \A i \in DOMAIN toServer'[c] :
              /\ i \in Nat /\ i + 1 \in DOMAIN toServer[c]
              /\ toServer'[c][i] = toServer[c][i + 1]
         /\ toServer'[c] = <<>> =>
              toServer[c][Len(toServer[c])] = Head(toServer[c])
         /\ toServer'[c] # <<>> =>
              /\ 2 \in DOMAIN toServer[c] /\ Head(toServer'[c]) = toServer[c][2]
              /\ toServer'[c][Len(toServer'[c])] = toServer[c][Len(toServer[c])]
<1> DEFINE s == toServer[c]
<1>0. s \in Seq(Units) /\ s # <<>>
  BY DEF TypeInv, StreamOK
<1> HIDE DEF s
<1>1. /\ Len(s) \in Nat /\ Len(s) > 0 /\ DOMAIN s = 1 .. Len(s)
      /\ Tail(s) \in Seq(Units) /\ Len(Tail(s)) = Len(s) - 1
      /\ DOMAIN Tail(s) = 1 .. Len(s) - 1
      /\ s[1] = Head(s)
  BY <1>0
<1>2. \A i \in 1 .. Len(s) - 1 : Tail(s)[i] = s[i + 1]
  BY <1>0
<1>2a. \A i \in 1 .. Len(s) - 1 : \A j \in Int : j = i + 1 => Tail(s)[i] = s[j]
  BY <1>2
<1>3. Tail(s) = <<>> => Len(s) = 1
  <2>1. Len(<<>>) = 0
    OBVIOUS
  <2>2. Tail(s) = <<>> => Len(s) - 1 = 0
    BY <1>1, <2>1
  <2> QED BY <1>1, <2>2
<1>3a. Tail(s) # <<>> => Len(Tail(s)) > 0 /\ Head(Tail(s)) = Tail(s)[1]
  <2> DEFINE t == Tail(s)
  <2>1. t \in Seq(Units)
    BY <1>1
  <2> HIDE DEF t
  <2>2. t # <<>> => Len(t) > 0 /\ Head(t) = t[1]
    BY <2>1
  <2> QED BY <2>2 DEF t
<1>4. Tail(s) # <<>> => /\ 1 \in 1 .. Len(s) - 1 /\ Head(Tail(s)) = Tail(s)[1]
                        /\ Len(s) - 1 \in 1 .. Len(s) - 1 /\ 2 \in DOMAIN s
  BY <1>1, <1>3a
<1>5. Tail(s) # <<>> => /\ 2 \in DOMAIN s /\ Head(Tail(s)) = s[2]
                        /\ Tail(s)[Len(Tail(s))] = s[Len(s)]
  <2>1. ASSUME Tail(s) # <<>>
        PROVE  Tail(s)[1] = s[2] /\ Tail(s)[Len(s) - 1] = s[Len(s)]
    <3>1. /\ 2 \in Int /\ 2 = 1 + 1
          /\ Len(s) \in Int /\ Len(s) = (Len(s) - 1) + 1
      BY <1>1
    <3> QED BY <1>2a, <1>4, <2>1, <3>1
  <2> QED BY <1>1, <1>4, <2>1
<1>6. Tail(s) = <<>> => s[Len(s)] = Head(s)
  BY <1>1, <1>3
<1>7. \A i \in DOMAIN Tail(s) :
        i \in Nat /\ i + 1 \in DOMAIN s /\ Tail(s)[i] = s[i + 1]
  BY <1>1, <1>2
<1> QED BY <1>5, <1>6, <1>7 DEF s

\* The streams stay as they are, and so do the readers of their bodies.
LEMMA StreamInvSame ==
  ASSUME StreamInv, UNCHANGED <<toServer, sent, half, closed>>,
         Awaited \subseteq Awaited'
  PROVE  StreamInv'
<1>1. UNCHANGED whole
  BY DEF whole
<1>2. Numbered'
  BY <1>1 DEF StreamInv, Numbered
<1>3. Alternates'
  BY DEF StreamInv, Alternates
<1>4. EndsWithLast'
  BY DEF StreamInv, EndsWithLast
<1>5. BodyAwaited'
  BY DEF StreamInv, BodyAwaited
<1> QED BY <1>2, <1>3, <1>4, <1>5 DEF StreamInv

\* What is done to the stream of a connection when no header is added to it.
StreamKept(c) ==
  \/ toServer'[c] = toServer[c]
  \/ toServer[c] # <<>> /\ toServer'[c] = Tail(toServer[c])
  \/ toServer'[c] = <<>>
  \/ \E u \in Units : u.part # "hdr" /\ toServer'[c] = Append(toServer[c], u)

\* The headers in it were in it before, in the same order.
LEMMA HeadersKept ==
  ASSUME TypeInv, NEW c \in Conns, StreamKept(c)
  PROVE  /\ toServer'[c] \in Seq(Units)
         /\ \E k \in Nat : \A i \in DOMAIN toServer'[c] :
              toServer'[c][i].part = "hdr" =>
                /\ i \in Nat /\ i + k \in DOMAIN toServer[c]
                /\ toServer'[c][i] = toServer[c][i + k]
<1> DEFINE Shifted(k) ==
      \A i \in DOMAIN toServer'[c] : toServer'[c][i].part = "hdr" =>
        /\ i \in Nat /\ i + k \in DOMAIN toServer[c]
        /\ toServer'[c][i] = toServer[c][i + k]
<1>1. toServer[c] \in Seq(Units)
  BY DEF TypeInv, StreamOK
<1>2. CASE toServer'[c] = toServer[c]
  <2>1. Shifted(0)
    BY <1>1, <1>2
  <2> HIDE DEF Shifted
  <2>2. \E k \in Nat : Shifted(k)
    BY <2>1
  <2> QED BY <1>1, <1>2, <2>2 DEF Shifted
<1>3. CASE toServer[c] # <<>> /\ toServer'[c] = Tail(toServer[c])
  <2>1. Shifted(1) /\ toServer'[c] \in Seq(Units)
    BY <1>1, <1>3
  <2> HIDE DEF Shifted
  <2>2. \E k \in Nat : Shifted(k)
    BY <2>1
  <2> QED BY <2>1, <2>2 DEF Shifted
<1>4. CASE toServer'[c] = <<>>
  <2>1. Shifted(0) /\ toServer'[c] \in Seq(Units)
    BY <1>4
  <2> HIDE DEF Shifted
  <2>2. \E k \in Nat : Shifted(k)
    BY <2>1
  <2> QED BY <2>1, <2>2 DEF Shifted
<1>5. CASE \E u \in Units : u.part # "hdr" /\ toServer'[c] = Append(toServer[c], u)
  <2>1. Shifted(0) /\ toServer'[c] \in Seq(Units)
    BY <1>1, <1>5
  <2> HIDE DEF Shifted
  <2>2. \E k \in Nat : Shifted(k)
    BY <2>1
  <2> QED BY <2>1, <2>2 DEF Shifted
<1> QED BY <1>2, <1>3, <1>4, <1>5 DEF StreamKept

\* What is done to the frames of a connection when none is a response.
FramesKept(c) ==
  \/ toClient'[c] = toClient[c]
  \/ \E f \in Frames : f.type # "RESPONSE" /\ toClient'[c] = Append(toClient[c], f)

LEMMA ResponsesKept ==
  ASSUME TypeInv, NEW c \in Conns, FramesKept(c)
  PROVE  /\ toClient'[c] \in Seq(Frames)
         /\ \A i \in DOMAIN toClient'[c] : toClient'[c][i].type = "RESPONSE" =>
              /\ i \in DOMAIN toClient[c] /\ i \in Nat
              /\ toClient'[c][i] = toClient[c][i]
<1>1. toClient[c] \in Seq(Frames)
  BY DEF TypeInv, StreamOK
<1>2. CASE toClient'[c] = toClient[c]
  BY <1>1, <1>2
<1>3. CASE \E f \in Frames : f.type # "RESPONSE" /\ toClient'[c] = Append(toClient[c], f)
  <2>1. PICK f \in Frames : f.type # "RESPONSE" /\ toClient'[c] = Append(toClient[c], f)
    BY <1>3
  <2>2. \A i \in DOMAIN toClient'[c] :
          \/ toClient'[c][i] = f
          \/ i \in DOMAIN toClient[c] /\ i \in Nat /\ toClient'[c][i] = toClient[c][i]
    BY <1>1, <2>1
  <2>3. toClient'[c] \in Seq(Frames)
    BY <1>1, <2>1
  <2> QED BY <2>1, <2>2, <2>3
<1> QED BY <1>2, <1>3 DEF FramesKept

\* No worker gets a request, none is sent and none is answered: what is true
\* of the requests stays so.
LEMMA RequestsKept ==
  ASSUME TypeInv, RequestInv, UNCHANGED sent,
         \A w \in Holders' :
           /\ w \in Holders /\ origin'[w] = origin[w] /\ held'[w] = held[w]
           /\ wpc'[w] # "body" => held[w][2] <= whole'[origin[w]],
         \A c \in Conns : StreamKept(c) /\ FramesKept(c)
  PROVE  RequestInv'
<1>1. HeldFromOrigin'
  BY DEF RequestInv, HeldFromOrigin
<1>2. \A c \in Conns : \A i \in DOMAIN toClient'[c] :
        toClient'[c][i].type = "RESPONSE" =>
          i \in DOMAIN toClient[c] /\ i \in Nat /\ toClient'[c][i] = toClient[c][i]
  BY ResponsesKept
<1>3. HeldOnce'
  BY <1>2 DEF RequestInv, HeldOnce
<1>4. RespondsToRequester'
  <2> SUFFICES ASSUME NEW c \in Conns, NEW i \in DOMAIN toClient'[c],
                      toClient'[c][i].type = "RESPONSE"
               PROVE  /\ toClient'[c][i].id \in {c} \X (1 .. sent[c])
                      /\ \A j \in 1 .. i - 1 : toClient'[c][j].type = "RESPONSE" =>
                           toClient'[c][j].id # toClient'[c][i].id
    BY DEF RespondsToRequester
  <2>1. i \in DOMAIN toClient[c] /\ i \in Nat /\ toClient'[c][i] = toClient[c][i]
    BY <1>2
  <2>2. \A j \in 1 .. i - 1 : j \in DOMAIN toClient'[c]
    BY <2>1, ResponsesKept
  <2>3. \A j \in 1 .. i - 1 : toClient'[c][j].type = "RESPONSE" =>
          toClient'[c][j] = toClient[c][j]
    BY <1>2, <2>2
  <2> QED BY <2>1, <2>3 DEF RequestInv, RespondsToRequester
<1>5. InOrder'
  <2> SUFFICES ASSUME NEW c \in Conns, NEW i \in DOMAIN toServer'[c],
                      toServer'[c][i].part = "hdr"
               PROVE
      /\ \A j \in 1 .. i - 1 : toServer'[c][j].part = "hdr" =>
           toServer'[c][j].id[2] < toServer'[c][i].id[2]
      /\ \A w \in Holders' : origin'[w] = c => held'[w][2] < toServer'[c][i].id[2]
      /\ \A j \in DOMAIN toClient'[c] : toClient'[c][j].type = "RESPONSE" =>
           toClient'[c][j].id[2] < toServer'[c][i].id[2]
    BY DEF InOrder
  <2>1. PICK k \in Nat : \A j \in DOMAIN toServer'[c] :
          toServer'[c][j].part = "hdr" =>
            /\ j \in Nat /\ j + k \in DOMAIN toServer[c]
            /\ toServer'[c][j] = toServer[c][j + k]
    BY HeadersKept
  <2>2. i \in Nat /\ i + k \in DOMAIN toServer[c]
        /\ toServer'[c][i] = toServer[c][i + k]
    BY <2>1
  <2>3. /\ \A j \in 1 .. (i + k) - 1 : toServer[c][j].part = "hdr" =>
             toServer[c][j].id[2] < toServer'[c][i].id[2]
        /\ \A w \in Holders : origin[w] = c =>
             held[w][2] < toServer'[c][i].id[2]
        /\ \A j \in DOMAIN toClient[c] : toClient[c][j].type = "RESPONSE" =>
             toClient[c][j].id[2] < toServer'[c][i].id[2]
    BY <2>2 DEF RequestInv, InOrder
  <2>4. ASSUME NEW j \in 1 .. i - 1, toServer'[c][j].part = "hdr"
        PROVE  toServer'[c][j].id[2] < toServer'[c][i].id[2]
    <3>1. j \in DOMAIN toServer'[c]
      BY <2>2, HeadersKept
    <3>2. toServer'[c][j] = toServer[c][j + k] /\ j + k \in 1 .. (i + k) - 1
      BY <2>1, <2>2, <2>4, <3>1
    <3> QED BY <2>3, <2>4, <3>2
  <2>5. \A w \in Holders' : origin'[w] = c => held'[w][2] < toServer'[c][i].id[2]
    BY <2>3
  <2>6. \A j \in DOMAIN toClient'[c] : toClient'[c][j].type = "RESPONSE" =>
          toClient'[c][j].id[2] < toServer'[c][i].id[2]
    BY <1>2, <2>3
  <2> QED BY <2>4, <2>5, <2>6
<1> QED BY <1>1, <1>3, <1>4, <1>5 DEF RequestInv

-----------------------------------------------------------------------------
(* Steps that do not touch what the clients send                           *)

LEMMA RouteInvOther ==
  ASSUME TypeInv, RouteInv, UNCHANGED <<toServer, sent, half, closed>>,
         Awaited \subseteq Awaited',
         \A w \in Holders' :
           /\ w \in Holders /\ origin'[w] = origin[w] /\ held'[w] = held[w]
           /\ wpc[w] = "body" => wpc'[w] = "body",
         \A c \in Conns : FramesKept(c)
  PROVE  RouteInv'
<1>1. StreamInv'
  BY StreamInvSame DEF RouteInv
<1>2. whole' = whole
  BY DEF whole
<1>3. \A c \in Conns : StreamKept(c)
  BY DEF StreamKept
<1>4. \A w \in Holders' :
        /\ w \in Holders /\ origin'[w] = origin[w] /\ held'[w] = held[w]
        /\ wpc'[w] # "body" => held[w][2] <= whole'[origin[w]]
  BY <1>2 DEF RouteInv, RequestInv, HeldFromOrigin
<1>5. RequestInv'
  BY <1>3, <1>4, RequestsKept DEF RouteInv
<1> QED BY <1>1, <1>5 DEF RouteInv

\* A worker that goes on without a request in its hands.
LEMMA RouteInvGoto ==
  ASSUME TypeInv, RouteInv, NEW w \in Workers, NEW p,
         p \notin {"body", "serve"}, p = "check" => fdCnt = 0,
         wpc' = [wpc EXCEPT ![w] = p] \/ UNCHANGED wpc,
         wpc[w] # "body",
         UNCHANGED <<toServer, sent, half, closed, fdCnt, reqbuf, infoVars>>,
         recvLock' = recvLock \/ recvLock = NoWorker,
         fd' = fd \/ (w \notin Holders /\ \E x : fd' = [fd EXCEPT ![w] = x]),
         \A c \in Conns : FramesKept(c)
  PROVE  RouteInv'
<1>1. \A v \in Workers \ {w} : wpc'[v] = wpc[v] /\ fd'[v] = fd[v]
  BY DEF TypeInv, PcOK, BufferOK
<1>2. UNCHANGED wpc \/ wpc'[w] = p
  BY DEF TypeInv, PcOK
<1>3. Awaited \subseteq Awaited'
  BY <1>1, <1>2, WorkersAssumption DEF Awaited
<1>4. \A v \in Holders' :
        v \in Holders /\ v \in Workers /\ (v # w \/ UNCHANGED wpc)
  BY <1>1, <1>2 DEF Holders
<1>5. \A v \in Holders' : fd'[v] = fd[v] /\ wpc'[v] = wpc[v]
  BY <1>1, <1>4
<1>6. \A v \in Holders' :
        /\ v \in Holders /\ origin'[v] = origin[v] /\ held'[v] = held[v]
        /\ wpc[v] = "body" => wpc'[v] = "body"
  BY <1>4, <1>5 DEF origin, held, infoVars, Holders
<1> QED BY <1>3, <1>6, RouteInvOther

LEMMA RouteInvLoop ==
  ASSUME TypeInv, RouteInv, NEW w \in Workers,
         \/ EnterLoop(w) \/ FdSet(w) \/ Select(w) \/ LockRecv(w) \/ Pick(w)
         \/ LoadFinished(w) \/ StoreFinished(w)
  PROVE  RouteInv'
<1>1. /\ UNCHANGED <<toServer, toClient, sent, half, closed, fdCnt, reqbuf,
                     infoVars>>
      /\ recvLock' = recvLock \/ recvLock = NoWorker
      /\ wpc[w] \in {"recv", "fdset", "select", "lock", "pick", "load", "store"}
  BY DEF EnterLoop, FdSet, Select, LockRecv, Pick, LoadFinished, StoreFinished,
         fdVars, loopVars, envVars, At
<1>2. \E p : /\ p \notin {"body", "serve"} /\ (p = "check" => fdCnt = 0)
             /\ wpc' = [wpc EXCEPT ![w] = p] \/ UNCHANGED wpc
  <2>1. CASE EnterLoop(w) \/ FdSet(w) \/ Select(w) \/ LockRecv(w)
    BY <2>1 DEF EnterLoop, FdSet, Select, LockRecv, Goto, Advance
  <2>2. CASE Pick(w)
    BY <2>2 DEF Pick, Goto
  <2>3. CASE LoadFinished(w) \/ StoreFinished(w)
    BY <2>3 DEF LoadFinished, StoreFinished, Goto, AfterCount
  <2> QED BY <2>1, <2>2, <2>3
<1>3. fd' = fd \/ (w \notin Holders /\ \E x : fd' = [fd EXCEPT ![w] = x])
  <2>1. CASE Pick(w)
    <3>1. fd' = fd \/ \E x : fd' = [fd EXCEPT ![w] = x]
      BY <2>1 DEF Pick
    <3>2. w \notin Holders
      BY <2>1 DEF Pick, At, Holders
    <3> QED BY <3>1, <3>2
  <2>2. CASE ~Pick(w)
    BY <2>2 DEF EnterLoop, FdSet, Select, LockRecv, LoadFinished,
                StoreFinished, loopVars
  <2> QED BY <2>1, <2>2
<1>4. \A c \in Conns : FramesKept(c)
  BY <1>1 DEF FramesKept
<1>5. PICK p : /\ p \notin {"body", "serve"} /\ (p = "check" => fdCnt = 0)
               /\ wpc' = [wpc EXCEPT ![w] = p] \/ UNCHANGED wpc
  BY <1>2
<1> QED BY <1>1, <1>3, <1>4, <1>5, RouteInvGoto

LEMMA RouteInvBroadcast ==
  ASSUME TypeInv, RouteInv, NEW w \in Workers, Broadcast(w)
  PROVE  RouteInv'
<1> DEFINE type == IF wpc[w] = "roi" THEN "ROI_BEGIN" ELSE "FINISH"
<1>1. /\ UNCHANGED <<toServer, sent, half, closed, fdCnt, reqbuf, infoVars,
                     recvLock, fd>>
      /\ wpc[w] \in {"roi", "fin"}
      /\ SendFrame(w, fdBuf[cur[w]], type)
      /\ wpc' = [wpc EXCEPT ![w] = "recv"] \/ UNCHANGED wpc
  BY DEF Broadcast, At, Advance, Goto, fdVars, envVars
<1>2. \A c \in Conns : FramesKept(c)
  <2> DEFINE f == [type |-> type,
                   id |-> IF type = "RESPONSE" THEN reqInfo[w] ELSE NoId]
  <2>1. f \in Frames /\ f.type # "RESPONSE"
    BY DEF Frames
  <2>2. \/ UNCHANGED toClient
        \/ toClient' = [toClient EXCEPT ![fdBuf[cur[w]]] =
                          Append(toClient[fdBuf[cur[w]]], f)]
    BY <1>1 DEF SendFrame
  <2> HIDE DEF f
  <2> QED BY <2>1, <2>2 DEF FramesKept, TypeInv, StreamOK
<1> QED BY <1>1, <1>2, RouteInvGoto

LEMMA RouteInvCheckClients ==
  ASSUME TypeInv, RouteInv, NEW w \in Workers, CheckClients(w)
  PROVE  RouteInv'
<1>1. /\ UNCHANGED <<toServer, toClient, sent, half, closed, fdCnt, reqbuf,
                     recvLock>>
      /\ wpc[w] = "check"
  BY DEF CheckClients, fdVars, envVars, At
<1>2. \A c \in Conns : FramesKept(c)
  BY <1>1 DEF FramesKept
<1>3. CASE fdCnt = 0
  <2>1. UNCHANGED <<wpc, fd, infoVars>>
    BY <1>3 DEF CheckClients
  <2>2. Awaited' = Awaited /\ Holders' = Holders /\ origin' = origin
        /\ held' = held
    BY <1>1, <2>1 DEF Awaited, Holders, origin, held, infoVars
  <2> QED BY <1>1, <1>2, <2>1, <2>2, RouteInvOther
<1>4. CASE fdCnt # 0
  <2>1. /\ reqInfo' = [reqInfo EXCEPT ![w] = reqbuf[w]]
        /\ activeFds' = [activeFds EXCEPT ![w] = fd[w]]
        /\ fd' = [fd EXCEPT ![w] = NoFd]
        /\ wpc' = [wpc EXCEPT ![w] = "serve"]
    BY <1>4 DEF CheckClients, Record, Goto
  <2>2. w \in Holders
    BY <1>1, <1>4 DEF Holders, TypeInv, FdOK
  <2>3. /\ wpc'[w] = "serve" /\ reqInfo'[w] = reqbuf[w] /\ activeFds'[w] = fd[w]
        /\ \A v \in Workers \ {w} :
             /\ wpc'[v] = wpc[v] /\ fd'[v] = fd[v] /\ reqInfo'[v] = reqInfo[v]
             /\ activeFds'[v] = activeFds[v]
    BY <2>1 DEF TypeInv, PcOK, BufferOK
  <2>4. Awaited \subseteq Awaited'
    BY <1>1, <2>3 DEF Awaited
  <2>5. Holders' \subseteq Holders
    BY <1>1, <2>2, <2>3 DEF Holders
  <2>6. \A v \in Workers : origin'[v] = origin[v] /\ held'[v] = held[v]
    BY <1>1, <2>3 DEF origin, held
  <2>7. \A v \in Holders' : v \in Workers /\ (wpc[v] = "body" => wpc'[v] = "body")
    BY <1>1, <2>3 DEF Holders
  <2> QED BY <1>1, <1>2, <2>5, <2>4, <2>6, <2>7, RouteInvOther
<1> QED BY <1>3, <1>4

-----------------------------------------------------------------------------
(* recvfull                                                                *)

LEMMA RouteInvClientLeft ==
  ASSUME TypeInv, RouteInv, NEW w \in Workers, wpc[w] \in {"hdr", "body"},
         sproc = "running", ClientLeft(w),
         UNCHANGED <<sent, half, closed, toClient, infoVars>>
  PROVE  RouteInv'
<1> DEFINE c == fd[w]
<1>1. /\ c \in Conns /\ recvLock = w /\ toServer[c] = <<>> /\ closed[c]
      /\ UNCHANGED <<toServer, reqbuf>>
      /\ fd' = [fd EXCEPT ![w] = NoFd] /\ wpc' = [wpc EXCEPT ![w] = "recv"]
      /\ fdCnt' = fdCnt - 1
  BY DEF ClientLeft, RemoveClient, Goto, TypeInv, PlaceInv, PcOK
<1>2. whole' = whole
  BY DEF whole
<1>3. Awaited \subseteq {<<c, reqbuf[w]>>}
  BY <1>1, AwaitedByHolder
<1>4. BodyAwaited'
  <2> SUFFICES ASSUME NEW d \in Conns
               PROVE  /\ ~(toServer[d] # <<>> /\ Head(toServer[d]).part = "body")
                      /\ ~(~closed[d] /\ half[d] /\ toServer[d] = <<>>)
    BY <1>1 DEF BodyAwaited
  <2>1. CASE d = c
    BY <1>1, <2>1
  <2>2. CASE d # c
    BY <1>3, <2>2 DEF RouteInv, StreamInv, BodyAwaited
  <2> QED BY <2>1, <2>2
<1>5. Numbered' /\ Alternates' /\ EndsWithLast'
  BY <1>1, <1>2 DEF RouteInv, StreamInv, Numbered, Alternates, EndsWithLast
<1>6. \A v \in Holders' : /\ v \in Holders /\ v # w
                          /\ wpc'[v] = wpc[v] /\ fd'[v] = fd[v]
  BY <1>1 DEF Holders, TypeInv, FdOK, PcOK, BufferOK
<1>7. \A v \in Holders' :
        /\ v \in Holders /\ origin'[v] = origin[v] /\ held'[v] = held[v]
        /\ wpc'[v] # "body" => held[v][2] <= whole'[origin[v]]
  BY <1>1, <1>2, <1>6
     DEF origin, held, infoVars, Holders, RouteInv, RequestInv, HeldFromOrigin
<1>8. RequestInv'
  BY <1>1, <1>7, RequestsKept DEF RouteInv, StreamKept, FramesKept
<1> QED BY <1>4, <1>5, <1>8 DEF RouteInv, StreamInv

LEMMA RouteInvCutShort ==
  ASSUME TypeInv, RouteInv, NEW w \in Workers, NEW part, CutShort(w, part),
         UNCHANGED <<sent, half, closed, toClient, infoVars>>
  PROVE  RouteInv'
<1>1. UNCHANGED <<toServer, wpc, fd, fdCnt, reqbuf, recvLock>>
  BY DEF CutShort
<1>2. Awaited' = Awaited /\ Holders' = Holders /\ origin' = origin /\ held' = held
  BY <1>1 DEF Awaited, Holders, origin, held, infoVars
<1> QED BY <1>1, <1>2, RouteInvOther DEF FramesKept

\* Reading a part leaves the rest of a stream in shape.
LEMMA StreamRead ==
  ASSUME TypeInv, StreamInv, NEW c \in Conns, toServer[c] # <<>>,
         toServer' = [toServer EXCEPT ![c] = Tail(toServer[c])],
         UNCHANGED <<sent, half, closed>>
  PROVE  Numbered' /\ Alternates' /\ EndsWithLast'
<1>1. whole' = whole
  BY DEF whole
<1>2. /\ toServer[c] \in Seq(Units)
      /\ toServer'[c] = Tail(toServer[c])
      /\ \A d \in Conns \ {c} : toServer'[d] = toServer[d]
  BY DEF TypeInv, StreamOK
<1>3. \A i \in DOMAIN toServer'[c] :
        /\ i \in Nat /\ i + 1 \in DOMAIN toServer[c]
        /\ toServer'[c][i] = toServer[c][i + 1]
  BY <1>2, TailElements
<1>4. Numbered'
  BY <1>1, <1>2, <1>3 DEF StreamInv, Numbered
<1>5. Alternates'
  <2> SUFFICES ASSUME NEW d \in Conns, NEW i \in DOMAIN toServer'[d],
                      NEW j \in DOMAIN toServer'[d], j = i + 1
               PROVE
        IF toServer'[d][i].part = "hdr"
        THEN \/ /\ toServer'[d][j].part = "body"
                /\ toServer'[d][j].id = toServer'[d][i].id
             \/ toServer'[d][j].part = "cut"
        ELSE toServer'[d][j].part # "body"
    BY DEF Alternates
  <2>1. CASE d # c
    BY <1>2, <2>1 DEF StreamInv, Alternates
  <2>2. CASE d = c
    <3>1. /\ i + 1 \in DOMAIN toServer[c] /\ j + 1 \in DOMAIN toServer[c]
          /\ toServer'[c][i] = toServer[c][i + 1]
          /\ toServer'[c][j] = toServer[c][j + 1]
      BY <1>3, <2>2
    <3> QED BY <2>2, <3>1 DEF StreamInv, Alternates
  <2> QED BY <2>1, <2>2
<1>6. EndsWithLast'
  <2>1. toServer'[c] # <<>> =>
          toServer'[c][Len(toServer'[c])] = toServer[c][Len(toServer[c])]
    BY <1>2, TailElements
  <2> QED BY <1>2, <2>1 DEF StreamInv, EndsWithLast
<1> QED BY <1>4, <1>5, <1>6

LEMMA RouteInvRecvHdr ==
  ASSUME TypeInv, RouteInv, NEW w \in Workers, RecvHdr(w)
  PROVE  RouteInv'
<1> DEFINE c == fd[w]
           id == Head(toServer[c]).id
<1>1. /\ sproc = "running" /\ wpc[w] = "hdr" /\ c \in Conns /\ fdCnt > 0
      /\ recvLock = w /\ UNCHANGED <<sent, half, closed, toClient, infoVars>>
  BY DEF RecvHdr, At, TypeInv, PlaceInv, PcOK, envVars
<1>2. CASE ClientLeft(w)
  BY <1>1, <1>2, RouteInvClientLeft
<1>3. CASE CutShort(w, "hdr")
  BY <1>1, <1>3, RouteInvCutShort
<1>4. CASE /\ Received(w, "hdr")
           /\ reqbuf' = [reqbuf EXCEPT ![w] = Head(toServer[fd[w]]).id]
           /\ Goto(w, "body")
           /\ UNCHANGED recvLock
  <2>1. /\ toServer[c] # <<>> /\ Head(toServer[c]).part = "hdr"
        /\ toServer' = [toServer EXCEPT ![c] = Tail(toServer[c])]
        /\ reqbuf' = [reqbuf EXCEPT ![w] = id]
        /\ wpc' = [wpc EXCEPT ![w] = "body"]
        /\ UNCHANGED <<fdCnt, fd, recvLock>>
    BY <1>4 DEF Received, Goto
  <2>2. /\ toServer[c] \in Seq(Units) /\ toServer'[c] = Tail(toServer[c])
        /\ \A d \in Conns \ {c} : toServer'[d] = toServer[d]
        /\ 1 \in DOMAIN toServer[c] /\ toServer[c][1] = Head(toServer[c])
    BY <1>1, <2>1 DEF TypeInv, StreamOK
  <2>3. /\ wpc'[w] = "body" /\ reqbuf'[w] = id
        /\ \A v \in Workers \ {w} : wpc'[v] = wpc[v] /\ reqbuf'[v] = reqbuf[v]
    BY <2>1 DEF TypeInv, PcOK, BufferOK
  <2> HIDE DEF c
  <2>4. whole' = whole
    BY <1>1 DEF whole
  <2>5. id \in {c} \X (1 .. sent[c])
    BY <1>1, <2>1, <2>2 DEF RouteInv, StreamInv, Numbered
  <2>6. Numbered' /\ Alternates' /\ EndsWithLast'
    BY <1>1, <2>1, StreamRead DEF RouteInv
  <2>7. Awaited = {} /\ <<c, id>> \in Awaited'
    <3>1. Awaited = {}
      BY <1>1, AwaitedByHolder
    <3>2. <<c, id>> \in Awaited'
      BY <1>1, <2>1, <2>3 DEF Awaited, c
    <3> QED BY <3>1, <3>2
  <2>8. BodyAwaited'
    <3>1. ASSUME toServer'[c] # <<>>, Head(toServer'[c]).part = "body"
          PROVE  Head(toServer'[c]).id = id
      <4>1. 2 \in DOMAIN toServer[c] /\ Head(toServer'[c]) = toServer[c][2]
        BY <1>1, <2>1, <2>2, <3>1, TailElements
      <4>2. \A i, j \in DOMAIN toServer[c] :
              j = i + 1 /\ toServer[c][i].part = "hdr" /\ toServer[c][j].part = "body" =>
                toServer[c][j].id = toServer[c][i].id
        BY <1>1 DEF RouteInv, StreamInv, Alternates
      <4>3. 2 = 1 + 1
        OBVIOUS
      <4> QED BY <1>1, <2>1, <2>2, <3>1, <4>1, <4>2, <4>3
    <3>2. ASSUME ~closed[c], half[c], toServer'[c] = <<>>
          PROVE  <<c, sent[c]>> = id
      <4>1. toServer[c][Len(toServer[c])] = Head(toServer[c])
        BY <1>1, <2>1, <2>2, <3>2, TailElements
      <4> QED BY <1>1, <2>1, <3>2, <4>1 DEF RouteInv, StreamInv, EndsWithLast
    <3>3. \A d \in Conns \ {c} :
            /\ ~(toServer[d] # <<>> /\ Head(toServer[d]).part = "body")
            /\ ~(~closed[d] /\ half[d] /\ toServer[d] = <<>>)
      BY <2>7 DEF RouteInv, StreamInv, BodyAwaited
    <3> QED BY <1>1, <2>2, <2>7, <3>1, <3>2, <3>3 DEF BodyAwaited
  <2>9. /\ Holders' = Holders \cup {w} /\ w \notin Holders
        /\ origin'[w] = c /\ held'[w] = id
        /\ \A v \in Holders : /\ v \in Workers /\ v # w /\ wpc'[v] = wpc[v]
                              /\ origin'[v] = origin[v] /\ held'[v] = held[v]
    <3>1. Holders' = Holders \cup {w} /\ w \notin Holders
      BY <1>1, <2>1, <2>3 DEF Holders
    <3>2. origin'[w] = c /\ held'[w] = id
      BY <2>1, <2>3 DEF origin, held, c
    <3>3. \A v \in Holders : v \in Workers /\ v # w /\ wpc'[v] = wpc[v]
      BY <2>3, <3>1 DEF Holders
    <3>4. \A v \in Holders : origin'[v] = origin[v] /\ held'[v] = held[v]
      BY <1>1, <2>1, <2>3, <3>3 DEF origin, held, infoVars
    <3> QED BY <3>1, <3>2, <3>3, <3>4
  <2>10. HeldFromOrigin'
    BY <1>1, <2>3, <2>4, <2>5, <2>9 DEF RouteInv, RequestInv, HeldFromOrigin
  <2> HIDE DEF id
  <2>11. HeldOnce'
    <3>1. \A v \in Holders : held[v] # id
      <4> SUFFICES ASSUME NEW v \in Holders, held[v] = id
                   PROVE  FALSE
        OBVIOUS
      <4>1. held[v] \in {origin[v]} \X (1 .. sent[origin[v]])
        BY DEF RouteInv, RequestInv, HeldFromOrigin
      <4>2. origin[v] = c
        BY <2>5, <4>1
      <4>3. held[v][2] < id[2]
        BY <1>1, <2>1, <2>2, <4>2 DEF RouteInv, RequestInv, InOrder, id
      <4>4. id[2] \in Int
        BY <2>5
      <4> QED BY <4>3, <4>4
    <3>2. \A d \in Conns : \A j \in DOMAIN toClient[d] :
            toClient[d][j].type = "RESPONSE" => toClient[d][j].id # id
      <4> SUFFICES ASSUME NEW d \in Conns, NEW j \in DOMAIN toClient[d],
                          toClient[d][j].type = "RESPONSE", toClient[d][j].id = id
                   PROVE  FALSE
        OBVIOUS
      <4>1. id \in {d} \X (1 .. sent[d])
        BY DEF RouteInv, RequestInv, RespondsToRequester
      <4>2. d = c /\ id[2] \in Int
        BY <2>5, <4>1
      <4>3. toClient[d][j].id[2] < id[2]
        BY <1>1, <2>1, <2>2, <4>2 DEF RouteInv, RequestInv, InOrder, id
      <4> QED BY <4>2, <4>3
    <3> QED BY <1>1, <2>9, <3>1, <3>2 DEF RouteInv, RequestInv, HeldOnce
  <2>12. InOrder'
    <3> SUFFICES ASSUME NEW d \in Conns, NEW i \in DOMAIN toServer'[d],
                        toServer'[d][i].part = "hdr"
                 PROVE
          /\ \A j \in 1 .. i - 1 : toServer'[d][j].part = "hdr" =>
               toServer'[d][j].id[2] < toServer'[d][i].id[2]
          /\ \A v \in Holders' : origin'[v] = d => held'[v][2] < toServer'[d][i].id[2]
          /\ \A j \in DOMAIN toClient[d] : toClient[d][j].type = "RESPONSE" =>
               toClient[d][j].id[2] < toServer'[d][i].id[2]
      BY <1>1 DEF InOrder
    <3>1. CASE d # c
      BY <1>1, <2>2, <2>9, <3>1 DEF RouteInv, RequestInv, InOrder
    <3>2. CASE d = c
      <4>1. /\ i \in Nat /\ i + 1 \in DOMAIN toServer[c]
            /\ toServer'[c][i] = toServer[c][i + 1]
            /\ \A j \in 1 .. i - 1 : /\ toServer'[c][j] = toServer[c][j + 1]
                                     /\ j + 1 \in 1 .. (i + 1) - 1
            /\ 1 \in 1 .. (i + 1) - 1
        <5>1. toServer[c] \in Seq(Units) /\ toServer'[c] = Tail(toServer[c])
              /\ toServer[c] # <<>>
          BY <2>1, <2>2
        <5> QED BY <3>2, <5>1
      <4>2. /\ \A j \in 1 .. (i + 1) - 1 : toServer[c][j].part = "hdr" =>
                 toServer[c][j].id[2] < toServer'[c][i].id[2]
            /\ \A v \in Holders : origin[v] = c => held[v][2] < toServer'[c][i].id[2]
            /\ \A j \in DOMAIN toClient[c] : toClient[c][j].type = "RESPONSE" =>
                 toClient[c][j].id[2] < toServer'[c][i].id[2]
        BY <1>1, <3>2, <4>1 DEF RouteInv, RequestInv, InOrder
      <4>3. id[2] < toServer'[c][i].id[2]
        BY <2>1, <2>2, <4>1, <4>2 DEF id
      <4>4. \A j \in 1 .. i - 1 : toServer'[c][j].part = "hdr" =>
              toServer'[c][j].id[2] < toServer'[c][i].id[2]
        BY <4>1, <4>2
      <4>5. \A v \in Holders' : origin'[v] = c => held'[v][2] < toServer'[c][i].id[2]
        BY <2>9, <4>2, <4>3
      <4> QED BY <3>2, <4>2, <4>4, <4>5
    <3> QED BY <3>1, <3>2
  <2>13. RespondsToRequester'
    BY <1>1 DEF RouteInv, RequestInv, RespondsToRequester
  <2> QED BY <2>6, <2>8, <2>10, <2>11, <2>12, <2>13
          DEF RouteInv, StreamInv, RequestInv
<1> QED BY <1>2, <1>3, <1>4 DEF RecvHdr

LEMMA RouteInvRecvBody ==
  ASSUME TypeInv, RouteInv, NEW w \in Workers, RecvBody(w)
  PROVE  RouteInv'
<1> DEFINE c == fd[w]
<1>1. /\ sproc = "running" /\ wpc[w] = "body" /\ c \in Conns /\ fdCnt > 0
      /\ recvLock = w /\ UNCHANGED <<sent, half, closed, toClient, infoVars>>
  BY DEF RecvBody, At, TypeInv, PlaceInv, PcOK, envVars
<1>2. CASE ClientLeft(w)
  BY <1>1, <1>2, RouteInvClientLeft
<1>3. CASE CutShort(w, "body")
  BY <1>1, <1>3, RouteInvCutShort
<1>4. CASE /\ Received(w, "body")
           /\ recvLock' = NoWorker
           /\ Goto(w, "check")
           /\ UNCHANGED reqbuf
  <2>1. /\ toServer[c] # <<>> /\ Head(toServer[c]).part = "body"
        /\ toServer' = [toServer EXCEPT ![c] = Tail(toServer[c])]
        /\ wpc' = [wpc EXCEPT ![w] = "check"]
        /\ UNCHANGED <<fdCnt, fd, reqbuf>>
    BY <1>4 DEF Received, Goto
  <2>2. /\ toServer[c] \in Seq(Units) /\ toServer'[c] = Tail(toServer[c])
        /\ \A d \in Conns \ {c} : toServer'[d] = toServer[d]
        /\ 1 \in DOMAIN toServer[c] /\ toServer[c][1] = Head(toServer[c])
    BY <1>1, <2>1 DEF TypeInv, StreamOK
  <2>3. /\ wpc'[w] = "check"
        /\ \A v \in Workers \ {w} : wpc'[v] = wpc[v]
    BY <2>1 DEF TypeInv, PcOK
  <2>4. whole' = whole
    BY <1>1 DEF whole
  <2>5. Awaited = {<<c, reqbuf[w]>>}
    BY <1>1, AwaitedByHolder
  <2> HIDE DEF c
  <2>6. Numbered' /\ Alternates' /\ EndsWithLast'
    BY <1>1, <2>1, StreamRead DEF RouteInv
  <2>7. BodyAwaited'
    <3>1. ~(toServer'[c] # <<>> /\ Head(toServer'[c]).part = "body")
      <4> SUFFICES ASSUME toServer'[c] # <<>>
                   PROVE  Head(toServer'[c]).part # "body"
        OBVIOUS
      <4>1. 2 \in DOMAIN toServer[c] /\ Head(toServer'[c]) = toServer[c][2]
        BY <1>1, <2>1, <2>2, TailElements
      <4>2. \A i, j \in DOMAIN toServer[c] :
              j = i + 1 /\ toServer[c][i].part = "body" => toServer[c][j].part # "body"
        BY <1>1 DEF RouteInv, StreamInv, Alternates
      <4>3. 2 = 1 + 1
        OBVIOUS
      <4> QED BY <1>1, <2>1, <2>2, <4>1, <4>2, <4>3
    <3>2. ~(~closed[c] /\ half[c] /\ toServer'[c] = <<>>)
      <4> SUFFICES ASSUME ~closed[c], half[c], toServer'[c] = <<>>
                   PROVE  FALSE
        OBVIOUS
      <4>1. toServer[c][Len(toServer[c])] = Head(toServer[c])
        BY <1>1, <2>1, <2>2, TailElements
      <4> QED BY <1>1, <2>1, <4>1 DEF RouteInv, StreamInv, EndsWithLast
    <3>3. \A d \in Conns \ {c} :
            /\ ~(toServer[d] # <<>> /\ Head(toServer[d]).part = "body")
            /\ ~(~closed[d] /\ half[d] /\ toServer[d] = <<>>)
      BY <2>5 DEF RouteInv, StreamInv, BodyAwaited
    <3> QED BY <1>1, <2>2, <3>1, <3>2, <3>3 DEF BodyAwaited
  <2>8. reqbuf[w] = Head(toServer[c]).id
    BY <1>1, <2>1, <2>5 DEF RouteInv, StreamInv, BodyAwaited
  <2>9. reqbuf[w][2] <= whole[c]
    BY <1>1, <2>1, <2>2, <2>8 DEF RouteInv, StreamInv, Numbered
  <2>10. Holders' \subseteq Holders /\ w \in Holders
    BY <1>1, <2>1, <2>3 DEF Holders
  <2>11. \A v \in Workers :
           /\ origin'[v] = origin[v] /\ held'[v] = held[v]
           /\ v # w => wpc'[v] = wpc[v]
    BY <1>1, <2>1, <2>3 DEF origin, held, infoVars
  <2>12. origin[w] = c /\ held[w] = reqbuf[w]
    BY <1>1 DEF origin, held, c
  <2>13. \A v \in Holders' :
          /\ v \in Holders /\ origin'[v] = origin[v] /\ held'[v] = held[v]
          /\ wpc'[v] # "body" => held[v][2] <= whole'[origin[v]]
    BY <2>4, <2>9, <2>10, <2>11, <2>12
       DEF RouteInv, RequestInv, HeldFromOrigin, Holders
  <2>14. RequestInv'
    <3>1. \A d \in Conns : StreamKept(d) /\ FramesKept(d)
      BY <1>1, <2>1, <2>2 DEF StreamKept, FramesKept
    <3> QED BY <1>1, <2>13, <3>1, RequestsKept DEF RouteInv
  <2> QED BY <2>6, <2>7, <2>14 DEF RouteInv, StreamInv
<1> QED BY <1>2, <1>3, <1>4 DEF RecvBody

-----------------------------------------------------------------------------
(* sendResp                                                                *)

LEMMA RouteInvSendResp ==
  ASSUME TypeInv, RouteInv, NEW w \in Workers, SendResp(w)
  PROVE  RouteInv'
<1> DEFINE c == activeFds[w]
           f == [type |-> "RESPONSE", id |-> reqInfo[w]]
           n == Len(toClient[c])
<1>1. /\ wpc[w] = "serve" /\ wpc' = [wpc EXCEPT ![w] = "load"]
      /\ UNCHANGED <<toServer, sent, half, closed, fdCnt, reqbuf, infoVars,
                     recvLock, fd>>
      /\ \/ UNCHANGED toClient
         \/ toClient' = [toClient EXCEPT ![c] = Append(toClient[c], f)]
  BY DEF SendResp, At, Goto, SendFrame, fdVars, loopVars, envVars
<1>2. CASE UNCHANGED toClient
  <2>1. \A d \in Conns : FramesKept(d)
    BY <1>2 DEF FramesKept
  <2>2. /\ wpc' = [wpc EXCEPT ![w] = "load"] \/ UNCHANGED wpc
        /\ wpc[w] # "body" /\ "load" \notin {"body", "serve"}
        /\ "load" = "check" => fdCnt = 0
    BY <1>1
  <2> HIDE DEF c, f, n
  <2> QED BY <1>1, <2>1, <2>2, RouteInvGoto
<1>3. CASE toClient' = [toClient EXCEPT ![c] = Append(toClient[c], f)]
  <2>1. c \in Conns /\ toClient[c] \in Seq(Frames)
    BY DEF TypeInv, BufferOK, StreamOK
  <2>2. /\ n \in Nat /\ DOMAIN toClient[c] = 1 .. n
        /\ DOMAIN toClient'[c] = 1 .. n + 1
        /\ \A i \in 1 .. n : toClient'[c][i] = toClient[c][i]
        /\ toClient'[c][n + 1] = f
        /\ \A d \in Conns \ {c} : toClient'[d] = toClient[d]
    BY <1>3, <2>1 DEF TypeInv, StreamOK
  <2>3. /\ w \in Holders /\ origin[w] = c /\ held[w] = f.id
        /\ f.type = "RESPONSE"
    BY <1>1 DEF Holders, origin, held
  <2> HIDE DEF c, f, n
  <2>4. \A v \in Workers \ {w} : wpc'[v] = wpc[v]
    BY <1>1 DEF TypeInv, PcOK
  <2>5. wpc'[w] = "load"
    BY <1>1 DEF TypeInv, PcOK
  <2>6. Awaited \subseteq Awaited'
    BY <1>1, <2>4 DEF Awaited
  <2>7. StreamInv'
    BY <1>1, <2>6, StreamInvSame DEF RouteInv
  <2>8. \A v \in Holders' :
          /\ v \in Holders \ {w} /\ wpc'[v] = wpc[v]
          /\ origin'[v] = origin[v] /\ held'[v] = held[v]
    <3>1. \A v \in Holders' : v \in Holders \ {w} /\ v \in Workers
      BY <1>1, <2>4, <2>5 DEF Holders
    <3>2. \A v \in Workers \ {w} :
            origin'[v] = origin[v] /\ held'[v] = held[v]
      BY <1>1, <2>4 DEF origin, held, infoVars
    <3> QED BY <2>4, <3>1, <3>2
  <2>9. whole' = whole
    BY <1>1 DEF whole
  <2>10. HeldFromOrigin'
    BY <1>1, <2>8, <2>9 DEF RouteInv, RequestInv, HeldFromOrigin
  <2>11. \A d \in Conns : \A j \in DOMAIN toClient'[d] :
           \/ j \in DOMAIN toClient[d] /\ toClient'[d][j] = toClient[d][j]
           \/ d = c /\ j = n + 1 /\ toClient'[d][j] = f
    <3>1. \A j \in 1 .. n + 1 : j \in 1 .. n \/ j = n + 1
      BY <2>2
    <3> QED BY <2>2, <3>1
  <2>12. HeldOnce'
    <3>1. \A v \in Holders' : \A u \in Holders' \ {v} : held'[u] # held'[v]
      BY <2>8 DEF RouteInv, RequestInv, HeldOnce
    <3>2. ASSUME NEW v \in Holders', NEW d \in Conns,
                 NEW j \in DOMAIN toClient'[d], toClient'[d][j].type = "RESPONSE"
          PROVE  toClient'[d][j].id # held'[v]
      <4>1. CASE j \in DOMAIN toClient[d] /\ toClient'[d][j] = toClient[d][j]
        BY <2>8, <3>2, <4>1 DEF RouteInv, RequestInv, HeldOnce
      <4>2. CASE toClient'[d][j] = f
        BY <2>3, <2>8, <4>2 DEF RouteInv, RequestInv, HeldOnce
      <4> QED BY <2>11, <4>1, <4>2
    <3> QED BY <3>1, <3>2 DEF HeldOnce
  <2>13. InOrder'
    <3> SUFFICES ASSUME NEW d \in Conns, NEW i \in DOMAIN toServer[d],
                        toServer[d][i].part = "hdr"
                 PROVE
          /\ \A j \in 1 .. i - 1 : toServer[d][j].part = "hdr" =>
               toServer[d][j].id[2] < toServer[d][i].id[2]
          /\ \A v \in Holders' : origin'[v] = d => held'[v][2] < toServer[d][i].id[2]
          /\ \A j \in DOMAIN toClient'[d] : toClient'[d][j].type = "RESPONSE" =>
               toClient'[d][j].id[2] < toServer[d][i].id[2]
      BY <1>1 DEF InOrder
    <3>1. /\ \A j \in 1 .. i - 1 : toServer[d][j].part = "hdr" =>
               toServer[d][j].id[2] < toServer[d][i].id[2]
          /\ \A v \in Holders : origin[v] = d => held[v][2] < toServer[d][i].id[2]
          /\ \A j \in DOMAIN toClient[d] : toClient[d][j].type = "RESPONSE" =>
               toClient[d][j].id[2] < toServer[d][i].id[2]
      BY DEF RouteInv, RequestInv, InOrder
    <3> QED BY <2>3, <2>8, <2>11, <3>1
  <2>14. RespondsToRequester'
    <3> SUFFICES ASSUME NEW d \in Conns, NEW i \in DOMAIN toClient'[d],
                        toClient'[d][i].type = "RESPONSE"
                 PROVE  /\ toClient'[d][i].id \in {d} \X (1 .. sent[d])
                        /\ \A j \in 1 .. i - 1 : toClient'[d][j].type = "RESPONSE" =>
                             toClient'[d][j].id # toClient'[d][i].id
      BY <1>1 DEF RespondsToRequester
    <3>1. CASE d # c
      BY <2>2, <3>1 DEF RouteInv, RequestInv, RespondsToRequester
    <3>2. CASE d = c /\ i \in 1 .. n
      <4>1. \A j \in 1 .. i - 1 : j \in 1 .. n
        BY <2>2, <3>2
      <4> QED BY <2>2, <3>2, <4>1 DEF RouteInv, RequestInv, RespondsToRequester
    <3>3. CASE d = c /\ i = n + 1
      <4>1. \A j \in 1 .. i - 1 : j \in 1 .. n
        BY <2>2, <3>3
      <4>2. \A j \in 1 .. n : toClient[c][j].type = "RESPONSE" =>
              toClient[c][j].id # held[w]
        BY <2>1, <2>2, <2>3 DEF RouteInv, RequestInv, HeldOnce
      <4>3. held[w] \in {c} \X (1 .. sent[c])
        BY <2>3 DEF RouteInv, RequestInv, HeldFromOrigin
      <4> QED BY <2>2, <2>3, <3>3, <4>1, <4>2, <4>3
    <3> QED BY <2>2, <3>1, <3>2, <3>3
  <2> QED BY <2>7, <2>10, <2>12, <2>13, <2>14 DEF RouteInv, RequestInv
<1> QED BY <1>1, <1>2, <1>3

-----------------------------------------------------------------------------
(* The clients                                                             *)

\* A stream with one more part at its end.
LEMMA AppendElements ==
  ASSUME TypeInv, NEW c \in Conns, NEW u \in Units,
         toServer'[c] = Append(toServer[c], u)
  PROVE  LET n == Len(toServer[c])
         IN /\ n \in Nat /\ Len(toServer'[c]) = n + 1 /\ toServer'[c] # <<>>
            /\ DOMAIN toServer[c] = 1 .. n /\ DOMAIN toServer'[c] = 1 .. n + 1
            /\ \A i \in DOMAIN toServer'[c] : i # n + 1 =>
                 i \in DOMAIN toServer[c] /\ toServer'[c][i] = toServer[c][i]
            /\ toServer'[c][n + 1] = u
            /\ toServer[c] = <<>> => Head(toServer'[c]) = u
            /\ toServer[c] # <<>> => n \in DOMAIN toServer[c]
                                    /\ Head(toServer'[c]) = Head(toServer[c])
<1> DEFINE s == toServer[c]
           t == toServer'[c]
           n == Len(s)
<1>1. s \in Seq(Units) /\ t = Append(s, u)
  BY DEF TypeInv, StreamOK
<1> HIDE DEF s, t
<1>2. /\ n \in Nat /\ DOMAIN s = 1 .. n
      /\ t \in Seq(Units) /\ Len(t) = n + 1 /\ DOMAIN t = 1 .. n + 1
      /\ \A i \in 1 .. n : t[i] = s[i]
      /\ t[n + 1] = u
  BY <1>1
<1>3. t # <<>> /\ Head(t) = t[1]
  <2>1. Len(<<>>) = 0
    OBVIOUS
  <2>2. t # <<>>
    BY <1>2, <2>1
  <2> QED BY <1>2, <2>2
<1>4. s = <<>> => n = 0
  OBVIOUS
<1>5. s # <<>> => n \in DOMAIN s /\ Head(s) = s[1] /\ 1 \in 1 .. n
  BY <1>1
<1>6. s = <<>> => Head(t) = u
  BY <1>2, <1>3, <1>4
<1>7. s # <<>> => n \in DOMAIN s /\ Head(t) = Head(s)
  BY <1>2, <1>3, <1>5
<1>8. \A i \in DOMAIN t : i # n + 1 => i \in DOMAIN s /\ t[i] = s[i]
  BY <1>2
<1> QED BY <1>2, <1>3, <1>6, <1>7, <1>8 DEF s, t

\* Whether the body of a request was read is not for the clients to change.
LEMMA WorkersSame ==
  ASSUME UNCHANGED serverVars
  PROVE  /\ Awaited' = Awaited /\ Holders' = Holders
         /\ origin' = origin /\ held' = held
         /\ UNCHANGED <<wpc, toClient>>
  BY DEF serverVars, fdVars, loopVars, infoVars, Awaited, Holders, origin, held

LEMMA RouteInvSendHeader ==
  ASSUME TypeInv, RouteInv, NEW c \in Conns, SendHeader(c)
  PROVE  RouteInv'
<1> DEFINE n == Len(toServer[c])
           k == sent[c] + 1
           u == [part |-> "hdr", id |-> <<c, k>>]
<1>1. /\ ~closed[c] /\ ~half[c] /\ sent[c] < MaxSent[c] /\ sent[c] \in Nat
      /\ sent' = [sent EXCEPT ![c] = k] /\ half' = [half EXCEPT ![c] = TRUE]
      /\ UNCHANGED serverVars /\ UNCHANGED closed
  BY DEF SendHeader, TypeInv, EnvOK
<1>2. sent'[c] = k /\ half'[c] = TRUE /\ k \in Nat
      /\ \A d \in Conns \ {c} : sent'[d] = sent[d] /\ half'[d] = half[d]
  BY <1>1 DEF TypeInv, EnvOK
<1>3. /\ toServer'[c] = Append(toServer[c], u)
      /\ \A d \in Conns \ {c} : toServer'[d] = toServer[d]
  BY <1>2 DEF SendHeader, TypeInv, StreamOK
<1>4. u \in Units
  BY <1>1 DEF Units, Ids
<1>5. u.part = "hdr" /\ u.id = <<c, k>>
  OBVIOUS
<1> HIDE DEF u
<1>6. /\ n \in Nat /\ Len(toServer'[c]) = n + 1 /\ toServer'[c] # <<>>
      /\ DOMAIN toServer[c] = 1 .. n /\ DOMAIN toServer'[c] = 1 .. n + 1
      /\ \A i \in DOMAIN toServer'[c] : i # n + 1 =>
           i \in DOMAIN toServer[c] /\ toServer'[c][i] = toServer[c][i]
      /\ toServer'[c][n + 1] = u
      /\ toServer[c] = <<>> => Head(toServer'[c]) = u
      /\ toServer[c] # <<>> => n \in DOMAIN toServer[c]
                              /\ Head(toServer'[c]) = Head(toServer[c])
  BY <1>3, <1>4, AppendElements
<1>7. whole' = whole
  <2>1. \A d \in Conns : sent'[d] - (IF half'[d] THEN 1 ELSE 0)
                           = sent[d] - (IF half[d] THEN 1 ELSE 0)
    BY <1>1, <1>2
  <2> QED BY <2>1 DEF whole
<1> HIDE DEF n, k
<1>8. /\ Awaited' = Awaited /\ Holders' = Holders
      /\ origin' = origin /\ held' = held
      /\ UNCHANGED <<wpc, toClient>>
  BY <1>1, WorkersSame
<1>9. \A d \in Conns : sent[d] \in Nat /\ sent'[d] \in Nat /\ sent[d] <= sent'[d]
  BY <1>1, <1>2 DEF TypeInv, EnvOK, k
<1>10. Numbered'
  <2>1. \A d \in Conns \ {c} :
          /\ half'[d] => sent'[d] >= 1
          /\ sent'[d] <= MaxSent[d]
          /\ \A i \in DOMAIN toServer'[d] :
               /\ toServer'[d][i].part = "hdr" =>
                    toServer'[d][i].id \in {d} \X (1 .. sent'[d])
               /\ toServer'[d][i].part = "body" =>
                    toServer'[d][i].id \in {d} \X (1 .. whole'[d])
    BY <1>2, <1>3, <1>7 DEF RouteInv, StreamInv, Numbered
  <2>2. sent'[c] >= 1 /\ sent'[c] <= MaxSent[c]
    BY <1>1, <1>2, CountsAssumption DEF k
  <2>3. ASSUME NEW i \in DOMAIN toServer'[c]
        PROVE  /\ toServer'[c][i].part = "hdr" =>
                    toServer'[c][i].id \in {c} \X (1 .. sent'[c])
               /\ toServer'[c][i].part = "body" =>
                    toServer'[c][i].id \in {c} \X (1 .. whole'[c])
    <3>1. CASE i = n + 1
      <4>1. k \in 1 .. sent'[c]
        BY <1>2, <2>2
      <4>2. <<c, k>> \in {c} \X (1 .. sent'[c])
        BY <4>1
      <4>3. toServer'[c][i] = u
        BY <1>6, <3>1
      <4> QED BY <1>5, <4>2, <4>3
    <3>2. CASE i # n + 1
      <4>1. 1 .. sent[c] \subseteq 1 .. sent'[c]
        BY <1>9
      <4> QED BY <1>6, <1>7, <3>2, <4>1 DEF RouteInv, StreamInv, Numbered
    <3> QED BY <3>1, <3>2
  <2> QED BY <2>1, <2>2, <2>3 DEF Numbered
<1>11. Alternates'
  <2> SUFFICES ASSUME NEW d \in Conns, NEW i \in DOMAIN toServer'[d],
                      NEW j \in DOMAIN toServer'[d], j = i + 1
               PROVE
        IF toServer'[d][i].part = "hdr"
        THEN \/ /\ toServer'[d][j].part = "body"
                /\ toServer'[d][j].id = toServer'[d][i].id
             \/ toServer'[d][j].part = "cut"
        ELSE toServer'[d][j].part # "body"
    BY DEF Alternates
  <2>1. CASE d # c
    BY <1>3, <2>1 DEF RouteInv, StreamInv, Alternates
  <2>2. CASE d = c /\ j # n + 1
    <3>0. i \in 1 .. n + 1 /\ j \in 1 .. n + 1 /\ n \in Nat
      BY <1>6, <2>2
    <3>1. i # n + 1 /\ i \in DOMAIN toServer'[c]
      BY <2>2, <3>0
    <3> QED BY <1>6, <2>2, <3>1 DEF RouteInv, StreamInv, Alternates
  <2>3. CASE d = c /\ j = n + 1
    <3>0. i \in 1 .. n + 1 /\ n \in Nat
      BY <1>6, <2>3
    <3>1. i = n /\ i # n + 1
      BY <2>3, <3>0
    <3>2. toServer[c] # <<>> /\ toServer'[c][i] = toServer[c][n]
      BY <1>6, <2>3, <3>1
    <3>3. toServer[c][n].part = "body"
      BY <1>1, <3>2 DEF RouteInv, StreamInv, EndsWithLast, n
    <3> QED BY <1>5, <1>6, <2>3, <3>2, <3>3
  <2> QED BY <2>1, <2>2, <2>3
<1>12. EndsWithLast'
  <2>1. ASSUME NEW d \in Conns \ {c}, ~closed'[d], toServer'[d] # <<>>
        PROVE  LET last == toServer'[d][Len(toServer'[d])]
               IN /\ last.part = IF half'[d] THEN "hdr" ELSE "body"
                  /\ last.id = <<d, sent'[d]>>
    BY <1>1, <1>2, <1>3, <2>1 DEF RouteInv, StreamInv, EndsWithLast
  <2>2. toServer'[c][Len(toServer'[c])] = u
    BY <1>6
  <2> QED BY <1>2, <1>5, <2>1, <2>2 DEF EndsWithLast
<1>13. BodyAwaited'
  <2>1. ASSUME NEW d \in Conns \ {c}
        PROVE  /\ toServer'[d] # <<>> /\ Head(toServer'[d]).part = "body" =>
                    <<d, Head(toServer'[d]).id>> \in Awaited'
               /\ ~closed'[d] /\ half'[d] /\ toServer'[d] = <<>> =>
                    <<d, <<d, sent'[d]>>>> \in Awaited'
    <3>1. /\ toServer[d] # <<>> /\ Head(toServer[d]).part = "body" =>
               <<d, Head(toServer[d]).id>> \in Awaited
          /\ ~closed[d] /\ half[d] /\ toServer[d] = <<>> =>
               <<d, <<d, sent[d]>>>> \in Awaited
      BY DEF RouteInv, StreamInv, BodyAwaited
    <3>2. /\ toServer'[d] = toServer[d] /\ half'[d] = half[d]
          /\ sent'[d] = sent[d] /\ closed'[d] = closed[d] /\ Awaited' = Awaited
      BY <1>1, <1>2, <1>3, <1>8
    <3> QED BY <3>1, <3>2
  <2>2. toServer'[c] # <<>> /\ Head(toServer'[c]).part = "body" =>
          <<c, Head(toServer'[c]).id>> \in Awaited'
    <3>1. CASE toServer[c] = <<>>
      BY <1>5, <1>6, <3>1
    <3>2. CASE toServer[c] # <<>>
      BY <1>6, <1>8, <3>2 DEF RouteInv, StreamInv, BodyAwaited
    <3> QED BY <3>1, <3>2
  <2> QED BY <1>6, <2>1, <2>2 DEF BodyAwaited
<1>14. \A d \in Conns : 1 .. sent[d] \subseteq 1 .. sent'[d]
  BY <1>9
<1>15. HeldFromOrigin'
  <2>1. \A w \in Holders : origin[w] \in Conns
    BY OriginIsConn
  <2> QED BY <1>7, <1>8, <1>14, <2>1 DEF RouteInv, RequestInv, HeldFromOrigin
<1>16. HeldOnce'
  BY <1>8 DEF RouteInv, RequestInv, HeldOnce
<1>17. RespondsToRequester'
  BY <1>8, <1>14 DEF RouteInv, RequestInv, RespondsToRequester
<1>18. InOrder'
  <2> SUFFICES ASSUME NEW d \in Conns, NEW i \in DOMAIN toServer'[d],
                      toServer'[d][i].part = "hdr"
               PROVE
        /\ \A j \in 1 .. i - 1 : toServer'[d][j].part = "hdr" =>
             toServer'[d][j].id[2] < toServer'[d][i].id[2]
        /\ \A v \in Holders : origin[v] = d => held[v][2] < toServer'[d][i].id[2]
        /\ \A j \in DOMAIN toClient[d] : toClient[d][j].type = "RESPONSE" =>
             toClient[d][j].id[2] < toServer'[d][i].id[2]
    BY <1>8 DEF InOrder
  <2>1. CASE d # c
    BY <1>3, <2>1 DEF RouteInv, RequestInv, InOrder
  <2>2. CASE d = c /\ i # n + 1
    <3>1. /\ i \in DOMAIN toServer[c] /\ toServer'[c][i] = toServer[c][i]
          /\ \A j \in 1 .. i - 1 : toServer'[c][j] = toServer[c][j]
      <4>1. \A j \in 1 .. i - 1 : j \in DOMAIN toServer'[c] /\ j # n + 1
        <5>1. i \in 1 .. n + 1 /\ n \in Nat /\ i # n + 1
          BY <1>6, <2>2
        <5>2. \A j \in 1 .. i - 1 : j \in 1 .. n + 1 /\ j # n + 1
          BY <5>1
        <5> QED BY <1>6, <5>2
      <4> QED BY <1>6, <2>2, <4>1
    <3> QED BY <2>2, <3>1 DEF RouteInv, RequestInv, InOrder
  <2>3. CASE d = c /\ i = n + 1
    <3>1. toServer'[d][i].id[2] = k /\ k = sent[c] + 1 /\ sent[c] \in Nat
      BY <1>1, <1>5, <1>6, <2>3 DEF k
    <3>2. ASSUME NEW j \in 1 .. i - 1, toServer'[c][j].part = "hdr"
          PROVE  toServer'[c][j].id[2] < k
      <4>1. j \in DOMAIN toServer[c] /\ toServer'[c][j] = toServer[c][j]
        BY <1>6, <2>3
      <4>2. toServer[c][j].id \in {c} \X (1 .. sent[c])
        BY <3>2, <4>1 DEF RouteInv, StreamInv, Numbered
      <4> QED BY <3>1, <4>1, <4>2
    <3>3. \A v \in Holders : origin[v] = c => held[v][2] < k
      <4>1. \A v \in Holders : origin[v] = c => held[v] \in {c} \X (1 .. sent[c])
        BY DEF RouteInv, RequestInv, HeldFromOrigin
      <4> QED BY <3>1, <4>1
    <3>4. \A j \in DOMAIN toClient[c] : toClient[c][j].type = "RESPONSE" =>
            toClient[c][j].id[2] < k
      <4>1. \A j \in DOMAIN toClient[c] : toClient[c][j].type = "RESPONSE" =>
              toClient[c][j].id \in {c} \X (1 .. sent[c])
        BY DEF RouteInv, RequestInv, RespondsToRequester
      <4> QED BY <3>1, <4>1
    <3> QED BY <2>3, <3>1, <3>2, <3>3, <3>4
  <2> QED BY <2>1, <2>2, <2>3
<1> QED BY <1>10, <1>11, <1>12, <1>13, <1>15, <1>16, <1>17, <1>18
        DEF RouteInv, StreamInv, RequestInv

LEMMA RouteInvSendBody ==
  ASSUME TypeInv, RouteInv, NEW c \in Conns, SendBody(c)
  PROVE  RouteInv'
<1> DEFINE n == Len(toServer[c])
           u == [part |-> "body", id |-> <<c, sent[c]>>]
<1>1. /\ ~closed[c] /\ half[c] /\ sent[c] \in Nat
      /\ half' = [half EXCEPT ![c] = FALSE]
      /\ toServer' = [toServer EXCEPT ![c] = Append(toServer[c], u)]
      /\ UNCHANGED <<serverVars, sent, closed>>
  BY DEF SendBody, TypeInv, EnvOK
<1>2. half'[c] = FALSE /\ \A d \in Conns \ {c} : half'[d] = half[d]
  BY <1>1 DEF TypeInv, EnvOK
<1>3. /\ toServer'[c] = Append(toServer[c], u)
      /\ \A d \in Conns \ {c} : toServer'[d] = toServer[d]
  BY <1>1 DEF TypeInv, StreamOK
<1>4. u \in Units
  BY <1>1 DEF Units, Ids
<1>5. u.part = "body" /\ u.id = <<c, sent[c]>>
  OBVIOUS
<1> HIDE DEF u
<1>6. /\ n \in Nat /\ Len(toServer'[c]) = n + 1 /\ toServer'[c] # <<>>
      /\ DOMAIN toServer[c] = 1 .. n /\ DOMAIN toServer'[c] = 1 .. n + 1
      /\ \A i \in DOMAIN toServer'[c] : i # n + 1 =>
           i \in DOMAIN toServer[c] /\ toServer'[c][i] = toServer[c][i]
      /\ toServer'[c][n + 1] = u
      /\ toServer[c] = <<>> => Head(toServer'[c]) = u
      /\ toServer[c] # <<>> => n \in DOMAIN toServer[c]
                              /\ Head(toServer'[c]) = Head(toServer[c])
  BY <1>3, <1>4, AppendElements
<1> HIDE DEF n
<1>7. /\ whole'[c] = sent[c] /\ sent[c] >= 1
      /\ \A d \in Conns : /\ whole[d] \in Int /\ whole'[d] \in Int
                          /\ whole[d] <= whole'[d]
  BY <1>1, <1>2
     DEF whole, RouteInv, StreamInv, Numbered, TypeInv, EnvOK
<1>8. /\ Awaited' = Awaited /\ Holders' = Holders
      /\ origin' = origin /\ held' = held
      /\ UNCHANGED <<wpc, toClient>>
  BY <1>1, WorkersSame
<1>9. Numbered'
  <2>1. \A d \in Conns : 1 .. whole[d] \subseteq 1 .. whole'[d]
    BY <1>7
  <2>2. ASSUME NEW d \in Conns, NEW i \in DOMAIN toServer'[d]
        PROVE  /\ toServer'[d][i].part = "hdr" =>
                    toServer'[d][i].id \in {d} \X (1 .. sent[d])
               /\ toServer'[d][i].part = "body" =>
                    toServer'[d][i].id \in {d} \X (1 .. whole'[d])
    <3>1. CASE d = c /\ i = n + 1
      <4>1. sent[c] \in 1 .. whole'[c]
        BY <1>1, <1>7
      <4>2. <<c, sent[c]>> \in {c} \X (1 .. whole'[c])
        BY <4>1
      <4>3. toServer'[c][i] = u
        BY <1>6, <3>1
      <4> QED BY <1>5, <3>1, <4>2, <4>3
    <3>2. CASE ~(d = c /\ i = n + 1)
      <4>1. i \in DOMAIN toServer[d] /\ toServer'[d][i] = toServer[d][i]
        BY <1>3, <1>6, <3>2
      <4> QED BY <2>1, <4>1 DEF RouteInv, StreamInv, Numbered
    <3> QED BY <3>1, <3>2
  <2>3. \A d \in Conns : /\ half'[d] => sent[d] >= 1
                         /\ sent[d] <= MaxSent[d]
    BY <1>2 DEF RouteInv, StreamInv, Numbered
  <2> QED BY <1>1, <2>2, <2>3 DEF Numbered
<1>10. Alternates'
  <2> SUFFICES ASSUME NEW d \in Conns, NEW i \in DOMAIN toServer'[d],
                      NEW j \in DOMAIN toServer'[d], j = i + 1
               PROVE
        IF toServer'[d][i].part = "hdr"
        THEN \/ /\ toServer'[d][j].part = "body"
                /\ toServer'[d][j].id = toServer'[d][i].id
             \/ toServer'[d][j].part = "cut"
        ELSE toServer'[d][j].part # "body"
    BY DEF Alternates
  <2>1. CASE d # c
    BY <1>3, <2>1 DEF RouteInv, StreamInv, Alternates
  <2>2. CASE d = c /\ j # n + 1
    <3>0. i \in 1 .. n + 1 /\ j \in 1 .. n + 1 /\ n \in Nat
      BY <1>6, <2>2
    <3>1. i # n + 1 /\ i \in DOMAIN toServer'[c]
      BY <2>2, <3>0
    <3> QED BY <1>6, <2>2, <3>1 DEF RouteInv, StreamInv, Alternates
  <2>3. CASE d = c /\ j = n + 1
    <3>0. i \in 1 .. n + 1 /\ n \in Nat
      BY <1>6, <2>3
    <3>1. i = n /\ i # n + 1
      BY <2>3, <3>0
    <3>2. toServer[c] # <<>> /\ toServer'[c][i] = toServer[c][n]
      BY <1>6, <2>3, <3>1
    <3>3. toServer[c][n].part = "hdr" /\ toServer[c][n].id = <<c, sent[c]>>
      BY <1>1, <3>2 DEF RouteInv, StreamInv, EndsWithLast, n
    <3> QED BY <1>5, <1>6, <2>3, <3>2, <3>3
  <2> QED BY <2>1, <2>2, <2>3
<1>11. EndsWithLast'
  <2>1. ASSUME NEW d \in Conns \ {c}, ~closed'[d], toServer'[d] # <<>>
        PROVE  LET last == toServer'[d][Len(toServer'[d])]
               IN /\ last.part = IF half'[d] THEN "hdr" ELSE "body"
                  /\ last.id = <<d, sent'[d]>>
    BY <1>1, <1>2, <1>3, <2>1 DEF RouteInv, StreamInv, EndsWithLast
  <2>2. toServer'[c][Len(toServer'[c])] = u
    BY <1>6
  <2> QED BY <1>1, <1>2, <1>5, <2>1, <2>2 DEF EndsWithLast
<1>12. BodyAwaited'
  <2>1. ASSUME NEW d \in Conns \ {c}
        PROVE  /\ toServer'[d] # <<>> /\ Head(toServer'[d]).part = "body" =>
                    <<d, Head(toServer'[d]).id>> \in Awaited'
               /\ ~closed'[d] /\ half'[d] /\ toServer'[d] = <<>> =>
                    <<d, <<d, sent'[d]>>>> \in Awaited'
    <3>1. /\ toServer[d] # <<>> /\ Head(toServer[d]).part = "body" =>
               <<d, Head(toServer[d]).id>> \in Awaited
          /\ ~closed[d] /\ half[d] /\ toServer[d] = <<>> =>
               <<d, <<d, sent[d]>>>> \in Awaited
      BY DEF RouteInv, StreamInv, BodyAwaited
    <3>2. /\ toServer'[d] = toServer[d] /\ half'[d] = half[d]
          /\ sent'[d] = sent[d] /\ closed'[d] = closed[d] /\ Awaited' = Awaited
      BY <1>1, <1>2, <1>3, <1>8
    <3> QED BY <3>1, <3>2
  <2>2. toServer'[c] # <<>> /\ Head(toServer'[c]).part = "body" =>
          <<c, Head(toServer'[c]).id>> \in Awaited'
    <3>1. CASE toServer[c] = <<>>
      <4>1. <<c, <<c, sent[c]>>>> \in Awaited
        BY <1>1, <3>1 DEF RouteInv, StreamInv, BodyAwaited
      <4>2. Head(toServer'[c]) = u
        BY <1>6, <3>1
      <4> QED BY <1>5, <1>8, <4>1, <4>2
    <3>2. CASE toServer[c] # <<>>
      BY <1>6, <1>8, <3>2 DEF RouteInv, StreamInv, BodyAwaited
    <3> QED BY <3>1, <3>2
  <2>3. toServer'[c] # <<>>
    BY <1>6
  <2> QED BY <2>1, <2>2, <2>3 DEF BodyAwaited
<1>13. RequestInv'
  <2>1. \A d \in Conns : StreamKept(d) /\ FramesKept(d)
    <3>1. u.part # "hdr"
      BY <1>5
    <3> QED BY <1>3, <1>4, <1>8, <3>1 DEF StreamKept, FramesKept
  <2>2. \A w \in Holders' :
          /\ w \in Holders /\ origin'[w] = origin[w] /\ held'[w] = held[w]
          /\ wpc'[w] # "body" => held[w][2] <= whole'[origin[w]]
    <3> SUFFICES ASSUME NEW w \in Holders, wpc[w] # "body"
                 PROVE  held[w][2] <= whole'[origin[w]]
      BY <1>8
    <3>1. /\ held[w] \in {origin[w]} \X (1 .. sent[origin[w]])
          /\ held[w][2] <= whole[origin[w]] /\ origin[w] \in Conns
      BY OriginIsConn DEF RouteInv, RequestInv, HeldFromOrigin
    <3>2. held[w][2] \in Int
      BY <3>1
    <3> QED BY <1>7, <3>1, <3>2
  <2> QED BY <1>1, <2>1, <2>2, RequestsKept DEF RouteInv
<1> QED BY <1>9, <1>10, <1>11, <1>12, <1>13 DEF RouteInv, StreamInv

LEMMA RouteInvClose ==
  ASSUME TypeInv, RouteInv, NEW c \in Conns, Close(c)
  PROVE  RouteInv'
<1> DEFINE u == [part |-> "cut", id |-> NoId]
           n == Len(toServer[c])
<1>1. /\ closed' = [closed EXCEPT ![c] = TRUE]
      /\ UNCHANGED <<serverVars, sent, half>>
      /\ \E rest \in {toServer[c], Append(toServer[c], u), <<>>} :
           toServer' = [toServer EXCEPT ![c] = rest]
  BY DEF Close
<1>2. closed'[c] = TRUE /\ \A d \in Conns \ {c} : closed'[d] = closed[d]
  BY <1>1 DEF TypeInv, EnvOK
<1>3. /\ toServer'[c] \in {toServer[c], Append(toServer[c], u), <<>>}
      /\ \A d \in Conns \ {c} : toServer'[d] = toServer[d]
  BY <1>1 DEF TypeInv, StreamOK
<1>4. u \in Units /\ u.part = "cut"
  BY DEF Units
<1> HIDE DEF u
<1>5. /\ Awaited' = Awaited /\ Holders' = Holders
      /\ origin' = origin /\ held' = held
      /\ UNCHANGED <<wpc, toClient>>
  BY <1>1, WorkersSame
<1>6. whole' = whole
  BY <1>1 DEF whole
\* The parts that are left, and perhaps one more.
<1>7. \A i \in DOMAIN toServer'[c] :
        \/ i \in DOMAIN toServer[c] /\ toServer'[c][i] = toServer[c][i]
        \/ i \notin DOMAIN toServer[c] /\ toServer'[c][i] = u
  <2>1. CASE toServer'[c] = Append(toServer[c], u)
    <3>1. /\ n \in Nat /\ toServer'[c][n + 1] = u
          /\ DOMAIN toServer[c] = 1 .. n
          /\ \A i \in DOMAIN toServer'[c] : i # n + 1 =>
               i \in DOMAIN toServer[c] /\ toServer'[c][i] = toServer[c][i]
      BY <1>4, <2>1, AppendElements
    <3>2. n + 1 \notin 1 .. n
      BY <3>1
    <3> QED BY <3>1, <3>2
  <2>2. CASE toServer'[c] = <<>>
    <3>1. DOMAIN toServer'[c] = {}
      BY <2>2
    <3> QED BY <3>1
  <2> QED BY <1>3, <2>1, <2>2
<1>8. Numbered'
  <2>1. ASSUME NEW d \in Conns, NEW i \in DOMAIN toServer'[d]
        PROVE  /\ toServer'[d][i].part = "hdr" =>
                    toServer'[d][i].id \in {d} \X (1 .. sent[d])
               /\ toServer'[d][i].part = "body" =>
                    toServer'[d][i].id \in {d} \X (1 .. whole[d])
    <3>1. \/ i \in DOMAIN toServer[d] /\ toServer'[d][i] = toServer[d][i]
          \/ toServer'[d][i] = u
      BY <1>3, <1>7
    <3> QED BY <1>4, <3>1 DEF RouteInv, StreamInv, Numbered
  <2> QED BY <1>1, <1>6, <2>1 DEF RouteInv, StreamInv, Numbered
<1>9. Alternates'
  <2> SUFFICES ASSUME NEW d \in Conns, NEW i \in DOMAIN toServer'[d],
                      NEW j \in DOMAIN toServer'[d], j = i + 1
               PROVE
        IF toServer'[d][i].part = "hdr"
        THEN \/ /\ toServer'[d][j].part = "body"
                /\ toServer'[d][j].id = toServer'[d][i].id
             \/ toServer'[d][j].part = "cut"
        ELSE toServer'[d][j].part # "body"
    BY DEF Alternates
  <2>1. CASE toServer'[d][j] = u
    BY <1>4, <2>1
  <2>2. CASE toServer'[d][j] # u
    <3>1. j \in DOMAIN toServer[d] /\ toServer'[d][j] = toServer[d][j]
      BY <1>3, <1>7, <2>2
    <3>2. i \in DOMAIN toServer[d]
      <4>1. toServer[d] \in Seq(Units) /\ toServer'[d] \in Seq(Units)
        <5>1. d # c => toServer'[d] = toServer[d]
          BY <1>3
        <5>2. d = c => toServer'[d] \in {toServer[d], Append(toServer[d], u), <<>>}
          BY <1>3
        <5>3. toServer[d] \in Seq(Units)
          BY DEF TypeInv, StreamOK
        <5>4. Append(toServer[d], u) \in Seq(Units) /\ <<>> \in Seq(Units)
          BY <1>4, <5>3
        <5> QED BY <5>1, <5>2, <5>3, <5>4
      <4>2. i \in 1 .. Len(toServer'[d]) /\ j \in 1 .. Len(toServer[d])
            /\ Len(toServer'[d]) \in Nat /\ Len(toServer[d]) \in Nat
        BY <3>1, <4>1
      <4>3. i \in 1 .. Len(toServer[d])
        BY <4>2
      <4> QED BY <4>1, <4>3
    <3>3. toServer'[d][i] = toServer[d][i]
      BY <1>3, <1>7, <3>2
    <3> QED BY <3>1, <3>2, <3>3 DEF RouteInv, StreamInv, Alternates
  <2> QED BY <2>1, <2>2
<1>10. EndsWithLast'
  <2> SUFFICES ASSUME NEW d \in Conns, ~closed'[d], toServer'[d] # <<>>
               PROVE  LET last == toServer'[d][Len(toServer'[d])]
                      IN /\ last.part = IF half'[d] THEN "hdr" ELSE "body"
                         /\ last.id = <<d, sent'[d]>>
    BY DEF EndsWithLast
  <2>1. d # c /\ toServer'[d] = toServer[d] /\ ~closed[d]
    BY <1>2, <1>3
  <2> QED BY <1>1, <2>1 DEF RouteInv, StreamInv, EndsWithLast
<1>11. BodyAwaited'
  <2>1. ASSUME NEW d \in Conns \ {c}
        PROVE  /\ toServer'[d] # <<>> /\ Head(toServer'[d]).part = "body" =>
                    <<d, Head(toServer'[d]).id>> \in Awaited'
               /\ ~closed'[d] /\ half'[d] /\ toServer'[d] = <<>> =>
                    <<d, <<d, sent'[d]>>>> \in Awaited'
    <3>1. /\ toServer[d] # <<>> /\ Head(toServer[d]).part = "body" =>
               <<d, Head(toServer[d]).id>> \in Awaited
          /\ ~closed[d] /\ half[d] /\ toServer[d] = <<>> =>
               <<d, <<d, sent[d]>>>> \in Awaited
      BY DEF RouteInv, StreamInv, BodyAwaited
    <3>2. /\ toServer'[d] = toServer[d] /\ half'[d] = half[d]
          /\ sent'[d] = sent[d] /\ closed'[d] = closed[d] /\ Awaited' = Awaited
      BY <1>1, <1>2, <1>3, <1>5
    <3> QED BY <3>1, <3>2
  <2>2. toServer'[c] # <<>> /\ Head(toServer'[c]).part = "body" =>
          toServer[c] # <<>> /\ Head(toServer'[c]) = Head(toServer[c])
    <3>1. CASE toServer'[c] = Append(toServer[c], u)
      <4>1. /\ toServer[c] = <<>> => Head(toServer'[c]) = u
            /\ toServer[c] # <<>> => Head(toServer'[c]) = Head(toServer[c])
        BY <1>4, <3>1, AppendElements
      <4> QED BY <1>4, <4>1
    <3> QED BY <1>3, <3>1
  <2>3. toServer'[c] # <<>> /\ Head(toServer'[c]).part = "body" =>
          <<c, Head(toServer'[c]).id>> \in Awaited'
    BY <1>5, <2>2 DEF RouteInv, StreamInv, BodyAwaited
  <2> QED BY <1>2, <2>1, <2>3 DEF BodyAwaited
<1>12. RequestInv'
  <2>1. \A d \in Conns : StreamKept(d) /\ FramesKept(d)
    BY <1>3, <1>4, <1>5 DEF StreamKept, FramesKept
  <2>2. \A w \in Holders' :
          /\ w \in Holders /\ origin'[w] = origin[w] /\ held'[w] = held[w]
          /\ wpc'[w] # "body" => held[w][2] <= whole'[origin[w]]
    BY <1>5, <1>6 DEF RouteInv, RequestInv, HeldFromOrigin
  <2> QED BY <1>1, <2>1, <2>2, RequestsKept DEF RouteInv
<1> QED BY <1>8, <1>9, <1>10, <1>11, <1>12 DEF RouteInv, StreamInv

LEMMA RouteInvStep ==
  ASSUME TypeInv, RouteInv, [Next]_vars
  PROVE  RouteInv'
<1>1. ASSUME \/ UNCHANGED vars
             \/ \E c \in Conns : Accept(c)
      PROVE  RouteInv'
  <2>1. /\ UNCHANGED <<toServer, sent, half, closed, toClient, recvLock,
                       reqbuf, fd, infoVars, wpc>>
        /\ \/ UNCHANGED fdCnt
           \/ sproc = "accepting"
    BY <1>1 DEF vars, serverVars, fdVars, loopVars, envVars, Accept
  <2>2. Awaited' = Awaited /\ origin' = origin /\ held' = held
    BY <2>1 DEF Awaited, origin, held, infoVars
  <2>3. Holders' \subseteq Holders
    BY <2>1 DEF Holders, TypeInv, PlaceInv
  <2>4. \A c \in Conns : FramesKept(c)
    BY <2>1 DEF FramesKept
  <2> QED BY <2>1, <2>2, <2>3, <2>4, RouteInvOther
<1>2. CASE Next
  BY <1>1, <1>2, Steps, RouteInvLoop, RouteInvRecvHdr, RouteInvRecvBody,
     RouteInvCheckClients, RouteInvSendResp, RouteInvBroadcast,
     RouteInvSendHeader, RouteInvSendBody, RouteInvClose
<1> QED BY <1>1, <1>2

LEMMA RouteInvariant == Spec => []RouteInv
<1>1. Init => RouteInv
  <2> SUFFICES ASSUME Init
               PROVE  RouteInv
    OBVIOUS
  <2>1. /\ \A c \in Conns : /\ toServer[c] = <<>> /\ toClient[c] = <<>>
                           /\ sent[c] = 0 /\ half[c] = FALSE
        /\ \A w \in Workers : wpc[w] = "recv"
    BY DEF Init
  <2>2. Holders = {}
    BY <2>1 DEF Holders
  <2>3. \A c \in Conns : /\ DOMAIN toServer[c] = {} /\ DOMAIN toClient[c] = {}
                        /\ 0 <= MaxSent[c]
    BY <2>1, CountsAssumption
  <2>4. StreamInv
    BY <2>1, <2>3 DEF StreamInv, Numbered, Alternates, EndsWithLast, BodyAwaited
  <2>5. RequestInv
    BY <2>2, <2>3
       DEF RequestInv, HeldFromOrigin, HeldOnce, InOrder, RespondsToRequester
  <2> QED BY <2>4, <2>5 DEF RouteInv
<1> QED BY <1>1, RouteInvStep, TypeInvariant, PTL DEF Spec

\* Through the buffers, the per-thread tables and connections that all workers
\* share, a response goes to the connection its request came from, and once.
THEOREM ResponsesAreRouted == Spec => []RespondsToRequester
<1>1. RouteInv => RespondsToRequester
  BY DEF RouteInv, RequestInv
<1> QED BY <1>1, RouteInvariant, PTL

\* No worker ever reads the body of a request as the header of one.
THEOREM StreamsStayAligned == Spec => []FrameAligned
<1>1. RouteInv => FrameAligned
  <2> SUFFICES ASSUME RouteInv, NEW c \in Conns, toServer[c] # <<>>,
                      Head(toServer[c]).part = "body"
               PROVE  \E w \in Workers :
                        /\ recvLock = w /\ wpc[w] = "body" /\ fd[w] = c
                        /\ reqbuf[w] = Head(toServer[c]).id
    BY DEF FrameAligned
  <2>1. <<c, Head(toServer[c]).id>> \in Awaited
    BY DEF RouteInv, StreamInv, BodyAwaited
  <2> QED BY <2>1 DEF Awaited
<1> QED BY <1>1, RouteInvariant, PTL

-----------------------------------------------------------------------------
(* The contract                                                            *)

\* A worker makes an announcement after at least one response.
AnnouncedAfterOne ==
  \A w \in Workers : wpc[w] \in {"roi", "fin"} => FramesOf("RESPONSE") # {}

LEMMA AnnouncedAfterOneStep ==
  ASSUME TypeInv, CountInv, AnnouncedAfterOne, [Next]_vars
  PROVE  AnnouncedAfterOne'
<1>1. CASE UNCHANGED toClient
  <2>1. FramesOf("RESPONSE")' = FramesOf("RESPONSE")
    BY <1>1 DEF FramesOf
  <2>2. ASSUME NEW w \in Workers, wpc'[w] \in {"roi", "fin"}
        PROVE  wpc[w] \in {"roi", "fin"} \/ (wpc[w] = "store" /\ sproc = "running")
    <3>1. ASSUME NEW v \in Workers,
                 \/ EnterLoop(v) \/ FdSet(v) \/ Select(v) \/ LockRecv(v)
                 \/ Pick(v) \/ RecvHdr(v) \/ RecvBody(v) \/ CheckClients(v)
                 \/ SendResp(v) \/ LoadFinished(v) \/ Broadcast(v)
          PROVE  \/ UNCHANGED wpc
                 \/ \E p : p \notin {"roi", "fin"} /\ wpc' = [wpc EXCEPT ![v] = p]
      <4>1. CASE EnterLoop(v) \/ FdSet(v) \/ Select(v) \/ LockRecv(v)
        BY <4>1 DEF EnterLoop, FdSet, Select, LockRecv, Goto, Advance
      <4>2. CASE Pick(v) \/ CheckClients(v)
        BY <4>2 DEF Pick, CheckClients, Goto
      <4>3. CASE RecvHdr(v) \/ RecvBody(v)
        BY <4>3 DEF RecvHdr, RecvBody, ClientLeft, CutShort, Goto
      <4>4. CASE SendResp(v) \/ LoadFinished(v) \/ Broadcast(v)
        BY <4>4 DEF SendResp, LoadFinished, Broadcast, Goto, Advance
      <4> QED BY <3>1, <4>1, <4>2, <4>3, <4>4
    <3>2. ASSUME NEW v \in Workers, StoreFinished(v)
          PROVE  /\ wpc[v] = "store" /\ sproc = "running"
                 /\ \E p : wpc' = [wpc EXCEPT ![v] = p]
      BY <3>2 DEF StoreFinished, At, Goto
    <3>3. ASSUME \/ UNCHANGED vars
                 \/ \E c \in Conns :
                      Accept(c) \/ SendHeader(c) \/ SendBody(c) \/ Close(c)
          PROVE  UNCHANGED wpc
      BY <3>3 DEF vars, serverVars, Accept, SendHeader, SendBody, Close
    <3> QED BY <2>2, <3>1, <3>2, <3>3, Steps DEF TypeInv, PcOK
  <2>3. ASSUME NEW w \in Workers, wpc[w] = "store", sproc = "running"
        PROVE  FramesOf("RESPONSE") # {}
    <3>1. w \in Uncounted
      BY <2>3 DEF Uncounted
    <3>2. Cardinality(Uncounted) \in Nat /\ Cardinality(Uncounted) # 0
      BY <3>1, UncountedFinite, FS_EmptySet, FS_CardinalityType
    <3>3. finishedReqs + Cardinality(Uncounted) <= Responses /\ finishedReqs \in Nat
      BY <2>3 DEF CountInv, CountersFit, Alive, TypeInv, CountOK
    <3>4. Responses \in Nat
      BY FS_CardinalityType DEF CountInv, Responses
    <3>5. Responses # 0
      BY <3>2, <3>3, <3>4
    <3> QED BY <3>5, FS_EmptySet DEF Responses
  <2> QED BY <2>1, <2>2, <2>3 DEF AnnouncedAfterOne
<1>2. CASE toClient' # toClient
  <2>1. PICK w \in Workers : SendResp(w) \/ Broadcast(w)
    BY <1>2, Steps DEF vars, serverVars, EnterLoop, FdSet, Select, LockRecv,
       Pick, RecvHdr, RecvBody, CheckClients, LoadFinished, StoreFinished,
       Accept, SendHeader, SendBody, Close
  <2>2. PICK c \in Conns, type \in {"RESPONSE", "ROI_BEGIN", "FINISH"} :
          SendFrame(w, c, type)
    <3>1. activeFds[w] \in Conns
      BY DEF TypeInv, BufferOK
    <3>2. Broadcast(w) => fdBuf[cur[w]] \in Conns
      BY IteratorInBuffer DEF Broadcast, At
    <3> QED BY <2>1, <3>1, <3>2 DEF SendResp, Broadcast
  <2>3. FramesOf("RESPONSE") \subseteq FramesOf("RESPONSE")'
    BY <1>2, <2>2, FramesSent
  <2>4. \A v \in Workers : wpc'[v] \in {"roi", "fin"} => wpc[v] \in {"roi", "fin"}
    BY <2>1 DEF SendResp, Broadcast, Goto, Advance, TypeInv, PcOK
  <2> QED BY <2>3, <2>4 DEF AnnouncedAfterOne
<1> QED BY <1>1, <1>2

LEMMA AnnouncedAfterOneInvariant == Spec => []AnnouncedAfterOne
<1>1. Init => AnnouncedAfterOne
  BY DEF Init, AnnouncedAfterOne
<1> QED BY <1>1, AnnouncedAfterOneStep, TypeInvariant, CountInvariant, PTL
        DEF Spec

\* As many requests were answered as responses were written.
LEMMA AnswersAreResponses ==
  ASSUME TypeInv, CountInv, RouteInv
  PROVE  /\ IsFiniteSet(Contract!AllAnswered)
         /\ Cardinality(Contract!AllAnswered) = Responses
<1> DEFINE S == FramesOf("RESPONSE")
           T == Contract!AllAnswered
           f == [x \in S |-> <<x[1], toClient[x[1]][x[2]].id>>]
<1>1. \A x : x \in T <=>
        \E c \in Conns : \E i \in DOMAIN toClient[c] :
          toClient[c][i].type = "RESPONSE" /\ x = <<c, toClient[c][i].id>>
  BY DEF Contract!AllAnswered, Contract!Answered
<1>2. \A x : x \in S <=>
        \E c \in Conns : \E i \in DOMAIN toClient[c] :
          toClient[c][i].type = "RESPONSE" /\ x = <<c, i>>
  BY FramesOfElements
<1> HIDE DEF S, T
<1>3. f \in [S -> T]
  BY <1>1, <1>2
<1>4. \A t \in T : \E x \in S : f[x] = t
  <2> SUFFICES ASSUME NEW t \in T
               PROVE  \E x \in S : f[x] = t
    OBVIOUS
  <2>1. PICK c \in Conns : \E i \in DOMAIN toClient[c] :
          toClient[c][i].type = "RESPONSE" /\ t = <<c, toClient[c][i].id>>
    BY <1>1
  <2>2. PICK i \in DOMAIN toClient[c] :
          toClient[c][i].type = "RESPONSE" /\ t = <<c, toClient[c][i].id>>
    BY <2>1
  <2>3. <<c, i>> \in S
    BY <1>2, <2>2
  <2>4. f[<<c, i>>] = t
    BY <2>2, <2>3
  <2> QED BY <2>3, <2>4
<1>5. \A x, y \in S : f[x] = f[y] => x = y
  <2> SUFFICES ASSUME NEW x \in S, NEW y \in S, f[x] = f[y]
               PROVE  x = y
    OBVIOUS
  <2>1. PICK c \in Conns : \E i \in DOMAIN toClient[c] :
          toClient[c][i].type = "RESPONSE" /\ x = <<c, i>>
    BY <1>2
  <2>2. PICK i \in DOMAIN toClient[c] :
          toClient[c][i].type = "RESPONSE" /\ x = <<c, i>>
    BY <2>1
  <2>3. PICK d \in Conns : \E j \in DOMAIN toClient[d] :
          toClient[d][j].type = "RESPONSE" /\ y = <<d, j>>
    BY <1>2
  <2>4. PICK j \in DOMAIN toClient[d] :
          toClient[d][j].type = "RESPONSE" /\ y = <<d, j>>
    BY <2>3
  <2>5. c = d /\ toClient[c][i].id = toClient[c][j].id
    BY <2>2, <2>4
  <2>6. i \in Nat /\ j \in Nat
    BY <2>2, <2>4, <2>5 DEF TypeInv, StreamOK
  <2>7. ~(i < j) /\ ~(j < i)
    <3>1. \A k, l \in DOMAIN toClient[c] :
            k \in 1 .. l - 1 /\ toClient[c][k].type = "RESPONSE"
            /\ toClient[c][l].type = "RESPONSE" =>
              toClient[c][k].id # toClient[c][l].id
      BY DEF RouteInv, RequestInv, RespondsToRequester
    <3>2. i >= 1 /\ j >= 1
      BY <2>2, <2>4, <2>5 DEF TypeInv, StreamOK
    <3>3. (i < j => i \in 1 .. j - 1) /\ (j < i => j \in 1 .. i - 1)
      BY <2>6, <3>2
    <3> QED BY <2>2, <2>4, <2>5, <3>1, <3>3
  <2> QED BY <2>2, <2>4, <2>5, <2>6, <2>7
<1>6. f \in Bijection(S, T)
  BY <1>3, <1>4, <1>5 DEF Bijection, Injection, Surjection, IsInjective
<1>7. ExistsBijection(S, T)
  BY <1>6 DEF ExistsBijection
<1>8. IsFiniteSet(S) /\ Cardinality(S) = Responses
  BY DEF CountInv, Responses, S
<1> HIDE DEF f
<1>9. IsFiniteSet(T) /\ Cardinality(T) = Cardinality(S)
  BY <1>7, <1>8, FS_Bijection
<1> QED BY <1>8, <1>9 DEF T

\* The requests asked so far are the numbers up to whole.
LEMMA AskedWhole ==
  ASSUME NEW c \in Conns
  PROVE  /\ Asked(c) = {<<c, k>> : k \in 1 .. whole[c]}
         /\ [d \in Conns |-> Asked(d)][c] = Asked(c)
  BY DEF Asked, whole

\* Steps that ask nothing whole and write nothing.
LEMMA NothingSeen ==
  ASSUME UNCHANGED <<toClient, whole>>
  PROVE  UNCHANGED Contract!contract
<1>1. \A c \in Conns : Asked(c)' = Asked(c)
  <2> SUFFICES ASSUME NEW c \in Conns
               PROVE  Asked(c)' = Asked(c)
    OBVIOUS
  <2>1. whole'[c] = whole[c]
    OBVIOUS
  <2>2. sent'[c] - (IF half'[c] THEN 1 ELSE 0) = sent[c] - (IF half[c] THEN 1 ELSE 0)
    BY <2>1 DEF whole
  <2> QED BY <2>2 DEF Asked
<1> QED BY <1>1 DEF Contract!contract

LEMMA AskSimulated ==
  ASSUME TypeInv, RouteInv, NEW c \in Conns, SendBody(c)
  PROVE  Contract!Next
<1> DEFINE id == <<c, sent[c]>>
           asked == [d \in Conns |-> Asked(d)]
<1>1. /\ half[c] /\ sent[c] \in Nat /\ half' = [half EXCEPT ![c] = FALSE]
      /\ UNCHANGED <<sent, toClient>>
  BY DEF SendBody, serverVars, TypeInv, EnvOK
<1>2. half'[c] = FALSE /\ \A d \in Conns \ {c} : half'[d] = half[d]
  BY <1>1 DEF TypeInv, EnvOK
<1>3. sent[c] >= 1 /\ sent[c] <= MaxSent[c] /\ MaxSent[c] \in Nat
  BY <1>1, CountsAssumption DEF RouteInv, StreamInv, Numbered
<1>4. id \in UNION {{d} \X (1 .. MaxSent[d]) : d \in Conns}
  <2>1. sent[c] \in 1 .. MaxSent[c]
    BY <1>1, <1>3
  <2> QED BY <2>1
<1>5. id \notin Asked(c) /\ Asked(c)' = Asked(c) \cup {id}
  <2>1. Asked(c) = {<<c, k>> : k \in 1 .. sent[c] - 1}
    BY <1>1 DEF Asked
  <2>2. Asked(c)' = {<<c, k>> : k \in 1 .. sent[c]}
    BY <1>1, <1>2 DEF Asked
  <2>3. sent[c] \notin 1 .. sent[c] - 1
        /\ 1 .. sent[c] = (1 .. sent[c] - 1) \cup {sent[c]}
    BY <1>1, <1>3
  <2> QED BY <2>1, <2>2, <2>3
<1>6. \A d \in Conns \ {c} : Asked(d)' = Asked(d)
  BY <1>1, <1>2 DEF Asked
<1>7. asked' = [asked EXCEPT ![c] = asked[c] \cup {id}]
  BY <1>5, <1>6
<1>8. id \notin asked[c]
  BY <1>5
<1> HIDE DEF id
<1>9. Contract!Ask(c, id)
  BY <1>1, <1>4, <1>7, <1>8 DEF Contract!Ask
<1> QED BY <1>4, <1>9 DEF Contract!Next

LEMMA AnswerSimulated ==
  ASSUME TypeInv, RouteInv, NEW w \in Workers, SendResp(w)
  PROVE  [Contract!Next]_Contract!contract
<1> DEFINE c == activeFds[w]
           id == reqInfo[w]
           f == [type |-> "RESPONSE", id |-> id]
<1>1. /\ wpc[w] = "serve" /\ c \in Conns /\ UNCHANGED <<sent, half>>
      /\ \/ UNCHANGED toClient
         \/ toClient' = [toClient EXCEPT ![c] = Append(toClient[c], f)]
  BY DEF SendResp, At, SendFrame, envVars, TypeInv, BufferOK
<1>2. whole' = whole
  BY <1>1 DEF whole
<1>3. CASE UNCHANGED toClient
  BY <1>2, <1>3, NothingSeen
<1>4. CASE toClient' = [toClient EXCEPT ![c] = Append(toClient[c], f)]
  <2>1. w \in Holders /\ origin[w] = c /\ held[w] = id
    BY <1>1 DEF Holders, origin, held
  <2>2. id \in {c} \X (1 .. sent[c]) /\ id[2] <= whole[c]
    BY <1>1, <2>1 DEF RouteInv, RequestInv, HeldFromOrigin
  <2>3. id \in Asked(c)
    <3>1. id[2] \in 1 .. whole[c] /\ id = <<c, id[2]>>
      <4>1. whole[c] \in Int
        BY <1>1 DEF whole, TypeInv, EnvOK
      <4> QED BY <2>2, <4>1
    <3> HIDE DEF id, c
    <3> QED BY <1>1, <3>1, AskedWhole
  <2>4. id \notin Contract!Answered(c)
    BY <1>1, <2>1 DEF Contract!Answered, RouteInv, RequestInv, HeldOnce
  <2>5. UNCHANGED [d \in Conns |-> Asked(d)]
    BY <1>1 DEF Asked
  <2>6. [d \in Conns |-> Asked(d)][c] = Asked(c)
    BY <1>1
  <2> HIDE DEF id, c
  <2>7. Contract!Answer(c, id)
    BY <1>4, <2>3, <2>4, <2>5, <2>6 DEF Contract!Answer, Contract!Write
  <2> QED BY <1>1, <2>3, <2>6, <2>7 DEF Contract!Next
<1> QED BY <1>1, <1>3, <1>4

\* The contract counts as this module does.
LEMMA SameCardinality == \A S : Contract!Cardinality(S) = Cardinality(S)
  BY DEF Contract!Cardinality, Cardinality

LEMMA AnnounceSimulated ==
  ASSUME TypeInv, CountInv, RouteInv, AnnouncedAfterOne,
         NEW w \in Workers, Broadcast(w)
  PROVE  [Contract!Next]_Contract!contract
<1> DEFINE c == fdBuf[cur[w]]
           type == IF wpc[w] = "roi" THEN "ROI_BEGIN" ELSE "FINISH"
           f == [type |-> type, id |-> <<>>]
<1>1. /\ wpc[w] \in {"roi", "fin"} /\ UNCHANGED <<sent, half>>
      /\ \/ UNCHANGED toClient
         \/ toClient' = [toClient EXCEPT ![c] = Append(toClient[c], f)]
  BY DEF Broadcast, At, SendFrame, envVars, NoId
<1>2. whole' = whole
  BY <1>1 DEF whole
<1>3. CASE UNCHANGED toClient
  BY <1>2, <1>3, NothingSeen
<1>4. CASE toClient' = [toClient EXCEPT ![c] = Append(toClient[c], f)]
  <2>1. c \in Conns
    BY <1>1, IteratorInBuffer
  <2>2. type \in {"ROI_BEGIN", "FINISH"}
    OBVIOUS
  <2>3. Responses # 0
    BY <1>1, FS_EmptySet DEF AnnouncedAfterOne, Responses, CountInv
  <2>4. Contract!AllAnswered # {}
    BY <2>3, AnswersAreResponses, FS_EmptySet
  <2>5. Responses >= Contract!EndOf(type)
    BY <1>1 DEF CountInv, BroadcastsFit, Contract!EndOf
  <2>6. UNCHANGED [d \in Conns |-> Asked(d)]
    BY <1>1 DEF Asked
  <2> HIDE DEF c, type
  <2>7. Contract!Due(type)
    <3>1. Contract!Cardinality(Contract!AllAnswered) = Responses
      BY AnswersAreResponses, SameCardinality
    <3> QED BY <2>4, <2>5, <3>1 DEF Contract!Due
  <2>8. Contract!Announce(c, type)
    BY <1>4, <2>6, <2>7 DEF Contract!Announce, Contract!Write
  <2> QED BY <2>1, <2>2, <2>8 DEF Contract!Next
<1> QED BY <1>1, <1>3, <1>4

LEMMA StepSimulated ==
  ASSUME TypeInv, CountInv, RouteInv, AnnouncedAfterOne, [Next]_vars
  PROVE  [Contract!Next]_Contract!contract
<1>1. ASSUME \/ UNCHANGED vars
             \/ \E w \in Workers :
                  \/ EnterLoop(w) \/ FdSet(w) \/ Select(w) \/ LockRecv(w)
                  \/ Pick(w) \/ RecvHdr(w) \/ RecvBody(w) \/ CheckClients(w)
                  \/ LoadFinished(w) \/ StoreFinished(w)
             \/ \E c \in Conns : Accept(c) \/ Close(c)
      PROVE  UNCHANGED Contract!contract
  <2>1. UNCHANGED <<toClient, sent, half>>
    BY <1>1 DEF vars, serverVars, envVars, EnterLoop, FdSet, Select, LockRecv,
       Pick, RecvHdr, RecvBody, CheckClients, LoadFinished, StoreFinished,
       Accept, Close
  <2>2. whole' = whole
    BY <2>1 DEF whole
  <2> QED BY <2>1, <2>2, NothingSeen
<1>2. ASSUME NEW c \in Conns, SendHeader(c)
      PROVE  UNCHANGED Contract!contract
  <2>1. /\ ~half[c] /\ sent' = [sent EXCEPT ![c] = sent[c] + 1]
        /\ half' = [half EXCEPT ![c] = TRUE] /\ UNCHANGED toClient
    BY <1>2 DEF SendHeader, serverVars
  <2>2. \A d \in Conns : sent'[d] - (IF half'[d] THEN 1 ELSE 0)
                           = sent[d] - (IF half[d] THEN 1 ELSE 0)
    BY <2>1 DEF TypeInv, EnvOK
  <2>3. whole' = whole
    BY <2>2 DEF whole
  <2> QED BY <2>1, <2>3, NothingSeen
<1> QED BY <1>1, <1>2, Steps, AskSimulated, AnswerSimulated, AnnounceSimulated

\* The networked server keeps its promise to the clients: whatever its workers
\* do, a request is answered at most once, on its connection and after it was
\* asked, and no announcement comes before the responses its period has.
THEOREM ServerKeepsContract == Spec => ImplementsContract
<1>1. Init => Contract!Init
  <2> SUFFICES ASSUME Init
               PROVE  Contract!Init
    OBVIOUS
  <2>1. \A c \in Conns : Asked(c) = {}
    BY DEF Init, Asked
  <2> QED BY <2>1 DEF Init, Contract!Init
<1> QED BY <1>1, StepSimulated, TypeInvariant, CountInvariant, RouteInvariant,
           AnnouncedAfterOneInvariant, PTL
        DEF Spec, ImplementsContract, Contract!Spec
=============================================================================
