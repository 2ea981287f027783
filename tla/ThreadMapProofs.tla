-------------------------- MODULE ThreadMapProofs --------------------------
(***************************************************************************)
(* For every number of threads and of clients, the two formulas of main()  *)
(* agree: thread t is given to client c exactly when                       *)
(*     First(c) <= t < First(c + 1)   with   First(c) = c * T \div N,      *)
(* and client c was constructed with First(c + 1) - First(c) threads.      *)
(***************************************************************************)
EXTENDS ThreadMap, FiniteSetTheorems, TLAPS

\* What division of naturals returns, as two inequalities.
LEMMA Division ==
  ASSUME NEW a \in Nat, NEW b \in Nat \ {0}
  PROVE  /\ a \div b \in Nat
         /\ b * (a \div b) <= a
         /\ a < b * (a \div b) + b
  BY Z3

\* Multiplication by a positive natural keeps a strict order.
LEMMA ProductOrder ==
  ASSUME NEW b \in Nat \ {0}, NEW x \in Int, NEW y \in Int, b * x < b * y
  PROVE  x < y
  BY Z3

First(c, T, N) == (c * T) \div N

\* A thread's client is the one whose interval of threads it is in.
LEMMA ClientOfInterval ==
  ASSUME NEW T \in Nat \ {0}, NEW N \in Nat \ {0},
         NEW t \in Nat, NEW c \in Nat
  PROVE  ClientOfThread(t, T, N) = c
           <=> First(c, T, N) <= t /\ t < First(c + 1, T, N)
<1> DEFINE q == (N * (t + 1) - 1) \div T
           lo == (c * T) \div N
           hi == ((c + 1) * T) \div N
<1>1. N * (t + 1) \in Nat \ {0} /\ N * (t + 1) - 1 \in Nat
  BY Z3
<1>2. c * T \in Nat /\ (c + 1) * T \in Nat
  BY Z3
<1>3. /\ q \in Nat
      /\ T * q <= N * (t + 1) - 1
      /\ N * (t + 1) - 1 < T * q + T
  BY <1>1, Division
<1>4. lo \in Nat /\ N * lo <= c * T /\ c * T < N * lo + N
  BY <1>2, Division
<1>5. hi \in Nat /\ N * hi <= (c + 1) * T /\ (c + 1) * T < N * hi + N
  BY <1>2, Division
<1>6. q = c <=> c * T < N * (t + 1) /\ N * (t + 1) <= (c + 1) * T
  <2>1. ASSUME q = c
        PROVE  c * T < N * (t + 1) /\ N * (t + 1) <= (c + 1) * T
    BY <1>1, <1>3, <2>1, Z3
  <2>2. ASSUME c * T < N * (t + 1), N * (t + 1) <= (c + 1) * T
        PROVE  q = c
    <3>1. T * q < T * (c + 1) /\ T * c < T * (q + 1)
      BY <1>1, <1>3, <2>2, Z3
    <3>2. q < c + 1 /\ c < q + 1
      BY <1>3, <3>1, ProductOrder
    <3> QED BY <1>3, <3>2
  <2> QED BY <2>1, <2>2
<1>7. c * T < N * (t + 1) <=> lo <= t
  <2>1. ASSUME c * T < N * (t + 1)
        PROVE  lo <= t
    <3>1. N * lo < N * (t + 1)
      BY <1>1, <1>2, <1>4, <2>1, Z3
    <3>2. lo < t + 1
      BY <1>4, <3>1, ProductOrder
    <3> QED BY <1>4, <3>2
  <2>2. ASSUME lo <= t
        PROVE  c * T < N * (t + 1)
    <3>1. N * lo <= N * t
      BY <1>4, <2>2, Z3
    <3> QED BY <1>2, <1>4, <3>1, Z3
  <2> QED BY <2>1, <2>2
<1>8. N * (t + 1) <= (c + 1) * T <=> t < hi
  <2>1. ASSUME N * (t + 1) <= (c + 1) * T
        PROVE  t < hi
    <3>1. N * (t + 1) < N * (hi + 1)
      BY <1>2, <1>5, <2>1, Z3
    <3>2. t + 1 < hi + 1
      BY <1>5, <3>1, ProductOrder
    <3> QED BY <1>5, <3>2
  <2>2. ASSUME t < hi
        PROVE  N * (t + 1) <= (c + 1) * T
    <3>1. N * (t + 1) <= N * hi
      BY <1>5, <2>2, Z3
    <3> QED BY <1>1, <1>2, <1>5, <3>1, Z3
  <2> QED BY <2>1, <2>2
<1> QED BY <1>6, <1>7, <1>8 DEF ClientOfThread, First

\* The intervals are in order, the first starts at 0, the last ends at T.
LEMMA FirstOrder ==
  ASSUME NEW T \in Nat \ {0}, NEW N \in Nat \ {0}, NEW c \in Nat
  PROVE  /\ First(c, T, N) \in Nat
         /\ First(c, T, N) <= First(c + 1, T, N)
         /\ c < N => First(c + 1, T, N) <= T
         /\ First(0, T, N) = 0
<1>1. c * T \in Nat /\ (c + 1) * T \in Nat /\ c * T <= (c + 1) * T
  BY Z3
<1>2. First(c, T, N) \in Nat /\ N * First(c, T, N) <= c * T
  BY <1>1, Division DEF First
<1>3. /\ First(c + 1, T, N) \in Nat
      /\ N * First(c + 1, T, N) <= (c + 1) * T
      /\ (c + 1) * T < N * First(c + 1, T, N) + N
  BY <1>1, Division DEF First
<1>4. First(c, T, N) <= First(c + 1, T, N)
  <2>1. N * First(c, T, N) < N * (First(c + 1, T, N) + 1)
    BY <1>1, <1>2, <1>3, Z3
  <2>2. First(c, T, N) < First(c + 1, T, N) + 1
    BY <1>2, <1>3, <2>1, ProductOrder
  <2> QED BY <1>2, <1>3, <2>2
<1>5. ASSUME c < N
      PROVE  First(c + 1, T, N) <= T
  <2>1. N * First(c + 1, T, N) < N * (T + 1)
    <3>1. (c + 1) * T <= N * T
      BY <1>5, Z3
    <3> QED BY <1>1, <1>3, <3>1, Z3
  <2>2. First(c + 1, T, N) < T + 1
    BY <1>3, <2>1, ProductOrder
  <2> QED BY <1>3, <2>2
<1>6. First(0, T, N) = 0
  <2>1. 0 * T = 0
    BY Z3
  <2>2. /\ First(0, T, N) \in Nat
        /\ N * First(0, T, N) <= 0
    BY <2>1, Division DEF First
  <2> QED BY <2>2, Z3
<1> QED BY <1>2, <1>4, <1>5, <1>6

\* The number of threads a client is constructed with.
LEMMA NumThreadValue ==
  ASSUME NEW T \in Nat \ {0}, NEW N \in Nat \ {0}, NEW c \in Nat
  PROVE  /\ NumThread(c, T, N) = First(c + 1, T, N) - First(c, T, N)
         /\ NumThread(c, T, N) \in Nat
<1>1. /\ First(c, T, N) \in Nat
      /\ First(c + 1, T, N) \in Nat
      /\ First(c, T, N) <= First(c + 1, T, N)
  BY FirstOrder
<1> DEFINE a == First(c, T, N)
           b == First(c + 1, T, N)
<1>2. NumThread(c, T, N) = (b - 1) - a + 1
  BY DEF NumThread, First
<1>3. a \in Nat /\ b \in Nat /\ a <= b
  BY <1>1
<1> QED BY <1>2, <1>3

\* The interval of client c, as a set of threads.
LEMMA IntervalSize ==
  ASSUME NEW T \in Nat \ {0}, NEW N \in Nat \ {0}, NEW c \in Nat, c < N
  PROVE  /\ First(c, T, N) \in Nat /\ First(c + 1, T, N) \in Nat
         /\ First(c, T, N) <= First(c + 1, T, N)
         /\ First(c + 1, T, N) <= T
         /\ IsFiniteSet(First(c, T, N) .. First(c + 1, T, N) - 1)
         /\ Cardinality(First(c, T, N) .. First(c + 1, T, N) - 1)
              = NumThread(c, T, N)
<1>1. /\ First(c, T, N) \in Nat
      /\ First(c, T, N) <= First(c + 1, T, N)
      /\ First(c + 1, T, N) <= T
  BY FirstOrder
<1>2. First(c + 1, T, N) \in Nat
  <2>1. c + 1 \in Nat
    OBVIOUS
  <2> QED BY <2>1, FirstOrder
<1>3. NumThread(c, T, N) = First(c + 1, T, N) - First(c, T, N)
  BY NumThreadValue
<1>4. \A a, b \in Nat : a <= b =>
        IsFiniteSet(a .. b - 1) /\ Cardinality(a .. b - 1) = b - a
  <2> TAKE a, b \in Nat
  <2> HAVE a <= b
  <2>1. a \in Int /\ b - 1 \in Int
    OBVIOUS
  <2>2. /\ IsFiniteSet(a .. b - 1)
        /\ Cardinality(a .. b - 1) =
             IF a > b - 1 THEN 0 ELSE (b - 1) - a + 1
    BY <2>1, FS_Interval
  <2> QED BY <2>2
<1> QED BY <1>1, <1>2, <1>3, <1>4

-----------------------------------------------------------------------------
(* The loops of main *)

\* The vectors hold what the formulas say, as far as the loops have come; no
\* thread is started before the last client is constructed.
Progress(k, m) ==
  /\ numThread = [c \in 0 .. k - 1 |-> NumThread(c, nthreads, nclients)]
  /\ sender = [t \in 0 .. m - 1 |-> ClientOfThread(t, nthreads, nclients)]
  /\ m > 0 => k = nclients

LoopInv ==
  /\ nthreads \in Nat \ {0}
  /\ nclients \in Nat \ {0}
  /\ \E k \in 0 .. nclients : \E m \in 0 .. nthreads : Progress(k, m)

\* Appending at the end of a vector.
LEMMA PushAtEnd ==
  ASSUME NEW k \in Nat, NEW f, DOMAIN f = 0 .. k - 1, NEW x
  PROVE  /\ NextIndex(f) = k
         /\ Push(f, x) = [i \in 0 .. (k + 1) - 1 |-> IF i = k THEN x ELSE f[i]]
<1>1. NextIndex(f) = k
  BY FS_Interval DEF NextIndex
<1>2. 0 .. k = 0 .. (k + 1) - 1
  OBVIOUS
<1> QED BY <1>1, <1>2 DEF Push

LEMMA LoopInvariant == Spec => []LoopInv
<1>1. Init => LoopInv
  <2> SUFFICES ASSUME Init
               PROVE  LoopInv
    OBVIOUS
  <2>1. nthreads \in Nat \ {0} /\ nclients \in Nat \ {0}
    BY MaxAssumption DEF Init
  <2>2. 0 .. 0 - 1 = {}
    OBVIOUS
  <2>3. Progress(0, 0)
    BY <2>2 DEF Init, Progress
  <2> QED BY <2>1, <2>3 DEF LoopInv
<1>2. LoopInv /\ [Next]_mapVars => LoopInv'
  <2> SUFFICES ASSUME LoopInv, [Next]_mapVars
               PROVE  LoopInv'
    OBVIOUS
  <2> PICK k \in 0 .. nclients, m \in 0 .. nthreads : Progress(k, m)
    BY DEF LoopInv
  <2>1. nthreads \in Nat \ {0} /\ nclients \in Nat \ {0} /\ k \in Nat /\ m \in Nat
    BY DEF LoopInv
  <2>2. DOMAIN numThread = 0 .. k - 1 /\ DOMAIN sender = 0 .. m - 1
    BY DEF Progress
  <2>3. CASE NewClient
    <3>1. k + 1 \in 0 .. nclients /\ m = 0
      <4>1. NextIndex(numThread) = k
        BY <2>1, <2>2, PushAtEnd
      <4> QED BY <2>1, <2>3, <4>1 DEF NewClient, Progress
    <3>2. numThread' = [c \in 0 .. (k + 1) - 1 |->
                          NumThread(c, nthreads, nclients)]
      <4>1. numThread' = Push(numThread, NumThread(k, nthreads, nclients))
        BY <2>1, <2>2, <2>3, PushAtEnd DEF NewClient
      <4>2. numThread' = [c \in 0 .. (k + 1) - 1 |->
               IF c = k THEN NumThread(k, nthreads, nclients) ELSE numThread[c]]
        BY <2>1, <2>2, <4>1, PushAtEnd
      <4>3. \A c \in 0 .. (k + 1) - 1 :
               c # k => numThread[c] = NumThread(c, nthreads, nclients)
        BY <2>1 DEF Progress
      <4> QED BY <4>2, <4>3
    <3>3. UNCHANGED <<nthreads, nclients, sender>>
      BY <2>3 DEF NewClient
    <3>4. Progress(k + 1, m)'
      BY <3>1, <3>2, <3>3 DEF Progress
    <3> QED BY <2>1, <3>1, <3>3, <3>4 DEF LoopInv
  <2>4. CASE StartSender
    <3>1. m + 1 \in 0 .. nthreads /\ k = nclients
      <4>1. NextIndex(numThread) = k /\ NextIndex(sender) = m
        BY <2>1, <2>2, PushAtEnd
      <4> QED BY <2>1, <2>4, <4>1 DEF StartSender
    <3>2. sender' = [t \in 0 .. (m + 1) - 1 |->
                       ClientOfThread(t, nthreads, nclients)]
      <4>1. sender' = Push(sender, ClientOfThread(m, nthreads, nclients))
        BY <2>1, <2>2, <2>4, PushAtEnd DEF StartSender
      <4>2. sender' = [t \in 0 .. (m + 1) - 1 |->
              IF t = m THEN ClientOfThread(m, nthreads, nclients) ELSE sender[t]]
        BY <2>1, <2>2, <4>1, PushAtEnd
      <4>3. \A t \in 0 .. (m + 1) - 1 :
               t # m => sender[t] = ClientOfThread(t, nthreads, nclients)
        BY <2>1 DEF Progress
      <4> QED BY <4>2, <4>3
    <3>3. UNCHANGED <<nthreads, nclients, numThread>>
      BY <2>4 DEF StartSender
    <3>4. Progress(k, m + 1)'
      BY <2>1, <3>1, <3>2, <3>3 DEF Progress
    <3> QED BY <2>1, <3>1, <3>3, <3>4 DEF LoopInv
  <2>5. ASSUME UNCHANGED <<nthreads, nclients, numThread, sender>>
        PROVE  LoopInv'
    <3>1. Progress(k, m)'
      BY <2>5 DEF Progress
    <3> QED BY <2>1, <2>5, <3>1 DEF LoopInv
  <2> QED BY <2>3, <2>4, <2>5 DEF Next, StartReceiver, mapVars
<1> QED BY <1>1, <1>2, PTL DEF Spec

\* The senders a client has been given are those of its interval that were
\* started.
LEMMA GivenInterval ==
  ASSUME LoopInv, NEW k \in 0 .. nclients, NEW m \in 0 .. nthreads,
         Progress(k, m), NEW c \in Nat
  PROVE  Given(sender, c) =
           {t \in 0 .. m - 1 : /\ First(c, nthreads, nclients) <= t
                               /\ t < First(c + 1, nthreads, nclients)}
<1>1. \A t \in 0 .. m - 1 :
        sender[t] = c <=> /\ First(c, nthreads, nclients) <= t
                          /\ t < First(c + 1, nthreads, nclients)
  BY ClientOfInterval DEF LoopInv, Progress
<1>2. DOMAIN sender = 0 .. m - 1
  BY DEF Progress
<1> QED BY <1>1, <1>2 DEF Given

\* main() never indexes clients[] out of bounds, and never gives a client
\* more senders than the count of its barrier.
THEOREM SendersWithinClients == Spec => []WithinClients
<1>1. LoopInv => WithinClients
  <2> SUFFICES ASSUME LoopInv
               PROVE  WithinClients
    OBVIOUS
  <2> PICK k \in 0 .. nclients, m \in 0 .. nthreads : Progress(k, m)
    BY DEF LoopInv
  <2>1. nthreads \in Nat \ {0} /\ nclients \in Nat \ {0} /\ k \in Nat /\ m \in Nat
    BY DEF LoopInv
  <2>2. DOMAIN numThread = 0 .. k - 1 /\ DOMAIN sender = 0 .. m - 1
    BY DEF Progress
  <2>3. ASSUME NEW t \in DOMAIN sender
        PROVE  sender[t] \in DOMAIN numThread
    <3>1. t \in 0 .. m - 1 /\ m > 0 /\ k = nclients
      BY <2>1, <2>2 DEF Progress
    <3>2. sender[t] = ClientOfThread(t, nthreads, nclients)
      BY <3>1 DEF Progress
    <3> DEFINE q == ClientOfThread(t, nthreads, nclients)
    <3>3. q \in Nat /\ q < nclients
      <4>1. nclients * (t + 1) - 1 \in Nat
        BY <2>1, <3>1, Z3
      <4>2. q \in Nat /\ nthreads * q <= nclients * (t + 1) - 1
        BY <2>1, <4>1, Division DEF ClientOfThread
      <4>3. nclients * (t + 1) <= nclients * nthreads
        BY <2>1, <3>1, Z3
      <4> HIDE DEF q
      <4>4. nthreads * q < nthreads * nclients
        <5>1. /\ nclients * nthreads = nthreads * nclients
              /\ nclients * nthreads \in Int
              /\ nclients * (t + 1) \in Int
              /\ nthreads * q \in Int
          BY <2>1, <3>1, <4>2, Z3
        <5> QED BY <4>2, <4>3, <5>1
      <4> QED BY <2>1, <4>2, <4>4, ProductOrder
    <3> QED BY <2>1, <2>2, <3>1, <3>2, <3>3
  <2>4. ASSUME NEW c \in DOMAIN numThread
        PROVE  Cardinality(Given(sender, c)) <= numThread[c]
    <3>1. c \in Nat /\ c < nclients
      BY <2>1, <2>2
    <3>2. numThread[c] = NumThread(c, nthreads, nclients)
      BY <2>2 DEF Progress
    <3> DEFINE a == First(c, nthreads, nclients)
               b == First(c + 1, nthreads, nclients)
    <3>6. /\ a \in Nat /\ b \in Nat
          /\ IsFiniteSet(a .. b - 1)
          /\ Cardinality(a .. b - 1) = NumThread(c, nthreads, nclients)
      BY <2>1, <3>1, IntervalSize
    <3>3. Given(sender, c) = {t \in 0 .. m - 1 : a <= t /\ t < b}
      BY <3>1, GivenInterval
    <3> HIDE DEF a, b
    <3>4. Given(sender, c) \in SUBSET (a .. b - 1)
      BY <2>1, <3>6, <3>3
    <3>5. Cardinality(Given(sender, c)) <= Cardinality(a .. b - 1)
      BY <3>6, <3>4, FS_Subset
    <3> QED BY <3>2, <3>6, <3>5
  <2> QED BY <2>3, <2>4 DEF WithinClients
<1> QED BY <1>1, LoopInvariant, PTL

\* When all threads are started, each start-up barrier counts exactly the
\* senders that will wait in it, for every TBENCH_CLIENT_THREADS and every
\* TBENCH_NCLIENTS: the assumption module Client makes of its environment.
THEOREM BarriersCountSenders == Spec => []BarrierCountsSenders
<1>1. LoopInv => BarrierCountsSenders
  <2> SUFFICES ASSUME LoopInv, NextIndex(sender) = nthreads,
                      NEW c \in DOMAIN numThread
               PROVE  numThread[c] = Cardinality(Given(sender, c))
    BY DEF BarrierCountsSenders
  <2> PICK k \in 0 .. nclients, m \in 0 .. nthreads : Progress(k, m)
    BY DEF LoopInv
  <2>1. nthreads \in Nat \ {0} /\ nclients \in Nat \ {0} /\ k \in Nat /\ m \in Nat
    BY DEF LoopInv
  <2>2. DOMAIN numThread = 0 .. k - 1 /\ DOMAIN sender = 0 .. m - 1
    BY DEF Progress
  <2>3. m = nthreads
    BY <2>1, <2>2, PushAtEnd
  <2>4. c \in Nat /\ c < nclients
    BY <2>1, <2>2
  <2>5. numThread[c] = NumThread(c, nthreads, nclients)
    BY <2>2 DEF Progress
  <2> DEFINE a == First(c, nthreads, nclients)
             b == First(c + 1, nthreads, nclients)
  <2>6. /\ a \in Nat /\ b \in Nat /\ b <= nthreads
        /\ Cardinality(a .. b - 1) = NumThread(c, nthreads, nclients)
    BY <2>1, <2>4, IntervalSize
  <2>7. Given(sender, c) = {t \in 0 .. m - 1 : a <= t /\ t < b}
    BY <2>4, GivenInterval
  <2> HIDE DEF a, b
  <2>8. {t \in 0 .. m - 1 : a <= t /\ t < b} = a .. b - 1
    BY <2>1, <2>3, <2>6
  <2> QED BY <2>5, <2>6, <2>7, <2>8
<1> QED BY <1>1, LoopInvariant, PTL
=============================================================================
