----------------------------- MODULE ThreadMap -----------------------------
(***************************************************************************)
(* How main() of harness/tbench_client_networked.cpp shares its sender     *)
(* (and receiver) threads among its NetworkedClient objects.  Each client  *)
(* is constructed with a number of threads, which becomes the count of its *)
(* start-up barrier, and each thread is later given to a client: by two    *)
(* different formulas (lines 129 and 138, 146).                            *)
(***************************************************************************)
EXTENDS Integers, FiniteSets

CONSTANTS MaxThreads, MaxClients   \* bounds on the two environment variables

ASSUME MaxAssumption ==
  MaxThreads \in Nat \ {0} /\ MaxClients \in Nat \ {0}

VARIABLES nthreads,    \* TBENCH_CLIENT_THREADS
          nclients,    \* TBENCH_NCLIENTS
          numThread,   \* numThread[c], the thread count client c got
          sender,      \* sender[t], the client that sender thread t got
          receiver     \* receiver[t], the same for receiver thread t

mapVars == <<nthreads, nclients, numThread, sender, receiver>>

Init ==
  /\ nthreads \in 1 .. MaxThreads
  /\ nclients \in 1 .. MaxClients
  /\ numThread = [c \in {} |-> 0]
  /\ sender = [t \in {} |-> 0]
  /\ receiver = [t \in {} |-> 0]

\* The two formulas, each after a version that is wrong at the boundaries.
NumThreadEven(c, T, N) == T \div N
NumThread(c, T, N) ==
  (((c + 1) * T) \div N - 1) - (c * T) \div N + 1
ClientOfThreadNext(t, T, N) == (N * (t + 1)) \div T
ClientOfThread(t, T, N) == (N * (t + 1) - 1) \div T

\* f with one more element, at the next index of its loop.
NextIndex(f) == Cardinality(DOMAIN f)
Push(f, x) ==
  [i \in 0 .. NextIndex(f) |-> IF i = NextIndex(f) THEN x ELSE f[i]]

NewClient ==
  /\ NextIndex(numThread) < nclients
  /\ numThread' =
       Push(numThread, NumThread(NextIndex(numThread), nthreads, nclients))
  /\ UNCHANGED <<nthreads, nclients, sender, receiver>>

StartSender ==
  /\ NextIndex(numThread) = nclients
  /\ NextIndex(sender) < nthreads
  /\ sender' =
       Push(sender, ClientOfThread(NextIndex(sender), nthreads, nclients))
  /\ UNCHANGED <<nthreads, nclients, numThread, receiver>>

StartReceiver ==
  /\ NextIndex(sender) = nthreads
  /\ NextIndex(receiver) < nthreads
  /\ receiver' =
       Push(receiver, ClientOfThread(NextIndex(receiver), nthreads, nclients))
  /\ UNCHANGED <<nthreads, nclients, numThread, sender>>

Next == NewClient \/ StartSender \/ StartReceiver

Spec == Init /\ [][Next]_mapVars

-----------------------------------------------------------------------------
(* Properties *)

Given(f, c) == {t \in DOMAIN f : f[t] = c}

\* Every thread is given to a client that exists (clients[client] is not
\* bounds-checked), and no client ever has more senders than its barrier
\* counts, or they would pass it without one another.
WithinClients ==
  /\ \A t \in DOMAIN sender : sender[t] \in DOMAIN numThread
  /\ \A c \in DOMAIN numThread :
       Cardinality(Given(sender, c)) <= numThread[c]

\* Once all threads are started, the barrier of every client counts exactly
\* its senders: one too few and the client never leaves startReq's barrier,
\* one too many and it would run with a thread missing.
BarrierCountsSenders ==
  NextIndex(sender) = nthreads =>
    \A c \in DOMAIN numThread :
      numThread[c] = Cardinality(Given(sender, c))
=============================================================================
