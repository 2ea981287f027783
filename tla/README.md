# TLA+ models of the TailBench harness

TailBench is a set of latency-critical applications and a harness that loads
them and measures their latency. This directory holds a formal model of the
harness (`src/tailbench-v0.9/harness`, about 1 400 lines of C++), TLC runs that
check it on small instances and TLAPS proofs of what matters most about it for
instances of every size. The applications are third-party systems that the
repository vendors; two parts of them that serve the harness's requests with
concurrent code of their own are modelled too: the thread pool of moses and the
commit protocol of silo's database. File names below are relative to
`src/tailbench-v0.9/harness` unless they say otherwise.

## Inventory

| component | state | operations | hard behaviour | correct when |
|---|---|---|---|---|
| **Client** (`client.{h,cpp}`) | status, dist, barrier, ready, startedReqs, inFlightReqs, sample vectors | `startReq`, `finiReq`, `_startRoi`, `startRoi`, `dumpStats` | two barriers with a re-creation in between; `status` and `startedReqs` read without the lock; a condition variable set under another mutex than the status | ids are unique, no assertion fails, only answers in the ROI are recorded, nobody is lost in a barrier or at the gate |
| **Integrated server** (`tbench_server_integrated.cpp`) | reqInfo per thread, finishedReqs, plus one Client | `recvReq`, `sendResp`, thread start | `sendResp` is two critical sections; the phases are changed from inside it | each thread answers its own request; the run ends; the dump holds the measured requests |
| **Networked server** (`tbench_server_networked.cpp`) | clientFds, recvClientHead, recvLock, per-thread buffers, finishedReqs | accept loop, `recvReq`, `sendResp`, two broadcasts, client removal | workers share sockets, a vector and a counter, partly without locks; clients leave | responses go to requesters, frames stay aligned, no connection starves, periods do not end early |
| **Networked client process** (`tbench_client_networked.cpp`, `NetworkedClient` in `client.cpp`) | live_clients, num_start_roi, tmpSjrnTimes, recvLock, the files | `main`, `send`, `recv`, `dumpStats`, `dumpReqInfo`, monitor | several receivers per connection; the FINISH countdown; vectors dumped without their lock; a server that dies | every client has the threads its barrier counts; the files hold exactly the measured requests; nobody waits for ever |
| **Helpers, messages** (`helpers.h`, `msgs.h`) | none | `sendfull`, `recvfull` | partial transfers | a frame is read as it was written |
| **Arrival process** (`dist.h`) | arrival time | `nextArrivalNs` | shared by threads under the lock | not modelled: statistics |
| **JNI** (`tbench_jni.cpp`) | none | forwards the API | none | not modelled |
| **moses thread pool** (`../moses/moses/ThreadPool.cpp`) | task queue, stop flags, warm-up counter | `Submit`, `Execute`, `Stop` | waits tested once; one condition variable for Submit and Stop; a counter without a lock | no task is lost or run twice; Stop and Submit return |
| **silo transactions** (`../silo/txn_impl.h`, `tuple.h`, `txn_proto2_impl.h`, `ticker.h`) | record headers, versions and chains, epochs, last tids | begin, read, lock, `gen_commit_tid`, validate, write, unlock, abort, snapshot, the ticker | no reader takes a lock; epochs advance under running commits | what commits is serializable, in the order of the epochs; locks do not deadlock |
| **other applications** | - | - | - | not modelled |

How they interact. In the integrated configuration one process holds one object
that is both server and client; application threads call `tBenchRecvReq` (which
is `startReq`) and `tBenchSendResp` (`finiReq`, then a count). In the networked
and loopback configurations client threads call `startReq` and send the request
on the client's connection; server workers share all the connections; responses
come back to receiver threads that call `finiReq`, and the server's two
broadcasts, ROI_BEGIN and FINISH, make receivers call `startRoi` and dump. A
measurement goes INIT -> WARMUP -> ROI; the server counts responses to decide
when (`warmupReqs`, `maxReqs`), the client stops sending after
`warmupReqs_client` requests until it is told that the ROI has begun. Behind
`tBenchRecvReq`, moses hands each request to a task of its thread pool, and each
worker of silo runs a transaction per request.

## Modules

| module | models | state and actions |
|---|---|---|
| `Measurement` | what a load generator promises (abstract) | phase, issued, pending, recorded; `BeginWarmup`, `Issue`, `Answer`, `BeginRoi` |
| `Client` | `client.cpp` for several Client objects and threads | one action per critical section of `lock` or `m`, per barrier call and per unlocked read; `pc[t]` is the place of thread t in `startReq` |
| `Integrated` | `tbench_server_integrated.cpp`, composed with `Client` by EXTENDS | each application thread runs ThreadStart, then `RecvReq`/`RecvReqReturn`, `SendRespFini`, `SendRespCount` for ever |
| `NetServer` | `tbench_server_networked.cpp` | workers step through `recvReq` and `sendResp`; clients send headers and bodies and leave |
| `ServerContract` | what the networked server promises its clients (abstract) | asked, toClient; `Ask`, `Answer`, `Announce` |
| `NetClient` | the client process, composed with `Client` by EXTENDS and with any server that keeps `ServerContract` by INSTANCE | a sender and a receiver per thread, the monitor, the server's side; `rpc[t]` is the place of receiver t |
| `ThreadMap` | the thread partition in `main()` of `tbench_client_networked.cpp` | the three loops of `main`, for all values of the two environment variables |
| `ThreadPool` | `moses/ThreadPool.cpp` | workers in `Execute`, callers in `Submit` and `Stop` |
| `SiloTxn` | silo's commit protocol and epochs | one action per access to a record that other cores write |
| `ClientProofs` | theorems about `Client`: types, start-up, gate, overshoot, ids, assertions, that it implements `Measurement` | |
| `NetClientProofs` | theorems about `NetClient`: types, what is measured and dumped, assertions, that nobody waits for ever | |
| `IntegratedProofs` | theorems about `Integrated`: own requests, assertions, the dump, that it implements `Measurement` | |
| `NetServerProofs` | theorems about `NetServer`: types, periods that do not end early, bounded passing-over | |
| `NetServerRefinement` | theorems about `NetServer`: routing, framing, that it implements `ServerContract` | |
| `ThreadPoolProofs` | theorems about `ThreadPool`: types, that Stop runs the queue, that no worker sleeps through a notification | |
| `SiloProofs` | theorems about `SiloTxn`: the write locks, serializability, epochs and snapshots, the type invariant | |
| `ThreadMapProofs` | theorems about `ThreadMap` | |
| `MCClient`, `MCIntegrated`, `MCNetServer`, `MCNetClient`, `MCThreadPool`, `MCSiloTxn` | instances for TLC | |

Operators whose name extends that of the definition after them
(`ReqIdOfOneClient`, `CheckStartedExactly`, `RecvHdrUnlocks`, ...), and those next to
a definition that their comment calls a mutation, are deliberate mistakes. No specification uses them: `PROJECT.json` pairs each property with one,
and the property must fail when it takes its neighbour's place. They show that
the properties can fail.

What the models abstract from: contents, lengths and times of requests and
responses; the latency arithmetic (a sample is the id of its request); memory
management; failing system calls other than on a connection that was closed;
the number of spurious wake-ups. The pacing sleep of `startReq` is a step of
unbounded duration.

### Client and Measurement

Line 121 of `client.cpp` is two unlocked reads, so it is two actions
(`CheckStatus`, `CheckStarted`), as is line 102 (`StartReq`). `startRoi` changes
the status under `lock` and sets `ready` under `m`; between the two,
`publishing[c]` holds. `FiniReq` aborts the process when the id is not found and
`EnterRoi` when the status is not WARMUP, as the assertions do, so
`NoAssertFails` says that they hold. A sample of the code is a set of vector
entries; since an id is answered at most once a set of ids is enough.

In `ClientSpec` the environment answers a request at most once, after
`startReq` returned it, and calls `startRoi` at most once per client, after that
client sent something. The composed configurations must establish this:
`Integrated` does for itself, and so do the connections of `NetClient` but for
the second part: the networked server may begin the ROI twice (see Findings).

`ImplementsMeasurement` is the refinement: phase is `status`, pending is
`inFlightReqs`, recorded is `samples`, and issued is the set of ids below each
client's `startedReqs`.

### Integrated

`wpc[t]` is where application thread t is between the API calls, `pc[t]` where
it is inside `startReq`. The exit is `syscall(SYS_exit_group, 0)` with the lock
held: `proc` becomes "exited" and no action is enabled. `maxReqs` is positive:
with TBENCH_MAXREQS unset both tests of `sendResp` compare with the same number
and the run has no end.

### NetServer

`recvLock`'s critical section reads a socket twice and may block in it, so it is
several steps; `sendLock`'s is one. `clientFds` and `finishedReqs` are accessed
without a lock while other threads change them. The model has the accesses of
the code that `-O3` (the Makefile's flag) produces: the bounds of a loop over
`clientFds` are loaded once; `finishedReqs` is loaded, incremented in a register
that both tests use, and stored. `fdBuf` is the vector's buffer, so a loop that
runs past an `erase` reads what `erase` left there. A connection that is at end
of file before the first byte of a header or a body removes the client, as
`checkRecv` does with a `recvfull` of 0; one cut in the middle ends the process.

### ServerContract and NetClient

Clients and server meet in `ServerContract`: a request is answered at most once,
on its connection and after it was asked; frames on a connection keep their
order; ROI_BEGIN and FINISH come no earlier than as many responses as the period
they close has. `NetServer` implements it (`ImplementsContract`, checked with
`asked` as the requests sent whole), and `NetClient` is built on it, so what
holds there holds for the client process at the other end of `NetServer`. The
composition has to be made in two halves: the product of the two state spaces is
out of TLC's reach. What the contract leaves out is what the race on
`finishedReqs` takes away: an announcement may be made twice, or never, or not on
every connection.

In `NetClient` a receiver takes a frame whole, in one step: whoever holds
`recvLock` is the only one to read the socket. `RecvFail` returns with the lock
held (`recvLeaked`), as lines 310 and 318 of `client.cpp` do. `finiReq`
of a response that is measured appends to eight vectors, one after the other,
under `lock`. The dumps do not take that lock, and they look at three of them as
bounds: `dumpStats` at `sjrnTimes`, `dumpReqInfo` at `startTimes`, which is pushed
before it, and then at all, of which `tids` is pushed last. So `finiReq` is three
steps, up to the push onto `startTimes` (`PushStart`), up to those onto `sjrnTimes`
and `tmpSjrnTimes` (`PushSjrn`), and the last (`PushTids`); between them the lock
is held (`LockFree`). `StartTimes`, `SjrnTimes` and `Tids` are what is in the three
vectors. `BeginStats`, `EndStats` and `EndInfo` are the section under
`lock_live_clients`: each loop reads its vector's size (`size`), and then the
elements. A vector that grew meanwhile may have moved, and one that is behind the
one counted (`torn`) has no element where the loop reads: the file gets the
entries all the same (`intact`), or other bytes, or the process dies (`DumpFault`). `mon` is
`main()` after it has created the threads; its second loop ends when fewer than
two latencies came in an interval. A server that dies (`Die`) closes the
connections: senders fail, or are killed by SIGPIPE. The joins of `main()` come
after that and are left out.

### ThreadPool

A step is a critical section of `m_mutex`, a notification, or an unlocked access
to `m_stopped` or `m_numWarmedUpThreads`. A waiting thread that is notified, or
woken by nobody, takes `m_mutex` again in a step of its own, and a worker then
goes on whatever it finds (line 53 tests once). `m_numWarmedUpThreads` is loaded
and stored in two steps; nothing waits for its value. `Stoppers` has one caller:
in the repository one thread stops the pool. That thread, `main` of
`moses-cmd/Main.cpp`, is also the only one that submits, and it sets no limit of
the queue; the model has the class and not only this caller, so `Submit`s that
wait for room, which that program never has, are in it. With two stoppers, a `Stop(true)` that waits
for the queue is not woken by the one that sets `m_stopped`. A `Submit` that
waited for room when Stop began may leave its task unrun, since the flag is
tested before the wait only; `accepted` leaves these tasks out.

### SiloTxn

`hdr[t]` is the header word of a record, with the version counter in it;
`version`, `value` and `next` are the rest, and `value[t]` names the transaction
that wrote the bytes, so that a reader who mixes two states of a record shows. A
transaction reads (`ReadHeader` .. `ReadCheck`, the loop of a stable read), locks
its write set in the order of the addresses, generates a tid from the epoch it
reads then, checks its reads, writes and unlocks. A commit that finds a read
overwritten or another's intent to write gives its locks back and ends; its
retry is another transaction. A snapshot reads the newest version of an epoch
that every core has left, whole groups of `ReadOnlyEpochMultiplier` epochs at a time;
the database is loaded in the first epoch and a run starts when snapshots see it
(`FirstTick`, `wait_an_epoch`). The ticker visits the cores in order (`Visited`) and
waits for each that is in an older transaction. `installed` and `decided` are history
variables: the writers of each record in order, and the transactions that will
commit.

Left out: inserts and deletes with the absent set and node versions, the
replacement of a record that outgrows its buffer, reads of the transaction's own
writes, garbage collection and the log. A program's writes name each record once
(`WriteSetAssumption`; no proof uses it): when a transaction puts a record several
times, commit skips all its entries but the last (`do_write()`, `txn_impl.h:395`). Entering a transaction, which reads the
epoch and stores it under the core's ticker lock, is one step.

### ThreadMap

`NumThread` and `ClientOfThread` are the two formulas with C's integer division
(the operands are never negative). A client whose barrier count differs from the
number of its senders deadlocks in `startReq`, or lets a thread run ahead.

## Runs

All but one run with CHECK_DEADLOCK FALSE, because these systems stop: a run
exits, a bounded load generator has sent everything, clients leave, a pool that
nobody calls sleeps. `silo_txn` checks for deadlock; its `Finished` is the state
in which every core has run its transactions.

| run | instance | what it shows |
|---|---|---|
| `client` | clients 0 (2 threads) and 1 (1 thread), one warm-up request, at most 2 requests per client | the start-up protocol, the gate, unique ids, no lost wake-up; the client implements Measurement; a thread at the gate gets through once the ROI begins |
| `integrated` | 3 threads, 1 warm-up and 3 measured requests | threads answer their own requests, the dump is complete up to the threads in flight, the run ends, and by `exit_group`, not by an assertion |
| `integrated_gate` | 2 threads | VIOLATION: the gate is never opened on the integrated server |
| `thread_map` | up to 12 threads and 14 clients, all combinations | both formulas agree |
| `net_server` | 2 workers, 2 connections, 1 warm-up and 1 measured request, up to 3 requests, clients leave at any time | routing, framing, bounded passing-over, periods that do not end early |
| `net_server_live` | one request per client, clients leave after FINISH | a waiting request is served; what the clients see is `ServerContract` |
| `net_server_roi` | same | VIOLATION: two ROI_BEGINs |
| `net_server_exit` | same | VIOLATION: division by zero when the clients leave |
| `net_client` | 2 clients of one thread each, 1 warm-up and 1 measured request, FINISH up to twice per connection, the server may die | the files hold exactly the ROI and are complete; assertions fail only by ROI_BEGIN; nobody waits for ever |
| `net_client_shared` | 1 client of 2 threads, 2 requests, each announcement once | receivers that share a connection lose nothing; what two files agree on when one receiver dumps and the other appends; the monitor's account; the run ends |
| `thread_pool` | 2 workers, 2 callers of which one may stop, 3 tasks, a queue of 1 | no task lost, run twice or slept through; Stop and Submit return |
| `silo_txn` | 3 cores with a transaction each, 2 records, 2 epochs after the first | serializability, epochs and snapshots, no circle of locks |

Bounds. `MaxStarted` cuts off a client that would send for ever; in `integrated`
it is `WarmupReqs + MaxReqs + nthreads`, which no run exceeds (every thread has
at most one request outstanding), so there it cuts nothing off. Two threads of a
client are enough for one to overtake the other at each of the barriers and at
the gate, and a second client for ids to collide. The gate is passed
before a request is counted, so `WarmupOvershoot` counts the requests started and
the threads that are past the gate to start one: with a quota of 1 and two
threads the code reaches 2, with both threads past the gate, and never 3, which two
requests per client suffice to tell (`CheckStartedExactly`, which closes the gate at
the quota and not above, reaches 3 with one thread past it and two requests
started; only the client with two threads can). Two workers and two connections give
every race of the server: on the counter, on the head, on a readable connection
and on `clientFds`; the workers are symmetric (and the run has no temporal
property, so the symmetry is sound). In `net_client` each client's quota of one request
makes up the server's warm-up, one request is left for the ROI, and a second
FINISH is what the race on the counter can send; `net_client_shared` has two
requests (answered on either side of ROI_BEGIN, or both after it) and two
receivers to swap them: one of them can be anywhere in `finiReq` while the other
dumps. What a second ROI_BEGIN does (`AbortsOnlyByRoiBegin`) is left to the proof
(a second one on a connection fails the assertion whatever comes before it). In `thread_pool` three tasks and a queue of one
make both callers wait for room while Stop drains the queue. In `silo_txn` one
core reads the first record and writes the second, or both; another the reverse;
the third reads both, as a transaction or as a snapshot: the conflicts between
two writers (in both orders of puts) and a reader, with an epoch that changes at
any moment. `ReadOnlyEpochMultiplier` is 1 (25 in the source), so that snapshots
fall between all epochs of so short a run (larger groups of epochs, and the later
start that goes with them, are left to the proofs), and tids have 8 cores and 8 numbers
per epoch, of which the run uses few (`SiloTypeOK` says that they never overflow).

The proofs (below) remove the bounds from the safety properties of the client, the
integrated and the networked server, the thread partition and the thread pool,
from the two refinements of the servers' sides, from the safety of the client
process, and from everything that is checked of silo.

Fairness. Weak fairness of every thread that is inside the harness: critical
sections are finite and the operating system schedules every thread. In `Client`
nobody is obliged to call `startReq`, to answer a request or to begin the ROI; in
`Integrated` application threads do call the harness again, as all the
applications' loops do. In `NetServer` a client that has sent a header sends
the body (one `sendfull`), and none is obliged to send a request; a worker that
waits in `select` or `recvfull` for data that never comes stays there, which is
why `ServedUnlessBlocked` has its premise. In `NetClient` threads run, and a
server that lives answers what it was asked and announces a period's end that is
due on each connection; that the real one may lose count is its own hazard, and
without the assumption no run has an end. In `ThreadPool` workers and callers
that are inside the pool run; nobody has to call `Submit` or `Stop`, and spurious
wake-ups need not happen. `SiloTxn` states no liveness (a reader may start again
as often as writers come), so it assumes no fairness.

## Findings

1. *The integrated server never opens the gate* (`integrated_gate`).
   `sendResp` calls `_startRoi` (`tbench_server_integrated.cpp:79`), which does
   not set `ready`; only `startRoi` does. Threads that have reached the gate by
   then do not take part in the measurement. The run still ends (`Terminates`):
   the thread that ends the warm-up is never at the gate.
2. *Two ROI_BEGINs* (`net_server_roi`). `++finishedReqs`
   (`tbench_server_networked.cpp:265`) is a data race; two workers can both find
   the count equal to `warmupReqs`. The client asserts that it is told only once.
   What does hold in spite of the race is `NotEarly`.
3. *Division by zero at the end of a run* (`net_server_exit`). A worker past
   `select` takes `recvClientHead % clientFds.size()` after another one removed
   the last client.

## Proofs

`tlapm` checks every proof in `ClientProofs`, `NetClientProofs`,
`IntegratedProofs`, `NetServerProofs`, `NetServerRefinement`, `ThreadMapProofs`,
`ThreadPoolProofs` and `SiloProofs`. They hold for every value of the constants
under the named assumptions of the modules: of `Client` (at least one client;
finitely many threads; every client has a thread, which is what `WithinClients`
and `BarrierCountsSenders` say when there are at least as many threads as
clients), of `Integrated` (one client, a positive `MaxReqs`), of `NetServer`
(finitely many workers, at least one connection), of `NetClient` (periods and
bounds are numbers), of `ThreadMap` (positive
bounds), of `ThreadPool` (finitely many workers and tasks, at least one worker)
and of `SiloTxn` (finitely many cores and records, records ordered by their
addresses, snapshots that write nothing, epochs enough to start in, and, for all but
its locks and `CommitsAreSerializable`, fewer transactions in a run than an id's field
has numbers). In particular `MaxStarted`, `MaxSent`,
`MaxTxns` and `MaxTick` are arbitrary, so the bounds of the runs play no part.

`ClientProofs`:

- `TypeCorrect`. `ClientTypeOK` is inductive by itself.
- `ThreadsStartTogether`. `StartTogether` alone is not inductive: that a barrier
  opens for all threads at once needs to be known of each phase. `StartInv` says,
  client by client, which threads are between the barriers and in which of them
  the waiting ones are; with `FullBarrier` (a set of arrivals as large as the set
  of threads is that set) it is preserved by every step.
- `WakeupIsNotLost`. `GateInv` adds what makes the gate work: the status is ROI
  exactly when `ready` is set or `startRoi` is about to set it, and who waits on
  the condition variable waits for a `ready` that is not set.
- `OvershootIsBounded`. A thread that read both values before the quota was
  reached goes on whatever happens, so the bound is on `startedReqs` plus the
  threads that have passed the gate and not generated yet (`OvershootInv`).
- The arithmetic: `startedReqs * nclients + id` is injective in both arguments
  (`ReqIdInjective`), so a new id is new to every client (`NextIdIsNew`).
- `AssertionsHold`, `OwedIsInFlight`. `IdInv` says that the ids a thread holds
  (owed or about to be returned) are in flight at its client, that no two threads
  hold the same one, and that ids in flight lie below the client's counter. Hence
  `finiReq` always finds its request.
- `ClientImplementsMeasurement`. Initial states map to initial states
  (`NothingSeen`), each step that changes what `Measurement` sees maps to a step
  (`BeginWarmupSimulated`, `IssueSimulated`, `AnswerSimulated`,
  `BeginRoiSimulated`), the others to a stutter.

`IntegratedProofs`: the server is an environment as `ClientSpec` assumes it
(`ClientSteps`, `WarmupEnds`), so the client's invariants and its refinement carry
over, step by step; the one step that is not the client's own is the call of
`_startRoi` from inside `sendResp`.

- `ThreadsAnswerTheirOwn`. tids are distinct because `curTid` counts the started
  threads (`TidInv`); a thread owes exactly the request in its entry of `reqInfo`
  while it serves it (`OwnRequest`).
- `IntegratedAssertionsHold`. The phase follows the count (`PhaseInv`), so the count
  that equals `warmupReqs` finds the client in its warm-up.
- `DumpIsTheMeasurement`. `SampleInv` is the account: every sample is counted after
  it was taken, and only threads that stood between the two sections of `sendResp`
  when the ROI began count a request of the warm-up in the ROI. One thread, the
  one that began it, did not, hence fewer than nthreads. The theorem supposes a
  warm-up: with TBENCH_WARMUPREQS at its default of 0 (`server.h:49`) the counter
  is never equal to `warmupReqs` after its increment and the ROI never begins. The
  client's default for the same variable is 1000 (`client.cpp:70`): with
  TBENCH_MAXREQS up to 1000 the run ends with an empty dump, and with one that
  exceeds what the threads start before they all stop at the gate (1000 requests
  and fewer than one more per thread) it never ends.

`NetServerProofs`:

- `TypeCorrect`. `TypeOK` needs `PlaceInv`: an iterator inside a loop over
  `clientFds` stays within the buffer although other workers erase from it, and a
  worker that reads from a connection has one and finds `clientFds` not empty,
  because only the holder of `recvLock` removes from it.
- `PeriodsNotEarly`. `NotEarly` says nothing of the counter, so its invariant
  does: the counter, and each value read from it and not stored yet, leave room
  for the responses that other workers have sent and not counted
  (`CountersFit`: `finishedReqs`, or a register, plus the number of uncounted
  responses is at most the number of responses). A store keeps it because the
  storing worker's own response stops being uncounted. Lost counts only make the
  counter smaller. From it, a worker that finds `n = warmupReqs` knows that so
  many responses went out (`BroadcastsFit`).
- `NobodyIsPassedOver`. Who is i places from the head has i picks to wait at most:
  `SkipInv` bounds what it has been passed over already, plus i, by `Budget(n)` with
  n connections left. A pick moves the head by one place and so takes one from i
  (`HeadMoves`, and `FullRound` for the one that was served). When a client leaves,
  the erase moves connections while the head keeps its value, the places are dealt
  anew, and the budget grows by the lost round. Two connections cannot show this:
  they never lose a round that matters. An instance with three (1 worker, 617,015
  states, not one of the runs) refutes the simpler bound "less than one round".

`NetClientProofs`. `NetInv` has a part for each thing that one thread hands to
another. The client's own invariants (`ClientOK`, from `ClientProofs`) are one of
them: the senders' steps and `finiReq` are steps of `Client`, and `startRoi` is
one as long as the client is in its warm-up.

- `AssertionsFailOnlyByRoiBegin`. A response is to a request that was asked, one to
  each (`StreamInv`); it is in the hands of one receiver, or was handled
  (`HeldInv`); and what a receiver holds is in flight (`AnswerInv`,
  `InFlightInv`): `finiReq` finds it. If ROI_BEGIN was sent once, the receiver that
  has it is the only one and the status is not ROI yet (`RoiInv`).
- `ReceiversShareConnection`. `EarlyInv` counts what came before the ROI and is
  measured, or held, in the ROI: the receiver that began the ROI held none of it,
  and each of the others one at most.
- `DumpsMeasureRoi`. With one receiver the samples are a function of how far it has
  handled the connection (`SoloInv`), and the dump of the place of FINISH; nobody
  appends while it dumps, so the dump is not damaged. With more this is false,
  which is why the property speaks of one.
- `FilesAreComplete`. `FileInv` relates the two files, `live_clients` and who holds
  its lock; `FinishInv` says that a client whose FINISH was sent once is dumped
  once. NClients entries of distinct clients are an entry for each. That the two
  dumps of a client with one receiver are equal, and whole, is `SoloFiles`: its
  receiver is not in `finiReq` when it dumps, so no vector is behind another one.
- `FilesOfSharedConnectionsAgree` is about the others. Their two dumps need not be
  equal, and either may be damaged. What is left comes from the order of the pushes
  and of the dumps: what `dumpStats` counts in `sjrnTimes` is in `startTimes` when
  `dumpReqInfo` counts it (`FileInv`). `TornInv` bounds the damage: the second loop
  alone can count an entry that is not there, and a first dump that was damaged
  lacks a response, the one whose push moved the vector.
- `MonitorCountsOnce`. `MonInv`: `num_start_roi` counts the clients in the ROI whose
  receiver is past the handler, so the monitor starts when all of them are.
- `NobodyWaitsForever`. `ProgressInv` adds what keeps a run going: a barrier never
  holds all its threads, who waits at the gate has sent the quota, and what was
  allocated was asked or is about to be. If everyone waited, every client would
  have sent its quota and all of it would be answered, so an announcement would be
  due. Here the quotas are the hypothesis, `QuotasSuffice`: the clients' add up to
  the server's warm-up, what they may send in all (`MaxStarted`) to both periods,
  and the client's warm-up is not empty. With TBENCH_WARMUPREQS at 0 every sender
  stops at the gate before its first request, and no one ever begins the ROI.

`NetServerRefinement` follows a request from the stream it arrives on, through
`reqbuf` and `reqInfo` of the worker that read it, to the response (`RouteInv`):

- `StreamsStayAligned`. What is in flight on a connection alternates headers and
  bodies, its first body is awaited by the holder of `recvLock`, and while a header
  waits for its body to be sent somebody does (`StreamInv`). That nobody else reads
  from the connection is `PlaceInv`.
- `ResponsesAreRouted`. A request is in the hands of one worker, came from the
  connection the worker will send to, is older than those of its connection that
  are still on the way, and is not answered yet (`RequestInv`).
- `ServerKeepsContract`. Initial states map to initial states; the body of a request
  is an `Ask`, `SendResp` an `Answer`, a frame of a broadcast an `Announce`
  (`AskSimulated`, `AnswerSimulated`, `AnnounceSimulated`), all other steps stutter.
  The contract counts the requests that were answered, the server the responses it
  sent: `AnswersAreResponses` is the bijection between them, so `NotEarly` gives the
  contract's guard on announcements.

`ThreadPoolProofs`: `PoolInv` says of each task that it is in one place: the queue,
the hands of a worker, the argument of a blocked `Submit`, or run (`QueueOnce`,
`TaskOnce`, `ArgOnce`), and of those submitted in time that they are somewhere
(`NotLost`). `StopOK` says that nobody sets `m_stopped` with such a task queued but
by `Stop(false)`; hence `StopRunsTheQueue`. The bound on the unsynchronised warm-up
counter (in `TypeCorrect`) needs the register of each worker (`WarmOK`): a count can
be lost, never invented. `NobodyOversleeps`, which
`WorkersAreNotified` states, is inductive with the rest: a worker decides to sleep in
the section in which it finds the queue empty and the pool not stopped, a push and
its notification are one section, and between the store of `m_stopped` and its
notification there is a Stop that is about to notify.

`SiloProofs`: `LockInv` says that the header's bit and the holders agree, that there
is one holder, and that the locks of a core are an initial segment of its write
set in the order of the addresses. A circle of waiting cores would have one whose
awaited record is the greatest (`Greatest`); whoever holds that record waits for a
greater one (`OrderedLocksHaveNoCycle`). `LocksAreExclusive` is the lemma that the
commit protocol rests on; it has no run of its own.

Serializability is proved from `SerialInv`, which has two parts. `CommitInv` is about
the state of the program: a header that is not being modified and has the counter
that a reader saw guards the version and the value it saw (`SeenOK`), so a read is of
a version that was the newest, and still is if its tid is (`ReadOK`); a core that is
past taking its tid writes versions newer than those it overwrites (`NewerOK`). The
second part says that there is an order: a rank for each transaction that has taken
its tid or is decided, such that the writers of a record wrote in the order of their
ranks, the holder of its lock last (`WritersInOrder`), a transaction read from
transactions of lesser rank (`ReadsFollow`), and whoever overwrote, or has locked in
order to overwrite, what it has validated is of greater rank (`OverwritesFollow`). The
invariant has to say this of transactions that are still validating: at the moment of
the decision nothing is known of what happened between the checks of two reads. A
transaction gets its rank, above all others, when it has all its locks and starts
to validate (`RankEnters`); the later steps of any core keep the ranks (`RankChecks`,
`RankValidated`, `RankStores`). The rank is not the tid, since a transaction that
writes nothing takes none. The ids matter only because one that outgrew its field would give two versions of a record the same tid or swap
them: `CommitsAreSerializable` has that as its hypothesis, `[]TidsFit`, and
`NumbersLast` proves it under `TidAssumption`, by counting the transactions that have
been given a number (`Numbered`, `NumbersOK`); `CommittedInSomeOrder` is the two together.

`SiloTypeCorrect` needs `CommitInv`, the count of the numbers, the ticker's protocol
(`TickerOK`: it opens an epoch only when every core is in the one before), and
`ChainOK`: the chain of older versions decreases strictly and lies below the record's version, but
for the copy of that version which a writer puts there before it overwrites it.

`EpochsInOrder` adds the epochs and the snapshots to the serial order. `EpochInv` says
what makes a snapshot right. A bound that a snapshot may take (`Bounds`) does not cut
an epoch, and is below every tid of an epoch that is not over (`BoundFacts`,
`BoundsArePast`). A committer's epoch is one that its core has entered (`GuardOK`), so the
ticker cannot declare it over before the core has left: every version written from
now on is past every bound taken so far. `ReadsAt(t, v, b)` says that the writers of t
with tids up to b are those up to v. It holds of what a snapshot has read and of what
it has loaded if the header still says so (`SnapshotOK`, `LoadedOK`), and of an entry
of the chain for every bound, taken or not, that the record itself is past (`OldOK`);
no later write takes it away (`BoundReadsStay`). The step that needs all of it is the
overwrite of a record: a bound between the old version and the new one separates
their epochs, so `can_overwrite_record_tid` was false and the writer has put a copy
of the old version at the head of the chain (`CopyOK`). The ranks of the serial order
are those of `SerialInv`, of which `EpochsRise` says more: epochs do not fall along
them, because a transaction gets its rank in the step in which it reads the epoch,
above all others, and no epoch is newer than that. A snapshot comes after a writer
when the writer's tid is within its bound, and before it otherwise
(`SerialPrecedesSnapshot`, `SnapshotPrecedesSerial`). `NoCircle` puts the two together:
a writer before a snapshot that is before another writer has the lesser rank, since
its epoch is older. So a set of transactions has one that none of the others precedes:
a snapshot that precedes the serial one of least rank, or that one.

`ThreadMapProofs`: `LoopInvariant` says that the vectors filled so far hold the
values of the formulas. The threads given to client c are the integers of an
interval (`ClientOfInterval`, `GivenInterval`), whose length is the other formula
(`NumThreadValue`, `IntervalSize`): this is the arithmetic fact behind the two
theorems, proved from the defining property of integer division.

Only model-checked: liveness (`GateOpens`, `Terminates`, `ServedUnlessBlocked`, `RunEnds`, `StopReturns`, `SubmitReturns`), which needs
ENABLED and fairness, out of this prover's reach. Every invariant that a passing run
checks is proved.
No definition is recursive, so nothing here needs induction over data.

## What the runs say about configurations

- `NeverStuck` holds when the clients' quotas add up to the server's warm-up, as
  the constants of the run do. The scripts `run_networked.sh` of img-dnn (5000),
  masstree (14000), shore (10000) and silo (20000) set TBENCH_WARMUPREQS for the
  server only, while the client's default is 1000 (`client.cpp:70`): every client
  then stops at its gate before the warm-up is over.
- A lost update of `finishedReqs` (`tbench_server_networked.cpp:265`) close to the
  end of a warm-up whose quotas match exactly has the same effect: no request
  comes any more, and ROI_BEGIN never does.
- `AbortsOnlyByRoiBegin`: besides a second ROI_BEGIN, the assertion of
  `client.cpp:179` fails for a client that has not left its start-up barrier when
  the other clients' requests end the warm-up.

## Not modelled, and the plan

In the order of importance:

1. silo beyond single records: inserts and deletes, node versions, the garbage
   collection of old versions by epoch, the log's persistence.
2. Smaller algorithms of the harness: `Framing` (partial transfers against whole
   messages), `LatsFile` (what is written against what `utilities/parselats.py`
   reads), `Timing` (64-bit differences of clocks).
3. Proofs: what the first two items add.

Never modelled: the other applications' own logic, which makes up most of the
repository's lines (a storage manager, a search engine, a speech recogniser, a
translator, a key-value store, a Java benchmark, vendored whole with a few calls
to the harness); `dist.h` (statistics), the JNI binding (stateless), scripts and
Docker files (they set the constants).
