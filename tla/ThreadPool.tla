----------------------------- MODULE ThreadPool -----------------------------
(***************************************************************************)
(* The thread pool of moses (moses/ThreadPool.{h,cpp}), which runs the     *)
(* harness's worker threads in the moses server: each task is one          *)
(* tBenchRecvReq and tBenchSendResp.  Callers submit tasks and stop the    *)
(* pool, in any order the class allows.  moses-cmd/Main.cpp submits and    *)
(* stops from one thread and sets no limit: there no Submit ever blocks.   *)
(*                                                                         *)
(* A step is a critical section of m_mutex, a notification, or one         *)
(* unlocked access to m_stopped or m_numWarmedUpThreads.                   *)
(*                                                                         *)
(* wpc[w], where worker w is in Execute:                                   *)
(*   find           about to take m_mutex and look for a task              *)
(*   wait, woken    in m_threadNeeded.wait / notified, to take m_mutex     *)
(*   run            has a task                                             *)
(*   notify         about to notify m_threadAvailable                      *)
(*   load, store    ++m_numWarmedUpThreads, once per worker                *)
(*   test           about to read m_stopped; exit: returned                *)
(* cpc[c], where caller c is:                                              *)
(*   idle, returned, threw                                                 *)
(*   full, submit   in Submit, blocked in m_threadAvailable.wait / woken   *)
(*   drain, drainw  at the test of line 99 / blocked in the wait           *)
(*   mark, tell, join   lines 105-106, 108, 110                            *)
(***************************************************************************)
EXTENDS Integers, Sequences, FiniteSets

CONSTANTS Workers, Callers,
          Stoppers,     \* the callers that may call Stop
          Tasks,        \* the tasks that can be submitted
          NoTask,
          QueueLimit    \* m_queueLimit, 0 for none

ASSUME PoolAssumption ==
  /\ IsFiniteSet(Workers) /\ Workers # {} /\ IsFiniteSet(Tasks)
  /\ NoTask \notin Tasks /\ QueueLimit \in Nat /\ Stoppers \subseteq Callers

VARIABLES m_tasks, m_stopped, m_stopping, m_numWarmedUpThreads,
          wpc, task,     \* [Workers -> Tasks \cup {NoTask}], the local variable
          reg,           \* [Workers -> Nat], the counter's register
          m_isWarmedUp,  \* [Workers -> BOOLEAN], thread-specific
          cpc, arg,      \* [Callers -> Tasks \cup {NoTask}], Submit's argument
          flush,         \* [Callers -> BOOLEAN], processRemainingJobs
          ran,           \* history: the tasks run, in the order they began
          accepted,      \* history: the tasks submitted before m_stopping
          unflushed      \* history: a Stop(false) set m_stopped

poolVars == <<m_tasks, m_stopped, m_stopping>>
workerVars == <<wpc, task, reg, m_isWarmedUp, m_numWarmedUpThreads>>
callerVars == <<cpc, arg, flush>>
history == <<ran, accepted, unflushed>>
vars == <<poolVars, workerVars, callerVars, history>>

Init ==
  /\ m_tasks = <<>> /\ m_stopped = FALSE /\ m_stopping = FALSE
  /\ m_numWarmedUpThreads = 0
  /\ wpc = [w \in Workers |-> "find"] /\ task = [w \in Workers |-> NoTask]
  /\ reg = [w \in Workers |-> 0]
  /\ m_isWarmedUp = [w \in Workers |-> FALSE]
  /\ cpc = [c \in Callers |-> "idle"] /\ arg = [c \in Callers |-> NoTask]
  /\ flush = [c \in Callers |-> FALSE]
  /\ ran = <<>> /\ accepted = {} /\ unflushed = FALSE

-----------------------------------------------------------------------------
(* The condition variables: whoever is notified takes m_mutex later.       *)

\* m_threadNeeded.notify_all; and notify_one, and no notification.
NeededNobody(pcs) == pcs
NeededOne(pcs) ==
  LET waiting == {w \in Workers : pcs[w] = "wait"}
  IN IF waiting = {} THEN pcs
     ELSE [pcs EXCEPT ![CHOOSE w \in waiting : TRUE] = "woken"]
Needed(pcs) == [w \in Workers |-> IF pcs[w] = "wait" THEN "woken" ELSE pcs[w]]

\* m_threadAvailable.notify_all: both loops test their conditions again.  If the
\* two waits were on different variables, it would reach one of them only.
AvailableToStop(pcs) ==
  [c \in Callers |-> IF pcs[c] = "drainw" THEN "drain" ELSE pcs[c]]
Available(pcs) ==
  [c \in Callers |-> CASE pcs[c] = "full" -> "submit"
                       [] pcs[c] = "drainw" -> "drain"
                       [] OTHER -> pcs[c]]

-----------------------------------------------------------------------------
(* Execute *)

WGoto(w, from, to) == wpc[w] = from /\ wpc' = [wpc EXCEPT ![w] = to]

\* Lines 55-58, whether w waited or not.
TakeTask(w) ==
  IF ~m_stopped /\ m_tasks # <<>>
  THEN /\ task' = [task EXCEPT ![w] = Head(m_tasks)]
       /\ m_tasks' = Tail(m_tasks)
       /\ wpc' = [wpc EXCEPT ![w] = "run"]
  ELSE wpc' = [wpc EXCEPT ![w] = "notify"] /\ UNCHANGED <<task, m_tasks>>

Find(w) ==
  /\ wpc[w] = "find"
  /\ IF m_tasks = <<>> /\ ~m_stopped
     THEN wpc' = [wpc EXCEPT ![w] = "wait"] /\ UNCHANGED <<task, m_tasks>>
     ELSE TakeTask(w)
  /\ UNCHANGED <<m_stopped, m_stopping, reg, m_isWarmedUp,
                 m_numWarmedUpThreads, callerVars, history>>

\* The wait is not in a loop: w goes on whatever it finds.
Resume(w) ==
  /\ wpc[w] = "woken"
  /\ TakeTask(w)
  /\ UNCHANGED <<m_stopped, m_stopping, reg, m_isWarmedUp,
                 m_numWarmedUpThreads, callerVars, history>>

\* A wake-up that nobody sent.
Spurious(w) ==
  /\ WGoto(w, "wait", "woken")
  /\ UNCHANGED <<poolVars, task, reg, m_isWarmedUp, m_numWarmedUpThreads,
                 callerVars, history>>

Run(w) ==
  /\ WGoto(w, "run", "notify")
  /\ ran' = Append(ran, task[w])
  /\ task' = [task EXCEPT ![w] = NoTask]
  /\ UNCHANGED <<poolVars, reg, m_isWarmedUp, m_numWarmedUpThreads, callerVars,
                 accepted, unflushed>>

NotifyAvailable(w) ==
  /\ WGoto(w, "notify", IF m_isWarmedUp[w] THEN "test" ELSE "load")
  /\ cpc' = Available(cpc)
  /\ UNCHANGED <<poolVars, task, reg, m_isWarmedUp, m_numWarmedUpThreads, arg,
                 flush, history>>

LoadWarm(w) ==
  /\ WGoto(w, "load", "store")
  /\ reg' = [reg EXCEPT ![w] = m_numWarmedUpThreads]
  /\ UNCHANGED <<poolVars, task, m_isWarmedUp, m_numWarmedUpThreads,
                 callerVars, history>>

StoreWarm(w) ==
  /\ WGoto(w, "store", "test")
  /\ m_numWarmedUpThreads' = reg[w] + 1
  /\ reg' = [reg EXCEPT ![w] = 0]
  /\ m_isWarmedUp' = [m_isWarmedUp EXCEPT ![w] = TRUE]
  /\ UNCHANGED <<poolVars, task, callerVars, history>>

TestStopped(w) ==
  /\ WGoto(w, "test", IF m_stopped THEN "exit" ELSE "find")
  /\ UNCHANGED <<poolVars, task, reg, m_isWarmedUp, m_numWarmedUpThreads,
                 callerVars, history>>

-----------------------------------------------------------------------------
(* Submit *)

CGoto(c, from, to) == cpc[c] = from /\ cpc' = [cpc EXCEPT ![c] = to]

Submitted == {arg[c] : c \in Callers} \cup {m_tasks[i] : i \in DOMAIN m_tasks}
             \cup {ran[i] : i \in DOMAIN ran} \cup {task[w] : w \in Workers}

\* Whether the queue has room, and one place too many.
RoomForOneMore == QueueLimit = 0 \/ Len(m_tasks) <= QueueLimit
Room == QueueLimit = 0 \/ Len(m_tasks) < QueueLimit

\* Lines 81-85.
PushOrWait(c, t) ==
  IF Room
  THEN /\ m_tasks' = Append(m_tasks, t)
       /\ wpc' = Needed(wpc)
       /\ accepted' = IF m_stopping THEN accepted ELSE accepted \cup {t}
       /\ arg' = [arg EXCEPT ![c] = NoTask]
       /\ cpc' = [cpc EXCEPT ![c] = "returned"]
  ELSE /\ cpc' = [cpc EXCEPT ![c] = "full"]
       /\ arg' = [arg EXCEPT ![c] = t]
       /\ UNCHANGED <<m_tasks, wpc, accepted>>

\* m_stopping is tested once, before a Submit that finds the queue full waits.
CallSubmit(c, t) ==
  /\ cpc[c] \in {"idle", "returned"} /\ t \notin Submitted
  /\ IF m_stopping
     THEN /\ cpc' = [cpc EXCEPT ![c] = "threw"]
          /\ UNCHANGED <<m_tasks, wpc, accepted, arg>>
     ELSE PushOrWait(c, t)
  /\ UNCHANGED <<m_stopped, m_stopping, task, reg, m_isWarmedUp,
                 m_numWarmedUpThreads, flush, ran, unflushed>>

ResumeSubmit(c) ==
  /\ cpc[c] = "submit"
  /\ PushOrWait(c, arg[c])
  /\ UNCHANGED <<m_stopped, m_stopping, task, reg, m_isWarmedUp,
                 m_numWarmedUpThreads, flush, ran, unflushed>>

-----------------------------------------------------------------------------
(* Stop *)

\* Lines 92-94; a pool that has stopped is left alone.
CallStop(c, processRemainingJobs) ==
  /\ c \in Stoppers /\ cpc[c] \in {"idle", "returned"}
  /\ IF m_stopped
     THEN /\ cpc' = [cpc EXCEPT ![c] = "returned"]
          /\ UNCHANGED <<m_stopping, flush>>
     ELSE /\ m_stopping' = TRUE
          /\ flush' = [flush EXCEPT ![c] = processRemainingJobs]
          /\ cpc' = [cpc EXCEPT ![c] =
                       IF processRemainingJobs THEN "drain" ELSE "mark"]
  /\ UNCHANGED <<m_tasks, m_stopped, workerVars, arg, history>>

\* Whether Stop has to wait for the queue, and the same with the wrong flag.
MustDrainUnlessStopping == m_tasks # <<>> /\ ~m_stopping
MustDrain == m_tasks # <<>> /\ ~m_stopped

Drain(c) ==
  /\ CGoto(c, "drain", IF MustDrain THEN "drainw" ELSE "mark")
  /\ UNCHANGED <<poolVars, workerVars, arg, flush, history>>

MarkStopped(c) ==
  /\ CGoto(c, "mark", "tell")
  /\ m_stopped' = TRUE
  /\ unflushed' = (unflushed \/ (~flush[c] /\ ~m_stopped))
  /\ UNCHANGED <<m_tasks, m_stopping, workerVars, arg, flush, ran, accepted>>

TellWorkers(c) ==
  /\ CGoto(c, "tell", "join")
  /\ wpc' = Needed(wpc)
  /\ UNCHANGED <<poolVars, task, reg, m_isWarmedUp, m_numWarmedUpThreads, arg,
                 flush, history>>

JoinAll(c) ==
  /\ CGoto(c, "join", "returned")
  /\ \A w \in Workers : wpc[w] = "exit"
  /\ flush' = [flush EXCEPT ![c] = FALSE]
  /\ UNCHANGED <<poolVars, workerVars, arg, history>>

-----------------------------------------------------------------------------
WorkerStep(w) ==
  \/ Find(w) \/ Resume(w) \/ Run(w) \/ NotifyAvailable(w)
  \/ LoadWarm(w) \/ StoreWarm(w) \/ TestStopped(w)

CallerStep(c) ==
  \/ ResumeSubmit(c) \/ Drain(c) \/ MarkStopped(c) \/ TellWorkers(c)
  \/ JoinAll(c)

Next ==
  \/ \E w \in Workers : WorkerStep(w) \/ Spurious(w)
  \/ \E c \in Callers :
       \/ CallerStep(c)
       \/ \E t \in Tasks : CallSubmit(c, t)
       \/ \E b \in BOOLEAN : CallStop(c, b)

\* Threads run, tasks end; nobody has to call Submit or Stop.
Fairness ==
  /\ \A w \in Workers : WF_vars(WorkerStep(w))
  /\ \A c \in Callers : WF_vars(CallerStep(c))

Spec == Init /\ [][Next]_vars /\ Fairness

-----------------------------------------------------------------------------
(* Properties *)

\* Types, no task is run twice or run and queued, and the queue keeps its limit.
TypeOK ==
  /\ m_tasks \in Seq(Tasks) /\ m_stopped \in BOOLEAN /\ m_stopping \in BOOLEAN
  /\ m_numWarmedUpThreads \in 0 .. Cardinality(Workers)
  /\ wpc \in [Workers -> {"find", "wait", "woken", "run", "notify", "load",
                          "store", "test", "exit"}]
  /\ task \in [Workers -> Tasks \cup {NoTask}] /\ reg \in [Workers -> Nat]
  /\ m_isWarmedUp \in [Workers -> BOOLEAN]
  /\ cpc \in [Callers -> {"idle", "returned", "threw", "submit", "full",
                          "drain", "drainw", "mark", "tell", "join"}]
  /\ arg \in [Callers -> Tasks \cup {NoTask}] /\ flush \in [Callers -> BOOLEAN]
  /\ ran \in Seq(Tasks) /\ accepted \subseteq Tasks /\ unflushed \in BOOLEAN
  /\ LET all == m_tasks \o ran
     IN \A i, j \in DOMAIN all : all[i] = all[j] => i = j
  /\ QueueLimit > 0 => Len(m_tasks) <= QueueLimit

\* "Wait until all queued jobs have completed, and shut down" (ThreadPool.h,
\* line 78): once the workers are gone, every task that was submitted before
\* Stop(true) has run, once, unless someone called Stop(false).  (Only a Submit
\* that waited for room while Stop began can leave a task behind.)
StopFlushes ==
  (\A w \in Workers : wpc[w] = "exit") /\ ~unflushed =>
    \A t \in accepted : \E i \in DOMAIN ran : ran[i] = t

\* No notification is owed to a worker that sleeps: none sleeps while a task is
\* queued, and none once the pool is stopped, but for a Stop between its store
\* (line 106) and its notify_all (line 108).  A worker tests the two before its
\* wait and not after it, and m_threadNeeded is not notified for a task that is
\* left when another is taken.
NobodyOversleeps ==
  /\ m_tasks # <<>> => \A w \in Workers : wpc[w] # "wait"
  /\ m_stopped => \/ \E c \in Callers : cpc[c] = "tell"
                  \/ \A w \in Workers : wpc[w] # "wait"

\* Stop returns, although it waits on a condition variable that it shares with
\* blocked Submits, which may refill the queue, and workers notify it without
\* the mutex.  (With two callers of Stop it may not: nothing wakes the one that
\* waits when the other sets m_stopped.)
StopReturns ==
  \A c \in Callers :
    (cpc[c] \in {"drain", "drainw", "mark", "tell", "join"})
      ~> (cpc[c] = "returned")

\* A Submit that waits for room gets it, unless the pool is stopped first.
SubmitReturns ==
  \A c \in Callers :
    (cpc[c] \in {"full", "submit"}) ~> (cpc[c] = "returned" \/ m_stopped)
=============================================================================
