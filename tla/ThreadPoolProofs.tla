-------------------------- MODULE ThreadPoolProofs --------------------------
(***************************************************************************)
(* Proofs about module ThreadPool, for any sets of workers, callers and    *)
(* tasks and any limit of the queue.                                       *)
(***************************************************************************)
EXTENDS ThreadPool, FiniteSetTheorems, TLAPS

In(s, x) == \E i \in DOMAIN s : s[i] = x
Injective(s) == \A i, j \in DOMAIN s : s[i] = s[j] => i = j

LEMMA AppendFacts ==
  ASSUME NEW s \in Seq(Tasks), NEW x \in Tasks
  PROVE  /\ Append(s, x) \in Seq(Tasks) /\ Append(s, x) # <<>>
         /\ Len(Append(s, x)) = Len(s) + 1
         /\ \A y : In(Append(s, x), y) <=> In(s, y) \/ y = x
         /\ Injective(s) /\ ~In(s, x) => Injective(Append(s, x))
<1>1. /\ Append(s, x) \in Seq(Tasks) /\ Append(s, x) # <<>>
      /\ Len(Append(s, x)) = Len(s) + 1
      /\ DOMAIN Append(s, x) = 1 .. Len(s) + 1 /\ DOMAIN s = 1 .. Len(s)
      /\ Len(s) \in Nat
      /\ Append(s, x)[Len(s) + 1] = x
      /\ \A i \in 1 .. Len(s) : Append(s, x)[i] = s[i]
  OBVIOUS
<1>2. \A i \in DOMAIN Append(s, x) : i \in DOMAIN s \/ i = Len(s) + 1
  BY <1>1
<1>3. DOMAIN s \subseteq DOMAIN Append(s, x) /\ Len(s) + 1 \in DOMAIN Append(s, x)
  BY <1>1
<1>4. \A y : In(Append(s, x), y) <=> In(s, y) \/ y = x
  BY <1>1, <1>2, <1>3 DEF In
<1>5. Injective(s) /\ ~In(s, x) => Injective(Append(s, x))
  BY <1>1, <1>2 DEF In, Injective
<1> QED BY <1>1, <1>4, <1>5

LEMMA TailFacts ==
  ASSUME NEW s \in Seq(Tasks), s # <<>>, Injective(s)
  PROVE  /\ Head(s) \in Tasks /\ In(s, Head(s))
         /\ Tail(s) \in Seq(Tasks) /\ Len(Tail(s)) = Len(s) - 1
         /\ \A y : In(Tail(s), y) <=> In(s, y) /\ y # Head(s)
         /\ Injective(Tail(s))
<1>1. /\ Head(s) = s[1] /\ s[1] \in Tasks /\ Tail(s) \in Seq(Tasks)
      /\ Len(s) \in Nat \ {0} /\ Len(Tail(s)) = Len(s) - 1
      /\ DOMAIN s = 1 .. Len(s) /\ DOMAIN Tail(s) = 1 .. Len(s) - 1
      /\ \A i \in 1 .. Len(s) - 1 : Tail(s)[i] = s[i + 1]
  OBVIOUS
<1>2. \A i \in DOMAIN Tail(s) : i + 1 \in DOMAIN s /\ i + 1 # 1 /\ Tail(s)[i] = s[i + 1]
  BY <1>1
<1>3. \A i \in DOMAIN s : i = 1 \/ (i - 1 \in DOMAIN Tail(s) /\ Tail(s)[i - 1] = s[i])
  BY <1>1
<1>4. 1 \in DOMAIN s
  BY <1>1
<1>5. ASSUME NEW y
      PROVE  In(Tail(s), y) <=> In(s, y) /\ y # Head(s)
  <2>1. In(Tail(s), y) => In(s, y) /\ y # s[1]
    BY <1>2, <1>4 DEF In, Injective
  <2>2. In(s, y) /\ y # s[1] => In(Tail(s), y)
    BY <1>3 DEF In
  <2> QED BY <1>1, <2>1, <2>2
<1>6. Injective(Tail(s))
  <2> SUFFICES ASSUME NEW i \in DOMAIN Tail(s), NEW j \in DOMAIN Tail(s),
                      Tail(s)[i] = Tail(s)[j]
               PROVE  i = j
    BY DEF Injective
  <2>1. i + 1 = j + 1
    BY <1>2 DEF Injective
  <2> QED BY <1>1, <2>1
<1> QED BY <1>1, <1>4, <1>5, <1>6 DEF In

-----------------------------------------------------------------------------
(* Types *)

WorkerPlaces == {"find", "wait", "woken", "run", "notify", "load", "store",
                 "test", "exit"}
CallerPlaces == {"idle", "returned", "threw", "submit", "full", "drain",
                 "drainw", "mark", "tell", "join"}

QueueOK ==
  /\ m_tasks \in Seq(Tasks) /\ ran \in Seq(Tasks)
  /\ QueueLimit > 0 => Len(m_tasks) <= QueueLimit
  /\ m_stopped \in BOOLEAN /\ m_stopping \in BOOLEAN
  /\ accepted \subseteq Tasks /\ unflushed \in BOOLEAN
WorkersOK ==
  /\ wpc \in [Workers -> WorkerPlaces]
  /\ task \in [Workers -> Tasks \cup {NoTask}]
  /\ \A w \in Workers : wpc[w] = "run" <=> task[w] # NoTask
CallersOK ==
  /\ cpc \in [Callers -> CallerPlaces] /\ arg \in [Callers -> Tasks \cup {NoTask}]
  /\ flush \in [Callers -> BOOLEAN]
  /\ \A c \in Callers : cpc[c] \in {"full", "submit"} <=> arg[c] # NoTask

\* A task is in one place: the queue, a worker's hands, a blocked Submit, or run.
QueueOnce ==
  /\ Injective(m_tasks) /\ Injective(ran)
  /\ \A t \in Tasks : ~ (In(m_tasks, t) /\ In(ran, t))
TaskOnce ==
  \A w \in Workers : task[w] # NoTask =>
    /\ ~In(m_tasks, task[w]) /\ ~In(ran, task[w])
    /\ \A v \in Workers \ {w} : task[v] # task[w]
ArgOnce ==
  \A c \in Callers : arg[c] # NoTask =>
    /\ ~In(m_tasks, arg[c]) /\ ~In(ran, arg[c])
    /\ \A d \in Callers \ {c} : arg[d] # arg[c]
    /\ \A w \in Workers : task[w] # arg[c]

\* What a worker counts itself into, or has read before it does.
Warm == {w \in Workers : m_isWarmedUp[w]}
WarmOK ==
  /\ m_isWarmedUp \in [Workers -> BOOLEAN] /\ reg \in [Workers -> Nat]
  /\ m_numWarmedUpThreads \in Nat /\ m_numWarmedUpThreads <= Cardinality(Warm)
  /\ \A w \in Workers : wpc[w] \in {"load", "store"} => ~m_isWarmedUp[w]
  /\ \A w \in Workers : wpc[w] = "store" => reg[w] <= Cardinality(Warm)

\* Where a Stop is, m_stopping is set; where one that flushes is past its wait,
\* no task that was submitted in time is still queued.
Queued == {t \in accepted : In(m_tasks, t)}
StopOK ==
  /\ \A c \in Callers :
       cpc[c] \in {"drain", "drainw", "mark", "tell", "join"} => m_stopping
  /\ m_stopped => m_stopping
  /\ \A c \in Callers : cpc[c] = "mark" /\ flush[c] => Queued = {} \/ m_stopped
  /\ m_stopped /\ ~unflushed => Queued = {}
  /\ \A w \in Workers : wpc[w] = "exit" => m_stopped

\* A task submitted in time is somewhere.
NotLost ==
  \A t \in accepted : In(m_tasks, t) \/ In(ran, t) \/ \E w \in Workers : task[w] = t

PoolInv ==
  /\ QueueOK /\ WorkersOK /\ CallersOK /\ WarmOK
  /\ QueueOnce /\ TaskOnce /\ ArgOnce
  /\ StopOK /\ NotLost /\ NobodyOversleeps

-----------------------------------------------------------------------------
(* The steps of a worker *)

LEMMA Initially == Init => PoolInv
<1> SUFFICES ASSUME Init PROVE PoolInv
  OBVIOUS
<1>1. QueueOK /\ WorkersOK /\ CallersOK
  <2>1. QueueOK
    <3>1. <<>> \in Seq(Tasks) /\ Len(<<>>) = 0 /\ QueueLimit \in Nat
      BY PoolAssumption
    <3>2. m_tasks = <<>> /\ ran = <<>> /\ accepted = {}
      BY DEF Init
    <3>3. m_tasks \in Seq(Tasks) /\ ran \in Seq(Tasks)
      BY <3>1, <3>2
    <3>4. QueueLimit > 0 => Len(m_tasks) <= QueueLimit
      BY <3>1, <3>2
    <3>5. m_stopped \in BOOLEAN /\ m_stopping \in BOOLEAN /\ unflushed \in BOOLEAN
      BY DEF Init
    <3> QED BY <3>2, <3>3, <3>4, <3>5 DEF QueueOK
  <2>2. WorkersOK
    BY DEF Init, WorkersOK, WorkerPlaces
  <2>3. CallersOK
    BY DEF Init, CallersOK, CallerPlaces
  <2> QED BY <2>1, <2>2, <2>3
<1>2. WarmOK
  <2>1. Warm = {}
    BY DEF Init, Warm
  <2> QED BY <2>1, FS_EmptySet DEF Init, WarmOK
<1>3. QueueOnce /\ TaskOnce /\ ArgOnce /\ StopOK /\ NotLost /\ NobodyOversleeps
  BY DEF Init, QueueOnce, TaskOnce, ArgOnce, StopOK, NotLost, NobodyOversleeps,
         Injective, In
<1> QED BY <1>1, <1>2, <1>3 DEF PoolInv

\* Warm and its bound do not change when the counter and its registers do not.
LEMMA WarmKept ==
  ASSUME WarmOK, UNCHANGED <<m_isWarmedUp, reg, m_numWarmedUpThreads>>,
         \A w \in Workers : wpc'[w] \in {"load", "store"} =>
            wpc'[w] = wpc[w] \/ (wpc'[w] = "load" /\ ~m_isWarmedUp[w])
  PROVE  WarmOK'
<1>1. Warm' = Warm
  BY DEF Warm
<1> QED BY <1>1 DEF WarmOK

LEMMA TakeTaskKeeps ==
  ASSUME PoolInv, NEW w \in Workers, wpc[w] \in {"find", "woken"}, TakeTask(w),
         UNCHANGED <<m_stopped, m_stopping, reg, m_isWarmedUp,
                     m_numWarmedUpThreads, callerVars, history>>
  PROVE  PoolInv'
<1> USE DEF PoolInv
<1>0. task[w] = NoTask
  BY DEF WorkersOK
<1>1. CASE ~m_stopped /\ m_tasks # <<>>
  <2> DEFINE h == Head(m_tasks)
  <2>1. /\ task' = [task EXCEPT ![w] = h] /\ m_tasks' = Tail(m_tasks)
        /\ wpc' = [wpc EXCEPT ![w] = "run"]
    BY <1>1 DEF TakeTask
  <2>2. /\ h \in Tasks /\ In(m_tasks, h)
        /\ m_tasks' \in Seq(Tasks) /\ Len(m_tasks') = Len(m_tasks) - 1
        /\ \A y : In(m_tasks', y) <=> In(m_tasks, y) /\ y # h
        /\ Injective(m_tasks')
    BY <1>1, <2>1, TailFacts DEF QueueOK, QueueOnce
  <2> HIDE DEF h
  <2>3. /\ task'[w] = h /\ wpc'[w] = "run"
        /\ \A v \in Workers : v # w => task'[v] = task[v] /\ wpc'[v] = wpc[v]
    BY <2>1 DEF WorkersOK
  <2>4. h # NoTask
    BY <2>2, PoolAssumption
  <2>5. QueueOK'
    BY <2>2, PoolAssumption DEF QueueOK, history
  <2>6. WorkersOK'
    BY <2>1, <2>2, <2>3, <2>4 DEF WorkersOK, WorkerPlaces
  <2>7. CallersOK'
    BY DEF CallersOK, callerVars
  <2>8. WarmOK'
    BY <2>3, WarmKept
  <2>9. QueueOnce'
    BY <2>2 DEF QueueOnce, history
  <2>10. TaskOnce'
    <3>1. ~In(m_tasks', h) /\ ~In(ran', h)
      BY <2>2 DEF QueueOnce, history
    <3>2. \A v \in Workers : v # w => task[v] # h
      BY <2>2, <2>4 DEF TaskOnce
    <3>3. \A v \in Workers : v # w /\ task[v] # NoTask =>
            ~In(m_tasks', task[v]) /\ ~In(ran', task[v])
      BY <2>2 DEF TaskOnce, history
    <3> QED BY <2>3, <3>1, <3>2, <3>3 DEF TaskOnce
  <2>11. ArgOnce'
    <3>1. \A c \in Callers : arg[c] # NoTask => arg[c] # h
      BY <2>2 DEF ArgOnce
    <3> QED BY <2>2, <2>3, <3>1 DEF ArgOnce, callerVars, history
  <2>12. StopOK'
    <3>1. Queued' \subseteq Queued
      BY <2>2 DEF Queued, history
    <3> QED BY <1>1, <2>3, <3>1 DEF StopOK, callerVars, history
  <2>13. NotLost'
    <3> SUFFICES ASSUME NEW t \in accepted
                 PROVE  In(m_tasks', t) \/ In(ran', t) \/ \E v \in Workers : task'[v] = t
      BY DEF NotLost, history
    <3>1. CASE t = h
      BY <2>3, <3>1
    <3>2. CASE In(m_tasks, t) /\ t # h
      BY <2>2, <3>2
    <3>3. CASE In(ran, t)
      BY <3>3 DEF history
    <3>4. ASSUME NEW v \in Workers, task[v] = t
          PROVE  \E u \in Workers : task'[u] = t
      <4>1. t # NoTask
        BY PoolAssumption DEF QueueOK
      <4> QED BY <1>0, <2>3, <3>4, <4>1
    <3> QED BY <3>1, <3>2, <3>3, <3>4 DEF NotLost
  <2>14. NobodyOversleeps'
    BY <1>1, <2>3 DEF NobodyOversleeps, callerVars
  <2> QED BY <2>5, <2>6, <2>7, <2>8, <2>9, <2>10, <2>11, <2>12, <2>13, <2>14
<1>2. CASE ~(~m_stopped /\ m_tasks # <<>>)
  <2>1. wpc' = [wpc EXCEPT ![w] = "notify"] /\ UNCHANGED <<task, m_tasks>>
    BY <1>2 DEF TakeTask
  <2>2. /\ wpc'[w] = "notify" /\ \A v \in Workers : v # w => wpc'[v] = wpc[v]
    BY <2>1 DEF WorkersOK
  <2>3. WorkersOK'
    BY <1>0, <2>1, <2>2 DEF WorkersOK, WorkerPlaces
  <2>4. WarmOK'
    BY <2>2, WarmKept
  <2>5. NobodyOversleeps'
    BY <2>1, <2>2 DEF NobodyOversleeps, callerVars
  <2>6. StopOK'
    BY <2>1, <2>2 DEF StopOK, Queued, callerVars, history
  <2>7. QueueOK' /\ CallersOK' /\ QueueOnce' /\ TaskOnce' /\ ArgOnce' /\ NotLost'
    BY <2>1 DEF QueueOK, CallersOK, QueueOnce, TaskOnce, ArgOnce, NotLost,
                callerVars, history
  <2> QED BY <2>3, <2>4, <2>5, <2>6, <2>7
<1> QED BY <1>1, <1>2

\* A worker goes from one place to another and nothing else changes.
LEMMA WorkerMoves ==
  ASSUME PoolInv, NEW w \in Workers, NEW q \in WorkerPlaces,
         wpc' = [wpc EXCEPT ![w] = q],
         q # "run" /\ wpc[w] # "run",
         q = "wait" => m_tasks = <<>> /\ ~m_stopped,
         q = "load" => ~m_isWarmedUp[w],
         q # "store",
         q = "exit" => m_stopped,
         UNCHANGED <<poolVars, task, reg, m_isWarmedUp, m_numWarmedUpThreads,
                     callerVars, history>>
  PROVE  PoolInv'
<1> USE DEF PoolInv
<1>1. wpc'[w] = q /\ \A v \in Workers : v # w => wpc'[v] = wpc[v]
  BY DEF WorkersOK
<1>2. WorkersOK'
  BY <1>1 DEF WorkersOK
<1>3. WarmOK'
  BY <1>1, WarmKept
<1>4. NobodyOversleeps'
  BY <1>1 DEF NobodyOversleeps, poolVars, callerVars
<1>5. StopOK'
  BY <1>1 DEF StopOK, Queued, poolVars, callerVars, history
<1>6. QueueOK' /\ CallersOK' /\ QueueOnce' /\ TaskOnce' /\ ArgOnce' /\ NotLost'
  BY DEF QueueOK, CallersOK, QueueOnce, TaskOnce, ArgOnce, NotLost, poolVars,
         callerVars, history
<1> QED BY <1>2, <1>3, <1>4, <1>5, <1>6

LEMMA FindKeeps ==
  ASSUME PoolInv, NEW w \in Workers, Find(w) \/ Resume(w)
  PROVE  PoolInv'
<1>1. CASE Find(w) /\ m_tasks = <<>> /\ ~m_stopped
  BY <1>1, WorkerMoves DEF Find, WorkerPlaces, poolVars
<1>2. CASE Resume(w) \/ (Find(w) /\ ~(m_tasks = <<>> /\ ~m_stopped))
  BY <1>2, TakeTaskKeeps DEF Find, Resume
<1> QED BY <1>1, <1>2

LEMMA RunKeeps ==
  ASSUME PoolInv, NEW w \in Workers, Run(w)
  PROVE  PoolInv'
<1> USE DEF PoolInv
<1> DEFINE t == task[w]
<1>1. /\ wpc' = [wpc EXCEPT ![w] = "notify"] /\ wpc[w] = "run"
      /\ ran' = Append(ran, t) /\ task' = [task EXCEPT ![w] = NoTask]
      /\ UNCHANGED <<poolVars, reg, m_isWarmedUp, m_numWarmedUpThreads,
                     callerVars, accepted, unflushed>>
  BY DEF Run, WGoto
<1>2. t \in Tasks /\ t # NoTask
  BY <1>1 DEF WorkersOK
<1>3. ~In(m_tasks, t) /\ ~In(ran, t) /\ \A v \in Workers \ {w} : task[v] # t
  BY <1>2 DEF TaskOnce
<1> HIDE DEF t
<1>4. /\ ran' \in Seq(Tasks) /\ Injective(ran')
      /\ \A y : In(ran', y) <=> In(ran, y) \/ y = t
  BY <1>1, <1>2, <1>3, AppendFacts DEF QueueOK, QueueOnce
<1>5. /\ task'[w] = NoTask /\ wpc'[w] = "notify"
      /\ \A v \in Workers : v # w => task'[v] = task[v] /\ wpc'[v] = wpc[v]
  BY <1>1 DEF WorkersOK
<1>6. QueueOK' /\ CallersOK'
  BY <1>1, <1>4 DEF QueueOK, CallersOK, poolVars, callerVars
<1>7. WorkersOK'
  BY <1>1, <1>5 DEF WorkersOK, WorkerPlaces
<1>8. WarmOK'
  BY <1>1, <1>5, WarmKept
<1>9. QueueOnce'
  BY <1>1, <1>3, <1>4 DEF QueueOnce, poolVars
<1>10. TaskOnce'
  BY <1>1, <1>3, <1>4, <1>5 DEF TaskOnce, poolVars
<1>11. ArgOnce'
  <2>1. \A c \in Callers : arg[c] # t
    BY <1>2 DEF ArgOnce, t
  <2> QED BY <1>1, <1>4, <1>5, <2>1 DEF ArgOnce, poolVars, callerVars
<1>12. StopOK'
  BY <1>1, <1>5 DEF StopOK, Queued, poolVars, callerVars
<1>13. NotLost'
  <2>1. \A v \in Workers : task[v] = t \/ task'[v] = task[v]
    BY <1>5 DEF t
  <2> QED BY <1>1, <1>4, <2>1 DEF NotLost, poolVars
<1>14. NobodyOversleeps'
  BY <1>1, <1>5 DEF NobodyOversleeps, poolVars, callerVars
<1> QED BY <1>6, <1>7, <1>8, <1>9, <1>10, <1>11, <1>12, <1>13, <1>14

\* A worker counts itself once, whatever counts are lost.
LEMMA StoreWarmKeeps ==
  ASSUME PoolInv, NEW w \in Workers, StoreWarm(w)
  PROVE  PoolInv'
<1> USE DEF PoolInv
<1>1. /\ wpc[w] = "store" /\ wpc' = [wpc EXCEPT ![w] = "test"]
      /\ m_numWarmedUpThreads' = reg[w] + 1 /\ reg' = [reg EXCEPT ![w] = 0]
      /\ m_isWarmedUp' = [m_isWarmedUp EXCEPT ![w] = TRUE]
      /\ UNCHANGED <<poolVars, task, callerVars, history>>
  BY DEF StoreWarm, WGoto
<1>2. /\ wpc'[w] = "test" /\ \A v \in Workers : v # w => wpc'[v] = wpc[v]
  BY <1>1 DEF WorkersOK
<1>3. Warm' = Warm \cup {w} /\ w \notin Warm
  BY <1>1 DEF Warm, WarmOK
<1>4. IsFiniteSet(Warm)
  BY PoolAssumption, FS_Subset DEF Warm
<1>5. Cardinality(Warm') = Cardinality(Warm) + 1 /\ Cardinality(Warm) \in Nat
  BY <1>3, <1>4, FS_AddElement, FS_CardinalityType
<1> HIDE DEF Warm
<1>6. WarmOK'
  <2>1. m_isWarmedUp' \in [Workers -> BOOLEAN] /\ reg' \in [Workers -> Nat]
    BY <1>1 DEF WarmOK
  <2>2. reg[w] \in Nat /\ reg[w] <= Cardinality(Warm)
    BY <1>1 DEF WarmOK
  <2>3. \A v \in Workers : wpc'[v] \in {"load", "store"} => ~m_isWarmedUp'[v]
    BY <1>1, <1>2 DEF WarmOK
  <2>4. \A v \in Workers : wpc'[v] = "store" => reg'[v] \in Nat /\ reg'[v] <= Cardinality(Warm)
    BY <1>1, <1>2 DEF WarmOK
  <2> QED BY <1>1, <1>5, <2>1, <2>2, <2>3, <2>4 DEF WarmOK
<1>7. WorkersOK'
  BY <1>1, <1>2 DEF WorkersOK, WorkerPlaces
<1>8. NobodyOversleeps'
  BY <1>1, <1>2 DEF NobodyOversleeps, poolVars, callerVars
<1>9. StopOK'
  BY <1>1, <1>2 DEF StopOK, Queued, poolVars, callerVars, history
<1>10. QueueOK' /\ CallersOK' /\ QueueOnce' /\ TaskOnce' /\ ArgOnce' /\ NotLost'
  BY <1>1 DEF QueueOK, CallersOK, QueueOnce, TaskOnce, ArgOnce, NotLost,
              poolVars, callerVars, history
<1> QED BY <1>6, <1>7, <1>8, <1>9, <1>10

LEMMA LoadWarmKeeps ==
  ASSUME PoolInv, NEW w \in Workers, LoadWarm(w)
  PROVE  PoolInv'
<1> USE DEF PoolInv
<1>1. /\ wpc[w] = "load" /\ wpc' = [wpc EXCEPT ![w] = "store"]
      /\ reg' = [reg EXCEPT ![w] = m_numWarmedUpThreads]
      /\ UNCHANGED <<poolVars, task, m_isWarmedUp, m_numWarmedUpThreads,
                     callerVars, history>>
  BY DEF LoadWarm, WGoto
<1>2. /\ wpc'[w] = "store" /\ \A v \in Workers : v # w => wpc'[v] = wpc[v]
  BY <1>1 DEF WorkersOK
<1>3. Warm' = Warm
  BY <1>1 DEF Warm
<1>4. WarmOK'
  BY <1>1, <1>2, <1>3 DEF WarmOK
<1>5. WorkersOK'
  BY <1>1, <1>2 DEF WorkersOK, WorkerPlaces
<1>6. NobodyOversleeps'
  BY <1>1, <1>2 DEF NobodyOversleeps, poolVars, callerVars
<1>7. StopOK'
  BY <1>1, <1>2 DEF StopOK, Queued, poolVars, callerVars, history
<1>8. QueueOK' /\ CallersOK' /\ QueueOnce' /\ TaskOnce' /\ ArgOnce' /\ NotLost'
  BY <1>1 DEF QueueOK, CallersOK, QueueOnce, TaskOnce, ArgOnce, NotLost,
              poolVars, callerVars, history
<1> QED BY <1>4, <1>5, <1>6, <1>7, <1>8

LEMMA NotifyKeeps ==
  ASSUME PoolInv, NEW w \in Workers, NotifyAvailable(w)
  PROVE  PoolInv'
<1> USE DEF PoolInv
<1> DEFINE q == IF m_isWarmedUp[w] THEN "test" ELSE "load"
<1>1. /\ wpc[w] = "notify" /\ wpc' = [wpc EXCEPT ![w] = q]
      /\ cpc' = Available(cpc)
      /\ UNCHANGED <<poolVars, task, reg, m_isWarmedUp, m_numWarmedUpThreads,
                     arg, flush, history>>
  BY DEF NotifyAvailable, WGoto
<1>2. /\ wpc'[w] = q /\ \A v \in Workers : v # w => wpc'[v] = wpc[v]
  BY <1>1 DEF WorkersOK
<1>3. \A c \in Callers :
        /\ cpc'[c] \in CallerPlaces
        /\ cpc'[c] \in {"full", "submit"} <=> cpc[c] \in {"full", "submit"}
        /\ cpc'[c] \in {"drain", "drainw"} <=> cpc[c] \in {"drain", "drainw"}
        /\ cpc[c] \notin {"full", "drainw"} => cpc'[c] = cpc[c]
  BY <1>1 DEF Available, CallersOK, CallerPlaces
<1>4. cpc' \in [Callers -> CallerPlaces]
  BY <1>1, <1>3 DEF Available
<1>5. WorkersOK'
  BY <1>1, <1>2 DEF WorkersOK, WorkerPlaces
<1>6. CallersOK'
  BY <1>1, <1>3, <1>4 DEF CallersOK
<1>7. WarmOK'
  BY <1>1, <1>2, WarmKept
<1>8. NobodyOversleeps'
  <2>1. \A c \in Callers : cpc[c] = "tell" => cpc'[c] = "tell"
    BY <1>3
  <2>2. \A v \in Workers : wpc'[v] = "wait" => wpc[v] = "wait"
    BY <1>2
  <2>3. UNCHANGED <<m_tasks, m_stopped>>
    BY <1>1 DEF poolVars
  <2> QED BY <2>1, <2>2, <2>3 DEF NobodyOversleeps
<1>9. StopOK'
  <2>1. \A c \in Callers :
          cpc'[c] \in {"drain", "drainw", "mark", "tell", "join"} => m_stopping
    BY <1>3 DEF StopOK, CallersOK, CallerPlaces
  <2>2. \A c \in Callers : cpc'[c] = "mark" => cpc[c] = "mark"
    BY <1>3
  <2> QED BY <1>1, <1>2, <2>1, <2>2 DEF StopOK, Queued, poolVars, history
<1>10. QueueOK' /\ QueueOnce' /\ TaskOnce' /\ ArgOnce' /\ NotLost'
  BY <1>1 DEF QueueOK, QueueOnce, TaskOnce, ArgOnce, NotLost, poolVars, history
<1> QED BY <1>5, <1>6, <1>7, <1>8, <1>9, <1>10

LEMMA WorkerKeeps ==
  ASSUME PoolInv, NEW w \in Workers, WorkerStep(w) \/ Spurious(w)
  PROVE  PoolInv'
<1>1. CASE Spurious(w)
  BY <1>1, WorkerMoves DEF Spurious, WGoto, WorkerPlaces
<1>2. CASE TestStopped(w)
  <2> DEFINE q == IF m_stopped THEN "exit" ELSE "find"
  <2>1. q \in WorkerPlaces
    BY DEF WorkerPlaces
  <2> QED BY <1>2, <2>1, WorkerMoves DEF TestStopped, WGoto
<1> QED BY <1>1, <1>2, FindKeeps, RunKeeps, NotifyKeeps, LoadWarmKeeps,
           StoreWarmKeeps DEF WorkerStep

-----------------------------------------------------------------------------
(* The steps of a caller *)

\* A notification wakes the workers that wait and moves no other.
LEMMA NeededFacts ==
  ASSUME WorkersOK
  PROVE  /\ Needed(wpc) \in [Workers -> WorkerPlaces]
         /\ \A w \in Workers : Needed(wpc)[w] # "wait"
         /\ \A w \in Workers : \A p \in {"run", "load", "store", "exit"} :
              Needed(wpc)[w] = p <=> wpc[w] = p
  BY DEF WorkersOK, Needed, WorkerPlaces

\* The task of a Submit goes into the queue, or waits for room.
LEMMA PushOrWaitKeeps ==
  ASSUME PoolInv, NEW c \in Callers, NEW t \in Tasks, PushOrWait(c, t),
         ~In(m_tasks, t), ~In(ran, t), \A w \in Workers : task[w] # t,
         \A d \in Callers \ {c} : arg[d] # t,
         t \notin accepted,
         arg[c] \in {NoTask, t}, cpc[c] # "tell",
         UNCHANGED <<m_stopped, m_stopping, task, reg, m_isWarmedUp,
                     m_numWarmedUpThreads, flush, ran, unflushed>>
  PROVE  PoolInv'
<1> USE DEF PoolInv
<1>0. t # NoTask
  BY PoolAssumption
<1>1. CASE Room
  <2>1. /\ m_tasks' = Append(m_tasks, t) /\ wpc' = Needed(wpc)
        /\ accepted' = IF m_stopping THEN accepted ELSE accepted \cup {t}
        /\ arg' = [arg EXCEPT ![c] = NoTask]
        /\ cpc' = [cpc EXCEPT ![c] = "returned"]
    BY <1>1 DEF PushOrWait
  <2>2. /\ m_tasks' \in Seq(Tasks) /\ m_tasks' # <<>>
        /\ Len(m_tasks') = Len(m_tasks) + 1
        /\ \A y : In(m_tasks', y) <=> In(m_tasks, y) \/ y = t
        /\ Injective(m_tasks')
    BY <2>1, AppendFacts DEF QueueOK, QueueOnce
  <2>3. /\ arg'[c] = NoTask /\ cpc'[c] = "returned"
        /\ \A d \in Callers : d # c => arg'[d] = arg[d] /\ cpc'[d] = cpc[d]
    BY <2>1 DEF CallersOK
  <2>4. QueueOK'
    <3>1. QueueLimit > 0 => Len(m_tasks') <= QueueLimit
      BY <1>1, <2>2, PoolAssumption DEF Room, QueueOK
    <3>2. accepted' \subseteq Tasks
      BY <2>1 DEF QueueOK
    <3> QED BY <2>2, <3>1, <3>2 DEF QueueOK
  <2>5. WorkersOK'
    BY <2>1, NeededFacts DEF WorkersOK
  <2>6. CallersOK'
    BY <2>1, <2>3 DEF CallersOK, CallerPlaces
  <2>7. WarmOK'
    BY <2>1, NeededFacts, WarmKept
  <2>8. QueueOnce'
    BY <2>2 DEF QueueOnce
  <2>9. TaskOnce'
    BY <2>2 DEF TaskOnce
  <2>10. ArgOnce'
    BY <2>2, <2>3 DEF ArgOnce
  <2>11. StopOK'
    <3>1. m_stopping => Queued' = Queued
      BY <2>1, <2>2 DEF Queued
    <3>2. \A d \in Callers :
            cpc'[d] \in {"drain", "drainw", "mark", "tell", "join"} =>
              cpc'[d] = cpc[d]
      BY <2>3
    <3>3. \A w \in Workers : wpc'[w] = "exit" => wpc[w] = "exit"
      BY <2>1, NeededFacts
    <3> QED BY <3>1, <3>2, <3>3 DEF StopOK
  <2>12. NotLost'
    BY <2>1, <2>2 DEF NotLost
  <2>13. NobodyOversleeps'
    BY <2>1, NeededFacts DEF NobodyOversleeps
  <2> QED BY <2>4, <2>5, <2>6, <2>7, <2>8, <2>9, <2>10, <2>11, <2>12, <2>13
<1>2. CASE ~Room
  <2>1. /\ cpc' = [cpc EXCEPT ![c] = "full"] /\ arg' = [arg EXCEPT ![c] = t]
        /\ UNCHANGED <<m_tasks, wpc, accepted>>
    BY <1>2 DEF PushOrWait
  <2>2. /\ arg'[c] = t /\ cpc'[c] = "full"
        /\ \A d \in Callers : d # c => arg'[d] = arg[d] /\ cpc'[d] = cpc[d]
    BY <2>1 DEF CallersOK
  <2>3. CallersOK'
    BY <1>0, <2>1, <2>2 DEF CallersOK, CallerPlaces
  <2>4. ArgOnce'
    BY <2>1, <2>2 DEF ArgOnce
  <2>5. StopOK'
    BY <2>1, <2>2 DEF StopOK, Queued
  <2>6. WarmOK'
    BY <2>1, WarmKept
  <2>7. QueueOK' /\ WorkersOK' /\ QueueOnce' /\ TaskOnce' /\ NotLost'
    BY <2>1 DEF QueueOK, WorkersOK, QueueOnce, TaskOnce, NotLost
  <2>8. NobodyOversleeps'
    BY <2>1, <2>2 DEF NobodyOversleeps
  <2> QED BY <2>3, <2>4, <2>5, <2>6, <2>7, <2>8
<1> QED BY <1>1, <1>2

LEMMA CallSubmitKeeps ==
  ASSUME PoolInv, NEW c \in Callers, NEW t \in Tasks, CallSubmit(c, t)
  PROVE  PoolInv'
<1> USE DEF PoolInv
<1>1. CASE m_stopping
  <2>1. /\ cpc[c] \in {"idle", "returned"} /\ cpc' = [cpc EXCEPT ![c] = "threw"]
        /\ UNCHANGED <<m_tasks, wpc, accepted, arg, m_stopped, m_stopping, task,
                       reg, m_isWarmedUp, m_numWarmedUpThreads, flush, ran,
                       unflushed>>
    BY <1>1 DEF CallSubmit
  <2>2. /\ cpc'[c] = "threw" /\ \A d \in Callers : d # c => cpc'[d] = cpc[d]
    BY <2>1 DEF CallersOK
  <2>3. CallersOK'
    BY <2>1, <2>2 DEF CallersOK, CallerPlaces
  <2>4. StopOK'
    BY <2>1, <2>2 DEF StopOK, Queued
  <2>5. WarmOK'
    BY <2>1, WarmKept
  <2>6. QueueOK' /\ WorkersOK' /\ QueueOnce' /\ TaskOnce' /\ ArgOnce' /\ NotLost'
    BY <2>1 DEF QueueOK, WorkersOK, QueueOnce, TaskOnce, ArgOnce, NotLost
  <2>7. NobodyOversleeps'
    BY <2>1, <2>2 DEF NobodyOversleeps
  <2> QED BY <2>3, <2>4, <2>5, <2>6, <2>7
<1>2. CASE ~m_stopping
  <2>1. /\ PushOrWait(c, t) /\ cpc[c] \in {"idle", "returned"}
        /\ UNCHANGED <<m_stopped, m_stopping, task, reg, m_isWarmedUp,
                       m_numWarmedUpThreads, flush, ran, unflushed>>
    BY <1>2 DEF CallSubmit
  <2>2. /\ \A i \in DOMAIN m_tasks : m_tasks[i] # t
        /\ \A i \in DOMAIN ran : ran[i] # t
        /\ \A w \in Workers : task[w] # t
        /\ \A d \in Callers : arg[d] # t
    BY DEF CallSubmit, Submitted
  <2>3. ~In(m_tasks, t) /\ ~In(ran, t)
    BY <2>2 DEF In
  <2>4. t \notin accepted
    BY <2>2, <2>3 DEF NotLost
  <2>5. arg[c] = NoTask
    BY <2>1 DEF CallersOK
  <2> QED BY <2>1, <2>2, <2>3, <2>4, <2>5, PushOrWaitKeeps
<1> QED BY <1>1, <1>2

LEMMA ResumeSubmitKeeps ==
  ASSUME PoolInv, NEW c \in Callers, ResumeSubmit(c)
  PROVE  PoolInv'
<1> USE DEF PoolInv
<1> DEFINE t == arg[c]
<1>1. /\ cpc[c] = "submit" /\ PushOrWait(c, t)
      /\ UNCHANGED <<m_stopped, m_stopping, task, reg, m_isWarmedUp,
                     m_numWarmedUpThreads, flush, ran, unflushed>>
  BY DEF ResumeSubmit
<1>2. t \in Tasks /\ t # NoTask
  BY <1>1 DEF CallersOK
<1>3. /\ ~In(m_tasks, t) /\ ~In(ran, t) /\ \A d \in Callers \ {c} : arg[d] # t
      /\ \A w \in Workers : task[w] # t
  BY <1>2 DEF ArgOnce
<1>4. t \notin accepted
  BY <1>3 DEF NotLost
<1> HIDE DEF t
<1>5. arg[c] = t
  BY DEF t
<1> QED BY <1>1, <1>2, <1>3, <1>4, <1>5, PushOrWaitKeeps

\* The steps of Stop, up to the notification.
LEMMA StopKeeps ==
  ASSUME PoolInv, NEW c \in Callers,
         (\E b \in BOOLEAN : CallStop(c, b)) \/ Drain(c) \/ MarkStopped(c) \/ JoinAll(c)
  PROVE  PoolInv'
<1> USE DEF PoolInv
<1>1. UNCHANGED <<m_tasks, wpc, task, reg, m_isWarmedUp, m_numWarmedUpThreads,
                  arg, ran, accepted>>
  BY DEF CallStop, Drain, MarkStopped, JoinAll, poolVars, workerVars, history
<1>2. \E q \in CallerPlaces : cpc' = [cpc EXCEPT ![c] = q] /\ q \notin {"full", "submit"}
  BY DEF CallStop, Drain, MarkStopped, JoinAll, CGoto, CallerPlaces
<1>3. cpc[c] \notin {"full", "submit"}
  BY DEF CallStop, Drain, MarkStopped, JoinAll, CGoto
<1>4. \A d \in Callers : d # c => cpc'[d] = cpc[d] /\ flush'[d] = flush[d]
  BY <1>2 DEF CallersOK, CallStop, Drain, MarkStopped, JoinAll
<1>5. flush' \in [Callers -> BOOLEAN]
  BY DEF CallersOK, CallStop, Drain, MarkStopped, JoinAll
<1>6. CallersOK'
  BY <1>1, <1>2, <1>3, <1>4, <1>5 DEF CallersOK
<1>7. Queued' = Queued
  BY <1>1 DEF Queued
<1>8. QueueOK'
  BY <1>1 DEF QueueOK, CallersOK, CallStop, Drain, MarkStopped, JoinAll,
              poolVars, history
<1>9. WarmOK'
  BY <1>1, WarmKept
<1>10. WorkersOK' /\ QueueOnce' /\ TaskOnce' /\ ArgOnce' /\ NotLost'
  BY <1>1 DEF WorkersOK, QueueOnce, TaskOnce, ArgOnce, NotLost
<1>11. (m_stopped => m_stopped') /\ (m_stopping => m_stopping')
  BY DEF QueueOK, CallStop, Drain, MarkStopped, JoinAll, poolVars
<1>12. NobodyOversleeps'
  <2>1. CASE MarkStopped(c)
    <3>1. cpc'[c] = "tell"
      BY <2>1 DEF MarkStopped, CGoto, CallersOK
    <3> QED BY <1>1, <3>1 DEF NobodyOversleeps
  <2>2. CASE (\E b \in BOOLEAN : CallStop(c, b)) \/ Drain(c) \/ JoinAll(c)
    <3>1. cpc[c] # "tell" /\ UNCHANGED m_stopped
      BY <2>2 DEF CallStop, Drain, JoinAll, CGoto, poolVars
    <3> QED BY <1>1, <1>4, <3>1 DEF NobodyOversleeps
  <2> QED BY <2>1, <2>2
<1>13. StopOK'
  <2>1. ASSUME NEW b \in BOOLEAN, CallStop(c, b)
        PROVE  StopOK'
    <3>1. UNCHANGED <<m_stopped, unflushed>>
      BY <2>1 DEF CallStop, history
    <3>2. CASE m_stopped
      <4>1. cpc' = [cpc EXCEPT ![c] = "returned"] /\ UNCHANGED <<m_stopping, flush>>
        BY <2>1, <3>2 DEF CallStop
      <4>2. cpc'[c] = "returned"
        BY <4>1 DEF CallersOK
      <4> QED BY <1>1, <1>4, <1>7, <3>1, <4>1, <4>2 DEF StopOK
    <3>3. CASE ~m_stopped
      <4>1. /\ m_stopping' /\ flush' = [flush EXCEPT ![c] = b]
            /\ cpc' = [cpc EXCEPT ![c] = IF b THEN "drain" ELSE "mark"]
        BY <2>1, <3>3 DEF CallStop
      <4>2. cpc'[c] = "mark" => ~flush'[c]
        BY <4>1 DEF CallersOK
      <4> QED BY <1>1, <1>4, <1>7, <3>1, <3>3, <4>1, <4>2 DEF StopOK
    <3> QED BY <3>2, <3>3
  <2>2. CASE Drain(c)
    <3>1. /\ cpc[c] = "drain" /\ cpc' = [cpc EXCEPT ![c] = IF MustDrain THEN "drainw" ELSE "mark"]
          /\ UNCHANGED <<m_stopped, m_stopping, flush, unflushed>>
      BY <2>2 DEF Drain, CGoto, poolVars, history
    <3>2. cpc'[c] = IF MustDrain THEN "drainw" ELSE "mark"
      BY <3>1 DEF CallersOK
    <3>3. ~MustDrain => Queued = {} \/ m_stopped
      BY DEF MustDrain, Queued, In
    <3> QED BY <1>1, <1>4, <1>7, <3>1, <3>2, <3>3 DEF StopOK
  <2>3. CASE MarkStopped(c)
    <3>1. /\ cpc[c] = "mark" /\ cpc' = [cpc EXCEPT ![c] = "tell"] /\ m_stopped'
          /\ unflushed' = (unflushed \/ (~flush[c] /\ ~m_stopped))
          /\ UNCHANGED <<m_stopping, flush>>
      BY <2>3 DEF MarkStopped, CGoto
    <3>2. cpc'[c] = "tell"
      BY <3>1 DEF CallersOK
    <3>3. ~unflushed' => Queued = {}
      BY <3>1 DEF StopOK
    <3> QED BY <1>1, <1>4, <1>7, <3>1, <3>2, <3>3 DEF StopOK
  <2>4. CASE JoinAll(c)
    <3>1. /\ cpc' = [cpc EXCEPT ![c] = "returned"]
          /\ UNCHANGED <<m_stopped, m_stopping, unflushed>>
      BY <2>4 DEF JoinAll, CGoto, poolVars, history
    <3>2. cpc'[c] = "returned"
      BY <3>1 DEF CallersOK
    <3> QED BY <1>1, <1>4, <1>7, <3>1, <3>2 DEF StopOK
  <2> QED BY <2>1, <2>2, <2>3, <2>4
<1> QED BY <1>6, <1>8, <1>9, <1>10, <1>12, <1>13

LEMMA TellWorkersKeeps ==
  ASSUME PoolInv, NEW c \in Callers, TellWorkers(c)
  PROVE  PoolInv'
<1> USE DEF PoolInv
<1>1. /\ cpc[c] = "tell" /\ cpc' = [cpc EXCEPT ![c] = "join"]
      /\ wpc' = Needed(wpc)
      /\ UNCHANGED <<poolVars, task, reg, m_isWarmedUp, m_numWarmedUpThreads,
                     arg, flush, history>>
  BY DEF TellWorkers, CGoto
<1>2. cpc'[c] = "join" /\ \A d \in Callers : d # c => cpc'[d] = cpc[d]
  BY <1>1 DEF CallersOK
<1>3. WorkersOK'
  BY <1>1, NeededFacts DEF WorkersOK
<1>4. CallersOK'
  BY <1>1, <1>2 DEF CallersOK, CallerPlaces
<1>5. WarmOK'
  BY <1>1, NeededFacts, WarmKept
<1>6. StopOK'
  BY <1>1, <1>2, NeededFacts DEF StopOK, Queued, poolVars, history
<1>7. NobodyOversleeps'
  BY <1>1, NeededFacts DEF NobodyOversleeps
<1>8. QueueOK' /\ QueueOnce' /\ TaskOnce' /\ ArgOnce' /\ NotLost'
  BY <1>1 DEF QueueOK, QueueOnce, TaskOnce, ArgOnce, NotLost, poolVars, history
<1> QED BY <1>3, <1>4, <1>5, <1>6, <1>7, <1>8

LEMMA PoolInvInductive == PoolInv /\ [Next]_vars => PoolInv'
<1> SUFFICES ASSUME PoolInv, [Next]_vars PROVE PoolInv'
  OBVIOUS
<1>1. CASE UNCHANGED vars
  <2>1. UNCHANGED <<poolVars, workerVars, callerVars, history>>
    BY <1>1 DEF vars
  <2>2. WarmOK'
    BY <2>1, WarmKept DEF PoolInv, workerVars
  <2> QED BY <2>1, <2>2 DEF PoolInv, QueueOK, WorkersOK, CallersOK, QueueOnce,
             TaskOnce, ArgOnce, StopOK, Queued, NotLost, NobodyOversleeps, poolVars,
             workerVars, callerVars, history
<1>2. ASSUME NEW w \in Workers, WorkerStep(w) \/ Spurious(w)
      PROVE  PoolInv'
  BY <1>2, WorkerKeeps
<1>3. ASSUME NEW c \in Callers, CallerStep(c)
      PROVE  PoolInv'
  BY <1>3, ResumeSubmitKeeps, StopKeeps, TellWorkersKeeps DEF CallerStep
<1>4. ASSUME NEW c \in Callers, NEW t \in Tasks, CallSubmit(c, t)
      PROVE  PoolInv'
  BY <1>4, CallSubmitKeeps
<1>5. ASSUME NEW c \in Callers, NEW b \in BOOLEAN, CallStop(c, b)
      PROVE  PoolInv'
  BY <1>5, StopKeeps
<1> QED BY <1>1, <1>2, <1>3, <1>4, <1>5 DEF Next

-----------------------------------------------------------------------------
(* Theorems *)

LEMMA PoolInvTypes == PoolInv => TypeOK
<1> SUFFICES ASSUME PoolInv PROVE TypeOK
  OBVIOUS
<1> USE DEF PoolInv
<1>1. m_numWarmedUpThreads \in 0 .. Cardinality(Workers)
  <2>1. Warm \subseteq Workers /\ IsFiniteSet(Workers)
    BY PoolAssumption DEF Warm
  <2>2. /\ Cardinality(Warm) \in Nat /\ Cardinality(Workers) \in Nat
        /\ Cardinality(Warm) <= Cardinality(Workers)
    BY <2>1, FS_Subset, FS_CardinalityType
  <2> QED BY <2>2 DEF WarmOK
<1>2. \A i, j \in DOMAIN (m_tasks \o ran) :
        (m_tasks \o ran)[i] = (m_tasks \o ran)[j] => i = j
  <2> DEFINE n == Len(m_tasks)
             all == m_tasks \o ran
  <2>1. /\ m_tasks \in Seq(Tasks) /\ ran \in Seq(Tasks) /\ n \in Nat
        /\ Len(ran) \in Nat
        /\ DOMAIN m_tasks = 1 .. n /\ DOMAIN ran = 1 .. Len(ran)
        /\ DOMAIN all = 1 .. n + Len(ran)
        /\ \A i \in 1 .. n : all[i] = m_tasks[i]
        /\ \A i \in n + 1 .. n + Len(ran) : all[i] = ran[i - n]
    BY DEF QueueOK
  <2> HIDE DEF all, n
  <2>2. \A i \in DOMAIN all :
          \/ i \in DOMAIN m_tasks /\ all[i] = m_tasks[i] /\ In(m_tasks, all[i])
          \/ i - n \in DOMAIN ran /\ all[i] = ran[i - n] /\ In(ran, all[i])
    BY <2>1 DEF In
  <2>3. \A i \in DOMAIN all : all[i] \in Tasks /\ i \in Nat
    BY <2>1, <2>2
  <2>4. ASSUME NEW i \in DOMAIN all, NEW j \in DOMAIN all, all[i] = all[j]
        PROVE  i = j
    <3>1. CASE i \in DOMAIN m_tasks /\ j \in DOMAIN m_tasks
               /\ all[i] = m_tasks[i] /\ all[j] = m_tasks[j]
      BY <3>1, <2>4 DEF QueueOnce, Injective
    <3>2. CASE i - n \in DOMAIN ran /\ j - n \in DOMAIN ran
               /\ all[i] = ran[i - n] /\ all[j] = ran[j - n]
      <4>1. i - n = j - n
        BY <3>2, <2>4 DEF QueueOnce, Injective
      <4> QED BY <4>1, <2>1, <2>3
    <3> QED BY <3>1, <3>2, <2>2, <2>3, <2>4 DEF QueueOnce
  <2> QED BY <2>4 DEF all
<1> QED BY <1>1, <1>2 DEF TypeOK, QueueOK, WorkersOK, CallersOK, WarmOK,
                          WorkerPlaces, CallerPlaces

LEMMA PoolInvFlushes == PoolInv => StopFlushes
<1> SUFFICES ASSUME PoolInv, \A w \in Workers : wpc[w] = "exit", ~unflushed,
                    NEW t \in accepted
             PROVE  \E i \in DOMAIN ran : ran[i] = t
  BY DEF StopFlushes
<1> USE DEF PoolInv
<1>1. m_stopped
  BY PoolAssumption DEF StopOK
<1>2. ~In(m_tasks, t)
  BY <1>1 DEF StopOK, Queued
<1>3. \A w \in Workers : task[w] # t
  BY PoolAssumption DEF WorkersOK, QueueOK
<1> QED BY <1>2, <1>3 DEF NotLost, In

\* The pool's variables keep their types; in particular no task is queued twice,
\* or run twice, or queued after it ran, the queue keeps its limit, and the
\* unsynchronised m_numWarmedUpThreads never exceeds the number of workers.
THEOREM TypeCorrect == Spec => []TypeOK
<1>1. Init => PoolInv
  BY Initially
<1>2. PoolInv /\ [Next]_vars => PoolInv'
  BY PoolInvInductive
<1> QED BY <1>1, <1>2, PoolInvTypes, PTL DEF Spec

\* Stop(true) leaves no task behind that was submitted before it (ThreadPool.h,
\* line 78), for any number of workers, callers and tasks.
THEOREM StopRunsTheQueue == Spec => []StopFlushes
<1>1. Init => PoolInv
  BY Initially
<1>2. PoolInv /\ [Next]_vars => PoolInv'
  BY PoolInvInductive
<1> QED BY <1>1, <1>2, PoolInvFlushes, PTL DEF Spec

\* No worker sleeps through a task or through Stop, although it tests the queue
\* and m_stopped once, before its wait, and not after it (ThreadPool.cpp, lines
\* 53-58): none sleeps while a task is queued, and none in a stopped pool, but
\* for a Stop between line 106 and its notification at line 108.
THEOREM WorkersAreNotified == Spec => []NobodyOversleeps
<1>1. Init => PoolInv
  BY Initially
<1>2. PoolInv /\ [Next]_vars => PoolInv'
  BY PoolInvInductive
<1>3. PoolInv => NobodyOversleeps
  BY DEF PoolInv
<1> QED BY <1>1, <1>2, <1>3, PTL DEF Spec
=============================================================================
