--------------------------- MODULE ThumbnailQueue ---------------------------
(***************************************************************************)
(* The background thumbnail queue (ThumbnailQueue.cpp): a bounded queue    *)
(* with deduplication under one mutex, the workers that wait on its        *)
(* condition variable, the handlers that schedule tasks, stop(), and the   *)
(* key rotation that clears the queue and exchanges the key under it.      *)
(*                                                                         *)
(* A task is its deduplication key and the encryption key it was scheduled *)
(* with; how a thumbnail is made is left out.  What a thread does while it *)
(* holds mutex_ is one step; notifications are steps of their own.         *)
(***************************************************************************)
EXTENDS Naturals, Sequences

CONSTANTS
  TaskKeys,       \* ThumbnailTask::key: user, content and size
  EncKeys,        \* encryption keys
  InitKey,        \* encryption_key at the start
  Workers,        \* worker threads, two of them in main.cpp
  Handlers,       \* request handlers that schedule thumbnails
  Policies,       \* overflow policies in use
  Capacities,     \* capacities that are asked for
  None            \* no task

ASSUME ConstantsAssumption ==
  /\ InitKey \in EncKeys
  /\ Policies \subseteq {"DropNewest", "DropOldest"}
  /\ Capacities # {} /\ Capacities \subseteq Nat

Tasks == [key : TaskKeys, enc : EncKeys]

ASSUME NoneAssumption == None \notin Tasks

VARIABLES
  queue, pending, active,   \* queue_, pendingKeys_, activeKeys_
  capacity,                 \* capacity_
  stopped,                  \* stopped_
  worker, task,             \* where each worker is, and its task
  handler,                  \* where each handler is
  stopper,                  \* progress of stop()
  rotation, encKey          \* progress of a key rotation, and the live key

queueVars == <<queue, pending, active, capacity>>
threadVars == <<worker, task, handler, stopper>>
vars == <<queueVars, stopped, threadVars, rotation, encKey>>

WorkerSteps ==
  {"loop", "pop", "asleep", "popped", "working", "finish", "exit"}

TypeOK ==
  /\ queue \in Seq(Tasks)
  /\ pending \subseteq TaskKeys /\ active \subseteq TaskKeys
  /\ capacity \in Nat \ {0}
  /\ stopped \in BOOLEAN
  /\ worker \in [Workers -> WorkerSteps]
  /\ task \in [Workers -> Tasks \cup {None}]
  /\ handler \in [Handlers -> {"out", "in", "notify"}]
  /\ stopper \in {"idle", "notify", "join", "done"}
  /\ rotation \in {"none", "drain", "cleared", "rekeyed"}
  /\ encKey \in EncKeys

\* Variant: a capacity of 0 is taken as it is.
Unclamped(n) == n

\* std::max<size_t>(1, n)
Clamped(n) == IF n = 0 THEN 1 ELSE n

Init ==
  /\ queue = <<>> /\ pending = {} /\ active = {}
  /\ capacity \in {Clamped(n) : n \in Capacities}
  /\ stopped = FALSE
  /\ worker = [w \in Workers |-> "loop"] /\ task = [w \in Workers |-> None]
  /\ handler = [h \in Handlers |-> "out"]
  /\ stopper = "idle"
  /\ rotation = "none" /\ encKey = InitKey

-----------------------------------------------------------------------------
(* Handlers.  They hold configMutex shared and a storage lease, and pass    *)
(* the live encryption key.                                                 *)

EnterHandler(h) ==
  /\ handler[h] = "out" /\ rotation = "none"
  /\ handler' = [handler EXCEPT ![h] = "in"]
  /\ UNCHANGED <<queueVars, stopped, worker, task, stopper, rotation, encKey>>

Refused(k, policy) ==
  \/ stopped
  \/ k \in pending \cup active
  \/ Len(queue) >= capacity /\ policy = "DropNewest"

\* A full queue evicts its oldest task under DropOldest: one task, also when
\* the capacity was lowered below the number of tasks.
Enqueue(k, policy) ==
  LET t == [key |-> k, enc |-> encKey] IN
  IF Len(queue) >= capacity /\ policy = "DropOldest"
    THEN /\ queue' = Append(Tail(queue), t)
         /\ pending' = (pending \ {Head(queue).key}) \cup {k}
    ELSE queue' = Append(queue, t) /\ pending' = pending \cup {k}

\* scheduleThumbnail(); a refused task changes nothing.
Schedule(h, k, policy) ==
  /\ handler[h] = "in"
  /\ ~Refused(k, policy)
  /\ Enqueue(k, policy)
  /\ handler' = [handler EXCEPT ![h] = "notify"]
  /\ UNCHANGED <<active, capacity, stopped, worker, task, stopper, rotation,
                 encKey>>

Asleep == {w \in Workers : worker[w] = "asleep"}

\* Variant: nobody is notified.
NotifyNobody(h) ==
  /\ handler[h] = "notify"
  /\ handler' = [handler EXCEPT ![h] = "in"]
  /\ UNCHANGED <<queueVars, stopped, worker, task, stopper, rotation, encKey>>

\* cvNotEmpty_.notify_one(), after the mutex was released.
Notify(h) ==
  /\ handler[h] = "notify"
  /\ handler' = [handler EXCEPT ![h] = "in"]
  /\ IF Asleep = {}
       THEN UNCHANGED worker
       ELSE \E w \in Asleep : worker' = [worker EXCEPT ![w] = "pop"]
  /\ UNCHANGED <<queueVars, stopped, task, stopper, rotation, encKey>>

LeaveHandler(h) ==
  /\ handler[h] = "in"
  /\ handler' = [handler EXCEPT ![h] = "out"]
  /\ UNCHANGED <<queueVars, stopped, worker, task, stopper, rotation, encKey>>

SetCapacity(n) ==
  /\ capacity' = Clamped(n)
  /\ UNCHANGED <<queue, pending, active, stopped, threadVars, rotation, encKey>>

-----------------------------------------------------------------------------
(* Workers: workerLoop(), pop(), processTask(), finishTask().               *)

\* while (running_ && !stopped_)
LoopHead(w) ==
  /\ worker[w] = "loop"
  /\ worker' = [worker EXCEPT ![w] = IF stopped THEN "exit" ELSE "pop"]
  /\ UNCHANGED <<queueVars, stopped, task, handler, stopper, rotation, encKey>>

\* A stopped queue that is not empty still gives out a task.
Pop(w) ==
  /\ worker[w] = "pop" /\ queue # <<>>
  /\ task' = [task EXCEPT ![w] = Head(queue)]
  /\ queue' = Tail(queue)
  /\ pending' = pending \ {Head(queue).key}
  /\ active' = active \cup {Head(queue).key}
  /\ worker' = [worker EXCEPT ![w] = "popped"]
  /\ UNCHANGED <<capacity, stopped, handler, stopper, rotation, encKey>>

\* Variant: the predicate of the wait does not mention stopped_.
WaitForTaskOnly(w) ==
  /\ worker[w] = "pop" /\ queue = <<>>
  /\ worker' = [worker EXCEPT ![w] = "asleep"]
  /\ UNCHANGED <<queueVars, stopped, task, handler, stopper, rotation, encKey>>

\* cvNotEmpty_.wait(): sleep, or give up when stopped.
WaitForTask(w) ==
  /\ worker[w] = "pop" /\ queue = <<>>
  /\ worker' = [worker EXCEPT ![w] = IF stopped THEN "exit" ELSE "asleep"]
  /\ UNCHANGED <<queueVars, stopped, task, handler, stopper, rotation, encKey>>

SpuriousWakeup(w) ==
  /\ worker[w] = "asleep"
  /\ worker' = [worker EXCEPT ![w] = "pop"]
  /\ UNCHANGED <<queueVars, stopped, task, handler, stopper, rotation, encKey>>

\* Variant: the task's key is not compared with the live one.
MayProcessAnyKey(t) == rotation = "none"

\* processTask() enters the storage gate and compares the keys.
MayProcess(t) == rotation = "none" /\ t.enc = encKey

BeginTask(w) ==
  /\ worker[w] = "popped"
  /\ worker' = [worker EXCEPT ![w] =
                  IF MayProcess(task[w]) THEN "working" ELSE "finish"]
  /\ UNCHANGED <<queueVars, stopped, task, handler, stopper, rotation, encKey>>

\* The thumbnail is made, or an exception is caught: the lease ends.
EndTask(w) ==
  /\ worker[w] = "working"
  /\ worker' = [worker EXCEPT ![w] = "finish"]
  /\ UNCHANGED <<queueVars, stopped, task, handler, stopper, rotation, encKey>>

\* Variant: an exception ends the loop of the worker.
FinishTaskAndExit(w) ==
  /\ worker[w] = "finish"
  /\ active' = active \ {task[w].key}
  /\ task' = [task EXCEPT ![w] = None]
  /\ worker' = [worker EXCEPT ![w] = "exit"]
  /\ UNCHANGED <<queue, pending, capacity, stopped, handler, stopper, rotation,
                 encKey>>

FinishTask(w) ==
  /\ worker[w] = "finish"
  /\ active' = active \ {task[w].key}
  /\ task' = [task EXCEPT ![w] = None]
  /\ worker' = [worker EXCEPT ![w] = "loop"]
  /\ UNCHANGED <<queue, pending, capacity, stopped, handler, stopper, rotation,
                 encKey>>

Work(w) ==
  LoopHead(w) \/ Pop(w) \/ WaitForTask(w) \/ BeginTask(w) \/ EndTask(w)
    \/ FinishTask(w)

-----------------------------------------------------------------------------
(* stop(): sets the flag, wakes everybody, joins.                           *)

BeginStop ==
  /\ stopper = "idle"
  /\ stopped' = TRUE
  /\ stopper' = "notify"
  /\ UNCHANGED <<queueVars, worker, task, handler, rotation, encKey>>

NotifyAll ==
  /\ stopper = "notify"
  /\ worker' = [w \in Workers |->
                  IF worker[w] = "asleep" THEN "pop" ELSE worker[w]]
  /\ stopper' = "join"
  /\ UNCHANGED <<queueVars, stopped, task, handler, rotation, encKey>>

Join ==
  /\ stopper = "join"
  /\ \A w \in Workers : worker[w] = "exit"
  /\ stopper' = "done"
  /\ UNCHANGED <<queueVars, stopped, worker, task, handler, rotation, encKey>>

Stop == BeginStop \/ NotifyAll \/ Join

-----------------------------------------------------------------------------
(* A key rotation, as far as the queue sees it: the gate closes, the leases *)
(* drain, run() clears the queue, the key is exchanged, the gate reopens.   *)

NoLease ==
  /\ \A h \in Handlers : handler[h] = "out"
  /\ \A w \in Workers : worker[w] # "working"

CloseGate ==
  /\ rotation = "none" /\ rotation' = "drain"
  /\ UNCHANGED <<queueVars, stopped, threadVars, encKey>>

\* Variant: active keys are dropped with the pending ones.
ClearAllKeys ==
  /\ rotation = "drain" /\ NoLease
  /\ queue' = <<>> /\ pending' = {} /\ active' = {}
  /\ rotation' = "cleared"
  /\ UNCHANGED <<capacity, stopped, threadVars, encKey>>

\* clear()
Clear ==
  /\ rotation = "drain" /\ NoLease
  /\ queue' = <<>> /\ pending' = {}
  /\ rotation' = "cleared"
  /\ UNCHANGED <<active, capacity, stopped, threadVars, encKey>>

ExchangeKey ==
  /\ rotation = "cleared"
  /\ encKey' \in EncKeys \ {encKey}
  /\ rotation' = "rekeyed"
  /\ UNCHANGED <<queueVars, stopped, threadVars>>

OpenGate ==
  /\ rotation = "rekeyed" /\ rotation' = "none"
  /\ UNCHANGED <<queueVars, stopped, threadVars, encKey>>

Rotate == CloseGate \/ Clear \/ ExchangeKey \/ OpenGate

-----------------------------------------------------------------------------
Next ==
  \/ \E h \in Handlers :
       \/ EnterHandler(h) \/ Notify(h) \/ LeaveHandler(h)
       \/ \E k \in TaskKeys, policy \in Policies : Schedule(h, k, policy)
  \/ \E w \in Workers : Work(w) \/ SpuriousWakeup(w)
  \/ \E n \in Capacities : SetCapacity(n)
  \/ Stop
  \/ Rotate

Spec == Init /\ [][Next]_vars

(* Threads run, handlers return.  Nobody has to schedule a task, to rotate  *)
(* or to stop, and no wakeup may be hoped for.                              *)
Fairness ==
  /\ \A w \in Workers : WF_vars(Work(w))
  /\ \A h \in Handlers : WF_vars(Notify(h))
  /\ WF_vars(NotifyAll) /\ WF_vars(Join)

FairSpec == Spec /\ Fairness

-----------------------------------------------------------------------------
(* Properties                                                               *)

Busy(w) == worker[w] \in {"popped", "working", "finish"}

(* The two sets are exactly the keys in the queue and the keys the workers  *)
(* have, and no key is there twice: a thumbnail is never made by two        *)
(* workers at once, and no key is refused that nobody works on.             *)
InFlightExact ==
  /\ pending = {queue[i].key : i \in 1 .. Len(queue)}
  /\ \A i, j \in 1 .. Len(queue) : queue[i].key = queue[j].key => i = j
  /\ active = {task[w].key : w \in {v \in Workers : Busy(v)}}
  /\ \A v, w \in Workers :
       Busy(v) /\ Busy(w) /\ task[v].key = task[w].key => v = w
  /\ pending \cap active = {}

(* "Thread-safe, bounded task queue": the queue grows only within the       *)
(* capacity, also after the capacity was lowered.                           *)
GrowsWithinCapacity ==
  [][Len(queue') > Len(queue) => Len(queue') <= capacity]_vars

(* A worker that reads a blob reads it under the key the blobs have, also   *)
(* when it took the task before a rotation and begins after it.             *)
ReadsUnderLiveKey ==
  \A w \in Workers : worker[w] = "working" => task[w].enc = encKey

(* No wakeup is lost: with a task in the queue, a worker is on its way to   *)
(* it or a notification is; and nobody sleeps through stop().               *)
NoLostWakeup ==
  /\ queue # <<>> /\ Workers # {} /\ ~stopped =>
       \/ \E w \in Workers : worker[w] \notin {"asleep", "exit"}
       \/ \E h \in Handlers : handler[h] = "notify"
  /\ stopped /\ Asleep # {} => stopper = "notify"

(* A task that was accepted leaves the queue unless the server stops: it is *)
(* processed, evicted, or dropped by a rotation.                            *)
AcceptedLeavesQueue ==
  \A k \in TaskKeys : k \in pending ~> (k \notin pending \/ stopped)

(* stop() returns.                                                          *)
StopReturns == stopped ~> stopper = "done"
=============================================================================
