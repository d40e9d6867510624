----------------------- MODULE ThumbnailQueueProofs -----------------------
(***************************************************************************)
(* Deduplication, the bound, the wakeups and the key discipline of         *)
(* ThumbnailQueue, for any tasks, workers, handlers, keys and capacities.  *)
(***************************************************************************)
EXTENDS ThumbnailQueue, TLAPS

(* A busy worker holds a task. *)
BusyHasTask == \A w \in Workers : Busy(w) => task[w] \in Tasks

(* Between the clearing of the queue and the reopening of the gate nobody   *)
(* holds a lease.                                                           *)
DrainedStaysDrained == rotation \in {"cleared", "rekeyed"} => NoLease

(* Workers leave only when stop() was called. *)
StopIsKnown ==
  /\ stopped <=> stopper # "idle"
  /\ \A w \in Workers : worker[w] = "exit" => stopped

IInv ==
  /\ TypeOK
  /\ BusyHasTask
  /\ InFlightExact
  /\ DrainedStaysDrained
  /\ StopIsKnown
  /\ ReadsUnderLiveKey
  /\ NoLostWakeup

-----------------------------------------------------------------------------
(* The queue.                                                               *)

(* Popping or evicting shifts the queue by one. *)
LEMMA TailOfQueue ==
  ASSUME NEW q \in Seq(Tasks), q # <<>>
  PROVE  /\ Head(q) \in Tasks /\ Tail(q) \in Seq(Tasks)
         /\ Len(Tail(q)) = Len(q) - 1 /\ Len(q) \in Nat \ {0}
         /\ Head(q) = q[1]
         /\ \A i \in 1 .. Len(q) - 1 : Tail(q)[i] = q[i + 1]
  OBVIOUS

LEMMA AppendedQueue ==
  ASSUME NEW q \in Seq(Tasks), NEW t \in Tasks
  PROVE  /\ Append(q, t) \in Seq(Tasks)
         /\ Len(Append(q, t)) = Len(q) + 1 /\ Len(q) \in Nat
         /\ \A i \in 1 .. Len(q) : Append(q, t)[i] = q[i]
         /\ Append(q, t)[Len(q) + 1] = t
  OBVIOUS

KeysIn(q) == {q[i].key : i \in 1 .. Len(q)}
Unique(q) == \A i, j \in 1 .. Len(q) : q[i].key = q[j].key => i = j

(* Removing the oldest of distinct keys removes it from the set of keys. *)
LEMMA KeysOfTail ==
  ASSUME NEW q \in Seq(Tasks), q # <<>>, Unique(q)
  PROVE  KeysIn(Tail(q)) = KeysIn(q) \ {Head(q).key} /\ Unique(Tail(q))
<1> DEFINE n == Len(q)
<1>1. /\ Len(Tail(q)) = n - 1 /\ n \in Nat \ {0} /\ Head(q) = q[1]
      /\ \A i \in 1 .. n - 1 : Tail(q)[i] = q[i + 1]
  BY TailOfQueue
<1>2. Unique(Tail(q))
  BY <1>1 DEF Unique
<1>3. ASSUME NEW k \in KeysIn(Tail(q))
      PROVE  k \in KeysIn(q) \ {Head(q).key}
  <2>1. PICK i \in 1 .. n - 1 : k = Tail(q)[i].key
    BY <1>1, <1>3 DEF KeysIn
  <2>2. k = q[i + 1].key /\ i + 1 \in 1 .. n /\ i + 1 # 1 /\ 1 \in 1 .. n
    BY <1>1, <2>1
  <2> QED BY <1>1, <2>2 DEF KeysIn, Unique
<1>4. ASSUME NEW k \in KeysIn(q) \ {Head(q).key}
      PROVE  k \in KeysIn(Tail(q))
  <2>1. PICK i \in 1 .. n : k = q[i].key
    BY <1>4 DEF KeysIn
  <2>2. i # 1
    BY <1>1, <1>4, <2>1
  <2>3. i - 1 \in 1 .. n - 1 /\ Tail(q)[i - 1] = q[i - 1 + 1] /\ i - 1 + 1 = i
    BY <1>1, <2>2
  <2> QED BY <1>1, <2>1, <2>3 DEF KeysIn
<1> QED BY <1>2, <1>3, <1>4

(* Adding a key that is not there keeps the keys distinct. *)
LEMMA KeysOfAppend ==
  ASSUME NEW q \in Seq(Tasks), NEW t \in Tasks,
         Unique(q), t.key \notin KeysIn(q)
  PROVE  /\ KeysIn(Append(q, t)) = KeysIn(q) \cup {t.key}
         /\ Unique(Append(q, t))
<1> DEFINE n == Len(q)
<1>1. /\ Len(Append(q, t)) = n + 1 /\ n \in Nat
      /\ \A i \in 1 .. n : Append(q, t)[i] = q[i]
      /\ Append(q, t)[n + 1] = t
  BY AppendedQueue
<1>2. 1 .. n + 1 = (1 .. n) \cup {n + 1}
  BY <1>1
<1>3. KeysIn(Append(q, t)) = KeysIn(q) \cup {t.key}
  BY <1>1, <1>2 DEF KeysIn
<1>4. Unique(Append(q, t))
  <2> SUFFICES ASSUME NEW i \in 1 .. n + 1, NEW j \in 1 .. n + 1,
                      Append(q, t)[i].key = Append(q, t)[j].key
               PROVE  i = j
    BY <1>1 DEF Unique
  <2>1. CASE i \in 1 .. n /\ j \in 1 .. n
    BY <1>1, <2>1 DEF Unique
  <2>2. CASE i = n + 1 /\ j \in 1 .. n
    BY <1>1, <2>2 DEF KeysIn
  <2>3. CASE i \in 1 .. n /\ j = n + 1
    BY <1>1, <2>3 DEF KeysIn
  <2> QED BY <1>2, <2>1, <2>2, <2>3
<1> QED BY <1>3, <1>4

-----------------------------------------------------------------------------
(* Steps.                                                                   *)

LEMMA InitImpliesIInv == Init => IInv
<1> SUFFICES ASSUME Init PROVE IInv
  OBVIOUS
<1>1. capacity \in Nat \ {0}
  BY ConstantsAssumption DEF Init, Clamped
<1>2. TypeOK
  <2>1. worker \in [Workers -> WorkerSteps]
    BY DEF Init, WorkerSteps
  <2>2. task \in [Workers -> Tasks \cup {None}]
        /\ handler \in [Handlers -> {"out", "in", "notify"}]
    BY DEF Init
  <2>3. queue \in Seq(Tasks)
    BY DEF Init
  <2> QED BY <1>1, <2>1, <2>2, <2>3, ConstantsAssumption DEF Init, TypeOK
<1>3. \A w \in Workers : ~Busy(w)
  BY DEF Init, Busy
<1>4. InFlightExact
  BY <1>3 DEF Init, InFlightExact
<1> QED BY <1>2, <1>3, <1>4 DEF Init, IInv, BusyHasTask, DrainedStaysDrained,
           StopIsKnown, ReadsUnderLiveKey, NoLostWakeup, Asleep

(* A step that moves no task, into or out of the queue or a worker, keeps   *)
(* the sets exact.                                                          *)
LEMMA NoTaskMoves ==
  ASSUME IInv, UNCHANGED <<queue, pending, active, task>>,
         \A w \in Workers : Busy(w)' <=> Busy(w)
  PROVE  InFlightExact' /\ BusyHasTask'
  BY DEF IInv, InFlightExact, BusyHasTask

LEMMA HandlerSteps ==
  ASSUME IInv, NEW h \in Handlers,
         EnterHandler(h) \/ Notify(h) \/ LeaveHandler(h)
  PROVE  IInv'
<1>1. TypeOK'
  BY DEF IInv, TypeOK, EnterHandler, Notify, LeaveHandler, Asleep, WorkerSteps,
         queueVars
<1>2. InFlightExact' /\ BusyHasTask'
  BY NoTaskMoves DEF IInv, TypeOK, EnterHandler, Notify, LeaveHandler, Asleep,
         Busy, queueVars
<1>3. DrainedStaysDrained'
  BY DEF IInv, TypeOK, DrainedStaysDrained, NoLease, EnterHandler, Notify,
         LeaveHandler, Asleep
<1>4. StopIsKnown'
  BY DEF IInv, TypeOK, StopIsKnown, EnterHandler, Notify, LeaveHandler, Asleep
<1>5. ReadsUnderLiveKey'
  BY DEF IInv, TypeOK, ReadsUnderLiveKey, EnterHandler, Notify, LeaveHandler,
         Asleep
<1>6. NoLostWakeup'
  <2>1. CASE EnterHandler(h) \/ LeaveHandler(h)
    BY <2>1 DEF IInv, TypeOK, NoLostWakeup, EnterHandler, LeaveHandler, Asleep,
                queueVars
  <2>2. CASE Notify(h) /\ Asleep = {}
    BY <2>2 DEF IInv, TypeOK, NoLostWakeup, StopIsKnown, Notify, Asleep,
                queueVars
  <2>3. CASE Notify(h) /\ Asleep # {}
    <3>1. PICK w \in Asleep : worker' = [worker EXCEPT ![w] = "pop"]
      BY <2>3 DEF Notify
    <3>2. w \in Workers /\ worker'[w] = "pop" /\ Asleep' \subseteq Asleep
      BY <3>1 DEF IInv, TypeOK, Asleep
    <3> QED BY <2>3, <3>2 DEF IInv, NoLostWakeup, Notify
  <2> QED BY <2>1, <2>2, <2>3
<1> QED BY <1>1, <1>2, <1>3, <1>4, <1>5, <1>6 DEF IInv

LEMMA ScheduleStep ==
  ASSUME IInv, NEW h \in Handlers, NEW k \in TaskKeys, NEW policy \in Policies,
         Schedule(h, k, policy)
  PROVE  IInv'
<1> DEFINE t == [key |-> k, enc |-> encKey]
<1>1. t \in Tasks /\ t.key = k /\ queue \in Seq(Tasks) /\ Unique(queue)
      /\ pending = KeysIn(queue) /\ k \notin pending /\ k \notin active
      /\ capacity \in Nat \ {0}
  BY DEF IInv, TypeOK, InFlightExact, Unique, KeysIn, Tasks, Schedule, Refused
<1>2. /\ queue' \in Seq(Tasks) /\ Unique(queue') /\ queue' # <<>>
      /\ pending' = KeysIn(queue') /\ pending' \subseteq pending \cup {k}
  <2>1. CASE Len(queue) >= capacity /\ policy = "DropOldest"
    <3>1. queue # <<>>
      BY <1>1, <2>1
    <3>2. /\ queue' = Append(Tail(queue), t)
          /\ pending' = (pending \ {Head(queue).key}) \cup {k}
      BY <2>1 DEF Schedule, Enqueue
    <3>3. Tail(queue) \in Seq(Tasks) /\ Unique(Tail(queue))
          /\ KeysIn(Tail(queue)) = pending \ {Head(queue).key}
      BY <1>1, <3>1, TailOfQueue, KeysOfTail
    <3>4. t.key \notin KeysIn(Tail(queue))
      BY <1>1, <3>3
    <3>5. KeysIn(queue') = KeysIn(Tail(queue)) \cup {t.key} /\ Unique(queue')
      BY <1>1, <3>2, <3>3, <3>4, KeysOfAppend
    <3>6. queue' \in Seq(Tasks) /\ queue' # <<>>
      BY <1>1, <3>2, <3>3, AppendedQueue
    <3> QED BY <1>1, <3>2, <3>3, <3>5, <3>6
  <2>2. CASE ~(Len(queue) >= capacity /\ policy = "DropOldest")
    <3>1. queue' = Append(queue, t) /\ pending' = pending \cup {k}
      BY <2>2 DEF Schedule, Enqueue
    <3>2. KeysIn(queue') = KeysIn(queue) \cup {t.key} /\ Unique(queue')
      BY <1>1, <3>1, KeysOfAppend
    <3>3. queue' \in Seq(Tasks) /\ queue' # <<>>
      BY <1>1, <3>1, AppendedQueue
    <3> QED BY <1>1, <3>1, <3>2, <3>3
  <2> QED BY <2>1, <2>2
<1>3. UNCHANGED <<active, capacity, stopped, worker, task, stopper, rotation,
                  encKey>>
      /\ handler' = [handler EXCEPT ![h] = "notify"] /\ handler[h] = "in"
  BY DEF Schedule
<1>4. TypeOK'
  BY <1>1, <1>2, <1>3 DEF IInv, TypeOK
<1>5. InFlightExact' /\ BusyHasTask'
  <2>1. BusyHasTask' /\ \A w \in Workers : Busy(w)' <=> Busy(w)
    BY <1>3 DEF IInv, BusyHasTask, Busy
  <2>2. pending' \cap active' = {}
    BY <1>1, <1>2, <1>3 DEF IInv, InFlightExact
  <2>3. /\ active' = {task[w].key : w \in {v \in Workers : Busy(v)}}'
        /\ (\A v, w \in Workers :
              Busy(v) /\ Busy(w) /\ task[v].key = task[w].key => v = w)'
    BY <1>3, <2>1 DEF IInv, InFlightExact
  <2> QED BY <1>2, <2>1, <2>2, <2>3 DEF InFlightExact, Unique, KeysIn
<1>6. DrainedStaysDrained'
  BY <1>3 DEF IInv, DrainedStaysDrained, NoLease
<1>7. StopIsKnown' /\ ReadsUnderLiveKey'
  BY <1>3 DEF IInv, StopIsKnown, ReadsUnderLiveKey
<1>8. NoLostWakeup'
  BY <1>3 DEF IInv, TypeOK, NoLostWakeup, Asleep
<1> QED BY <1>4, <1>5, <1>6, <1>7, <1>8 DEF IInv

(* A worker moves on without a task changing hands. *)
LEMMA MovingWorker ==
  ASSUME IInv, NEW w \in Workers,
         LoopHead(w) \/ WaitForTask(w) \/ SpuriousWakeup(w) \/ BeginTask(w)
           \/ EndTask(w)
  PROVE  IInv'
<1>1. TypeOK'
  BY DEF IInv, TypeOK, LoopHead, WaitForTask, SpuriousWakeup, BeginTask, EndTask,
         WorkerSteps, queueVars
<1>2. InFlightExact' /\ BusyHasTask'
  BY NoTaskMoves DEF IInv, TypeOK, LoopHead, WaitForTask, SpuriousWakeup,
         BeginTask, EndTask, Busy, queueVars
<1>3. DrainedStaysDrained'
  BY DEF IInv, TypeOK, DrainedStaysDrained, NoLease, LoopHead, WaitForTask,
         SpuriousWakeup, BeginTask, MayProcess, EndTask
<1>4. StopIsKnown'
  BY DEF IInv, TypeOK, StopIsKnown, LoopHead, WaitForTask, SpuriousWakeup,
         BeginTask, EndTask
<1>5. ReadsUnderLiveKey'
  BY DEF IInv, TypeOK, ReadsUnderLiveKey, LoopHead, WaitForTask, SpuriousWakeup,
         BeginTask, MayProcess, EndTask
<1>6. NoLostWakeup'
  BY DEF IInv, TypeOK, NoLostWakeup, StopIsKnown, LoopHead, WaitForTask,
         SpuriousWakeup, BeginTask, EndTask, Asleep, queueVars
<1> QED BY <1>1, <1>2, <1>3, <1>4, <1>5, <1>6 DEF IInv

LEMMA PopStep ==
  ASSUME IInv, NEW w \in Workers, Pop(w)
  PROVE  IInv'
<1> DEFINE t == Head(queue)
<1>1. /\ queue \in Seq(Tasks) /\ queue # <<>> /\ Unique(queue)
      /\ pending = KeysIn(queue) /\ worker[w] = "pop"
  BY DEF IInv, TypeOK, InFlightExact, Unique, KeysIn, Pop
<1>2. /\ queue' = Tail(queue) /\ pending' = pending \ {t.key}
      /\ active' = active \cup {t.key}
      /\ task' = [task EXCEPT ![w] = t]
      /\ worker' = [worker EXCEPT ![w] = "popped"]
      /\ UNCHANGED <<capacity, stopped, handler, stopper, rotation, encKey>>
  BY DEF Pop
<1>3. /\ t \in Tasks /\ queue' \in Seq(Tasks) /\ Unique(queue')
      /\ pending' = KeysIn(queue')
  BY <1>1, <1>2, TailOfQueue, KeysOfTail
<1>4. t.key \in TaskKeys /\ t.key \in pending /\ t.key \notin active
  <2>1. t.key \in KeysIn(queue)
    <3>1. t = queue[1] /\ 1 \in 1 .. Len(queue)
      BY <1>1, TailOfQueue
    <3> QED BY <3>1 DEF KeysIn
  <2> QED BY <1>1, <1>3, <2>1 DEF IInv, InFlightExact, Tasks
<1>5. /\ worker'[w] = "popped" /\ task'[w] = t
      /\ \A v \in Workers \ {w} : worker'[v] = worker[v] /\ task'[v] = task[v]
  BY <1>2 DEF IInv, TypeOK
<1>6. TypeOK'
  BY <1>2, <1>3, <1>4 DEF IInv, TypeOK, WorkerSteps
<1>7. BusyHasTask'
  BY <1>3, <1>5 DEF IInv, BusyHasTask, Busy
<1>8. InFlightExact'
  <2>1. {v \in Workers : Busy(v)}' = {v \in Workers : Busy(v)} \cup {w}
        /\ w \notin {v \in Workers : Busy(v)}
    BY <1>1, <1>5 DEF Busy
  <2>2. active' = {task[v].key : v \in {u \in Workers : Busy(u)}}'
    BY <1>2, <1>5, <2>1 DEF IInv, InFlightExact
  <2>3. (\A u, v \in Workers :
          Busy(u) /\ Busy(v) /\ task[u].key = task[v].key => u = v)'
    <3>1. \A v \in Workers : Busy(v) => task[v].key # t.key
      BY <1>4 DEF IInv, InFlightExact
    <3> QED BY <1>5, <2>1, <3>1 DEF IInv, InFlightExact, Busy
  <2>4. pending' \cap active' = {}
    BY <1>2 DEF IInv, InFlightExact
  <2> QED BY <1>3, <2>2, <2>3, <2>4 DEF InFlightExact, Unique, KeysIn
<1>9. DrainedStaysDrained' /\ ReadsUnderLiveKey'
  BY <1>2, <1>5 DEF IInv, DrainedStaysDrained, NoLease, ReadsUnderLiveKey
<1>10. StopIsKnown' /\ NoLostWakeup'
  BY <1>2, <1>5 DEF IInv, StopIsKnown, NoLostWakeup, Asleep
<1> QED BY <1>6, <1>7, <1>8, <1>9, <1>10 DEF IInv

LEMMA FinishTaskStep ==
  ASSUME IInv, NEW w \in Workers, FinishTask(w)
  PROVE  IInv'
<1>1. /\ active' = active \ {task[w].key}
      /\ UNCHANGED <<queue, pending, capacity, stopped, handler, stopper,
                     rotation, encKey>>
  BY DEF FinishTask
<1>2. /\ worker[w] = "finish" /\ worker'[w] = "loop"
      /\ \A v \in Workers \ {w} : worker'[v] = worker[v] /\ task'[v] = task[v]
  BY DEF IInv, TypeOK, FinishTask
<1>3. TypeOK'
  BY DEF IInv, TypeOK, FinishTask, WorkerSteps
<1>4. BusyHasTask'
  BY <1>2 DEF IInv, BusyHasTask, Busy
<1>5. InFlightExact'
  <2>1. {v \in Workers : Busy(v)}' = {v \in Workers : Busy(v)} \ {w}
        /\ w \in {v \in Workers : Busy(v)}
    BY <1>2 DEF Busy
  <2>2. active' = {task[v].key : v \in {u \in Workers : Busy(u)}}'
    <3>1. \A v \in Workers \ {w} : Busy(v) => task[v].key # task[w].key
      BY <2>1 DEF IInv, InFlightExact
    <3> QED BY <1>1, <1>2, <2>1, <3>1 DEF IInv, InFlightExact
  <2>3. (\A u, v \in Workers :
          Busy(u) /\ Busy(v) /\ task[u].key = task[v].key => u = v)'
    BY <1>2, <2>1 DEF IInv, InFlightExact, Busy
  <2> QED BY <1>1, <2>2, <2>3 DEF IInv, InFlightExact
<1>6. DrainedStaysDrained' /\ ReadsUnderLiveKey'
  BY <1>1, <1>2 DEF IInv, DrainedStaysDrained, NoLease, ReadsUnderLiveKey
<1>7. StopIsKnown' /\ NoLostWakeup'
  BY <1>1, <1>2 DEF IInv, StopIsKnown, NoLostWakeup, Asleep
<1> QED BY <1>3, <1>4, <1>5, <1>6, <1>7 DEF IInv

LEMMA SetCapacityStep ==
  ASSUME IInv, NEW n \in Capacities, SetCapacity(n)
  PROVE  IInv'
<1>1. /\ capacity' \in Nat \ {0}
      /\ UNCHANGED <<queue, pending, active, stopped, worker, task, handler,
                     stopper, rotation, encKey>>
  BY ConstantsAssumption DEF SetCapacity, Clamped, threadVars
<1>2. InFlightExact' /\ BusyHasTask'
  BY <1>1, NoTaskMoves DEF Busy
<1> QED BY <1>1, <1>2 DEF IInv, TypeOK, DrainedStaysDrained, NoLease,
           StopIsKnown, ReadsUnderLiveKey, NoLostWakeup, Asleep

LEMMA StopSteps ==
  ASSUME IInv, Stop
  PROVE  IInv'
<1>1. /\ UNCHANGED <<queueVars, task, handler, rotation, encKey>>
      /\ \A w \in Workers :
           \/ worker'[w] = worker[w]
           \/ worker[w] = "asleep" /\ worker'[w] = "pop"
      /\ stopped' = TRUE /\ stopper' # "idle"
  BY DEF IInv, TypeOK, StopIsKnown, Stop, BeginStop, NotifyAll, Join
<1>2. TypeOK'
  BY DEF IInv, TypeOK, Stop, BeginStop, NotifyAll, Join, WorkerSteps, queueVars
<1>3. InFlightExact' /\ BusyHasTask'
  BY <1>1, NoTaskMoves DEF Busy, queueVars
<1>4. DrainedStaysDrained' /\ ReadsUnderLiveKey' /\ StopIsKnown'
  BY <1>1 DEF IInv, DrainedStaysDrained, NoLease, ReadsUnderLiveKey, StopIsKnown
<1>5. NoLostWakeup'
  <2>1. Asleep' # {} => stopper' = "notify"
    BY DEF IInv, TypeOK, StopIsKnown, NoLostWakeup, Stop, BeginStop, NotifyAll,
           Join, Asleep
  <2> QED BY <1>1, <2>1 DEF NoLostWakeup
<1> QED BY <1>2, <1>3, <1>4, <1>5 DEF IInv

LEMMA RotateSteps ==
  ASSUME IInv, Rotate
  PROVE  IInv'
<1>1. UNCHANGED <<active, capacity, stopped, worker, task, handler, stopper>>
  BY DEF Rotate, CloseGate, Clear, ExchangeKey, OpenGate, queueVars, threadVars
<1>2. TypeOK'
  <2>1. queue' = queue \/ queue' = <<>>
    BY DEF Rotate, CloseGate, Clear, ExchangeKey, OpenGate, queueVars
  <2>2. queue' \in Seq(Tasks)
    <3>1. queue \in Seq(Tasks)
      BY DEF IInv, TypeOK
    <3>2. <<>> \in Seq(Tasks)
      OBVIOUS
    <3> QED BY <2>1, <3>1, <3>2
  <2>3. pending' \subseteq TaskKeys /\ encKey' \in EncKeys
        /\ rotation' \in {"none", "drain", "cleared", "rekeyed"}
    BY DEF IInv, TypeOK, Rotate, CloseGate, Clear, ExchangeKey, OpenGate,
           queueVars
  <2> QED BY <1>1, <2>2, <2>3 DEF IInv, TypeOK
<1>3. InFlightExact' /\ BusyHasTask'
  <2>1. CASE UNCHANGED <<queue, pending>>
    BY <1>1, <2>1, NoTaskMoves DEF Busy
  <2>2. CASE queue' = <<>> /\ pending' = {}
    BY <1>1, <2>2 DEF IInv, InFlightExact, BusyHasTask, Busy
  <2> QED BY <2>1, <2>2 DEF Rotate, CloseGate, Clear, ExchangeKey, OpenGate,
                            queueVars
<1>4. DrainedStaysDrained' /\ ReadsUnderLiveKey'
  BY <1>1 DEF IInv, DrainedStaysDrained, NoLease, ReadsUnderLiveKey, Rotate,
              CloseGate, Clear, ExchangeKey, OpenGate
<1>5. StopIsKnown' /\ NoLostWakeup'
  BY <1>1 DEF IInv, StopIsKnown, NoLostWakeup, Asleep, Rotate, CloseGate, Clear,
              ExchangeKey, OpenGate, queueVars
<1> QED BY <1>2, <1>3, <1>4, <1>5 DEF IInv

LEMMA StepKeepsIInv == IInv /\ [Next]_vars => IInv'
<1> SUFFICES ASSUME IInv, [Next]_vars PROVE IInv'
  OBVIOUS
<1>1. CASE \E h \in Handlers :
             EnterHandler(h) \/ Notify(h) \/ LeaveHandler(h)
  BY <1>1, HandlerSteps
<1>2. CASE \E h \in Handlers, k \in TaskKeys, policy \in Policies :
             Schedule(h, k, policy)
  BY <1>2, ScheduleStep
<1>3. CASE \E w \in Workers : Work(w) \/ SpuriousWakeup(w)
  BY <1>3, MovingWorker, PopStep, FinishTaskStep DEF Work
<1>4. CASE \E n \in Capacities : SetCapacity(n)
  BY <1>4, SetCapacityStep
<1>5. CASE Stop
  BY <1>5, StopSteps
<1>6. CASE Rotate
  BY <1>6, RotateSteps
<1>7. CASE UNCHANGED vars
  <2>1. UNCHANGED <<queue, pending, active, capacity, stopped, worker, task,
                    handler, stopper, rotation, encKey>>
    BY <1>7 DEF vars, queueVars, threadVars
  <2>2. InFlightExact' /\ BusyHasTask'
    BY <2>1, NoTaskMoves DEF Busy
  <2> QED BY <2>1, <2>2 DEF IInv, TypeOK, DrainedStaysDrained, NoLease,
             StopIsKnown, ReadsUnderLiveKey, NoLostWakeup, Asleep
<1> QED BY <1>1, <1>2, <1>3, <1>4, <1>5, <1>6, <1>7 DEF Next

-----------------------------------------------------------------------------
(* Theorems.                                                                *)

THEOREM InvariantHolds == Spec => []IInv
  BY InitImpliesIInv, StepKeepsIInv, PTL DEF Spec

(* The state of the queue is well formed; the capacity is never 0, which    *)
(* would make an empty queue evict (ThumbnailQueue.cpp:129-139).            *)
THEOREM QueueTypes == Spec => []TypeOK
<1>1. IInv => TypeOK
  BY DEF IInv
<1> QED BY <1>1, InvariantHolds, PTL

(* The deduplication sets of ThumbnailQueue are exact whatever the threads, *)
(* evictions and rotations do.                                              *)
THEOREM DeduplicationIsExact == Spec => []InFlightExact
<1>1. IInv => InFlightExact
  BY DEF IInv
<1> QED BY <1>1, InvariantHolds, PTL

(* processTask() never reads with a key that a rotation has replaced.       *)
THEOREM WorkersUseLiveKey == Spec => []ReadsUnderLiveKey
<1>1. IInv => ReadsUnderLiveKey
  BY DEF IInv
<1> QED BY <1>1, InvariantHolds, PTL

(* No schedule or stop() is slept through.                                  *)
THEOREM NoWakeupIsLost == Spec => []NoLostWakeup
<1>1. IInv => NoLostWakeup
  BY DEF IInv
<1> QED BY <1>1, InvariantHolds, PTL

(* The queue never grows beyond the capacity of the moment.                 *)
THEOREM QueueIsBounded == Spec => GrowsWithinCapacity
<1>1. ASSUME IInv, [Next]_vars
      PROVE  [Len(queue') > Len(queue) => Len(queue') <= capacity]_vars
  <2> SUFFICES ASSUME Len(queue') > Len(queue) PROVE Len(queue') <= capacity
    OBVIOUS
  <2>1. queue \in Seq(Tasks) /\ capacity \in Nat \ {0} /\ encKey \in EncKeys
    BY <1>1 DEF IInv, TypeOK
  <2>2. CASE \E h \in Handlers, k \in TaskKeys, policy \in Policies :
               Schedule(h, k, policy)
    <3>1. PICK h \in Handlers, k \in TaskKeys, policy \in Policies :
                 Schedule(h, k, policy)
      BY <2>2
    <3> DEFINE t == [key |-> k, enc |-> encKey]
    <3>2. t \in Tasks
      BY <2>1 DEF Tasks
    <3>3. CASE Len(queue) >= capacity /\ policy = "DropOldest"
      <4>1. queue # <<>> /\ queue' = Append(Tail(queue), t)
        BY <2>1, <3>1, <3>3 DEF Schedule, Enqueue
      <4>2. Tail(queue) \in Seq(Tasks) /\ Len(Tail(queue)) = Len(queue) - 1
            /\ Len(queue) \in Nat
        BY <2>1, <4>1, TailOfQueue
      <4>3. Len(queue') = Len(Tail(queue)) + 1
        BY <3>2, <4>1, <4>2, AppendedQueue
      <4> QED BY <4>2, <4>3
    <3>4. CASE ~(Len(queue) >= capacity /\ policy = "DropOldest")
      <4>1. queue' = Append(queue, t)
        BY <3>1, <3>4 DEF Schedule, Enqueue
      <4>2. ~(Len(queue) >= capacity)
        BY <3>1, <3>4, ConstantsAssumption DEF Schedule, Refused
      <4>3. Len(queue') = Len(queue) + 1 /\ Len(queue) \in Nat
        BY <2>1, <3>2, <4>1, AppendedQueue
      <4> QED BY <2>1, <4>2, <4>3
    <3> QED BY <3>3, <3>4
  <2>3. CASE UNCHANGED queue
    BY <2>1, <2>3
  <2>4. CASE \E w \in Workers : Pop(w)
    <3>1. queue # <<>> /\ queue' = Tail(queue)
      BY <2>4 DEF Pop
    <3>2. Len(queue') = Len(queue) - 1 /\ Len(queue) \in Nat
      BY <2>1, <3>1, TailOfQueue
    <3> QED BY <3>2
  <2>5. CASE Clear
    BY <2>1, <2>5 DEF Clear
  <2> QED
    BY <1>1, <2>2, <2>3, <2>4, <2>5 DEF Next, Work, Stop, Rotate, EnterHandler,
       Notify, LeaveHandler, LoopHead, WaitForTask, BeginTask, EndTask,
       FinishTask, SpuriousWakeup, SetCapacity, BeginStop, NotifyAll, Join,
       CloseGate, ExchangeKey, OpenGate, vars, queueVars
<1> QED BY <1>1, InvariantHolds, PTL DEF Spec, GrowsWithinCapacity
=============================================================================
