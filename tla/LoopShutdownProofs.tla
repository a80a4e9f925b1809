------------------------- MODULE LoopShutdownProofs -------------------------
(***************************************************************************)
(* Theorems about EventLoop, for any number of tasks, timers, handles and  *)
(* sockets, and about SignalHandler under LoopShutdown, for all sets of    *)
(* signals, threads and addresses of handlers.                             *)
(***************************************************************************)
EXTENDS LoopShutdown, LoopTimersProofs, SequenceTheorems, FiniteSetTheorems

USE TimersAssumption, PollerAssumption, EventLoopAssumption
USE DEF TimersAssumption, PollerAssumption, EventLoopAssumption

-----------------------------------------------------------------------------
\* EventLoop: type correctness.

(* The timeout run() computes is one the poller accepts. *)
LEMMA CalculateTimeoutType ==
  ASSUME TypeOK
  PROVE  CalculateTimeout \subseteq Nat
  BY DEF TypeOK, TimersTypeOK, TimerRecord, TimerIds, CalculateTimeout, Live

(* The initial state has the types of TypeOK. *)
LEMMA InitType == Init => TypeOK
<1> SUFFICES ASSUME Init PROVE TypeOK
  OBVIOUS
<1>1. TimersTypeOK
  <2>1. inPass \in BOOLEAN /\ detached \in BOOLEAN
    BY DEF Init, TimersInit
  <2> QED
    BY <2>1 DEF Init, TimersInit, TimersTypeOK, TimerRecord, TimerIds
<1>2. PollerTypeOK
  BY DEF Init, PollerInit, PollerTypeOK
<1>3. <<>> \in Seq(Tasks)
  BY EmptySeq
<1>4. running \in BOOLEAN /\ stopped \in BOOLEAN
  BY DEF Init
<1>5. call \in [handle : Handles \union {0}, handler : 0..MaxSockets]
  BY DEF Init, NoCall
<1> QED
  BY <1>1, <1>2, <1>3, <1>4, <1>5 DEF Init, TypeOK, PCs

(* The operations of the poller keep the types of its variables. *)
PollerStep ==
  \/ \E h \in Handles :
       \/ OpenSocket(h) \/ CloseSocket(h) \/ RegisterSocket(h)
       \/ ModifySocket(h) \/ UnregisterSocket(h)
       \/ DataArrives(h) \/ Drain(h)
  \/ Collect
  \/ events' \subseteq events /\ UNCHANGED <<socket, opened, polled, ready, handlers>>

(* The poller and the handler map keep their types. *)
LEMMA PollerStepType ==
  ASSUME PollerTypeOK, PollerStep
  PROVE  PollerTypeOK'
<1> USE DEF PollerTypeOK
<1>1. ASSUME NEW h \in Handles,
             \/ OpenSocket(h) \/ CloseSocket(h) \/ RegisterSocket(h)
             \/ ModifySocket(h) \/ UnregisterSocket(h)
             \/ DataArrives(h) \/ Drain(h)
      PROVE  PollerTypeOK'
  BY <1>1 DEF OpenSocket, CloseSocket, RegisterSocket, ModifySocket,
              UnregisterSocket, DataArrives, Drain
<1>2. CASE Collect
  BY <1>2 DEF Collect, Reportable, Event, Sockets
<1>3. CASE events' \subseteq events /\ UNCHANGED <<socket, opened, polled, ready, handlers>>
  BY <1>3
<1> QED
  BY <1>1, <1>2, <1>3 DEF PollerStep

(* Every step of the loop is a step of its timer service ... *)
TimersStep == TimersOp \/ (CallbacksThrow /\ PassAbort)

(* A step of the loop is one of its timer service, or none to it. *)
LEMMA NextTimersStep == [Next]_vars => TimersStep
<1> USE CancelMarks DEF TimersStep, TimersOp
<1>1. ASSUME Next PROVE TimersStep
  <2>1. CASE LoopIteration
    BY <2>1 DEF LoopIteration, RunReset, LoopExit, LoopAgain, SwapTasks, RunTask,
                WaitBegin, PollEvents, PollTimeout, PollNothing, Dispatch,
                TimersBegin, FireTimer, TimersEnd
  <2>2. CASE Returns
    BY <2>2 DEF Returns, TaskReturns, HandlerReturns, TimerReturns
  <2>3. CASE Failures
    BY <2>3 DEF Failures, PollInterrupted, PollNothing, PollError, TimersCrash,
                CallbackThrows
  <2>4. CASE Users
    BY <2>4 DEF Users, RunEnter, RunOnce, Post, Stop, UserSchedules, UserCancels,
                UserOnSocket
  <2>5. CASE Environment
    BY <2>5 DEF Environment, Tick, NetworkData
  <2> QED
    BY <1>1, <2>1, <2>2, <2>3, <2>4, <2>5 DEF Next
<1>2. CASE UNCHANGED vars
  BY <1>2 DEF vars
<1> QED
  BY <1>1, <1>2

(* ... and a step of its poller. *)
LEMMA NextPollerStep == [Next]_vars => PollerStep
<1> USE DEF PollerStep
<1>1. ASSUME Next PROVE PollerStep
  <2>1. CASE LoopIteration
    BY <2>1 DEF LoopIteration, RunReset, LoopExit, LoopAgain, SwapTasks, RunTask,
                WaitBegin, PollEvents, PollTimeout, PollNothing, Dispatch,
                TimersBegin, FireTimer, TimersEnd, pollerVars
  <2>2. CASE Returns
    BY <2>2 DEF Returns, TaskReturns, HandlerReturns, TimerReturns, pollerVars
  <2>3. CASE Failures
    BY <2>3 DEF Failures, PollInterrupted, PollNothing, PollError, TimersCrash,
                CallbackThrows, pollerVars
  <2>4. CASE Users
    BY <2>4 DEF Users, RunEnter, RunOnce, Post, Stop, UserSchedules, UserCancels,
                UserOnSocket, pollerVars
  <2>5. CASE Environment
    BY <2>5 DEF Environment, Tick, NetworkData, pollerVars
  <2> QED
    BY <1>1, <2>1, <2>2, <2>3, <2>4, <2>5 DEF Next
<1>2. CASE UNCHANGED vars
  BY <1>2 DEF vars, pollerVars
<1> QED
  BY <1>1, <1>2

(* The task queue, its batch and the histories stay sequences of tasks. *)
TasksTypeOK == /\ taskQueue \in Seq(Tasks)
               /\ batch \in Seq(Tasks)
               /\ posted \in Seq(Tasks)
               /\ ran \in Seq(Tasks)

(* The queue and the batch keep their types. *)
LEMMA TasksStepType ==
  ASSUME TasksTypeOK, [Next]_vars
  PROVE  TasksTypeOK'
<1> USE DEF TasksTypeOK
<1>1. <<>> \in Seq(Tasks)
  BY EmptySeq
<1>2. CASE SwapTasks
  BY <1>1, <1>2 DEF SwapTasks
<1>3. CASE RunTask
  BY <1>3, HeadTailProperties DEF RunTask
<1>4. CASE CallbackThrows
  BY <1>1, <1>4 DEF CallbackThrows
<1>5. ASSUME NEW t \in Tasks, Post(t)
      PROVE  TasksTypeOK'
  BY <1>5 DEF Post
<1>6. CASE UNCHANGED taskVars
  BY <1>6 DEF taskVars
<1>7. \/ SwapTasks \/ RunTask \/ CallbackThrows
      \/ \E t \in Tasks : Post(t)
      \/ UNCHANGED taskVars
  BY DEF Next, vars, LoopIteration, Returns, Failures, Users, Environment,
         RunReset, LoopExit, LoopAgain, WaitBegin, PollEvents, PollTimeout,
         PollNothing, Dispatch, TimersBegin, FireTimer, TimersEnd, TaskReturns,
         HandlerReturns, TimerReturns, PollInterrupted, PollError, TimersCrash,
         RunEnter, RunOnce, Stop, UserSchedules, UserCancels, UserOnSocket,
         Tick, NetworkData
<1> QED
  BY <1>2, <1>3, <1>4, <1>5, <1>6, <1>7

(* The program counter, the mode, the waits and the running call keep      *)
(* their types.                                                            *)
ControlTypeOK ==
  /\ pc \in PCs
  /\ mode \in {"run", "once"}
  /\ timeout \in Nat \union {-1}
  /\ waitLeft \in Nat \union {-1}
  /\ call \in [handle : Handles \union {0}, handler : 0..MaxSockets]

(* The loop's own variables keep their types. *)
LEMMA ControlStepType ==
  ASSUME TypeOK, [Next]_vars
  PROVE  ControlTypeOK'
<1>0. ControlTypeOK
  BY DEF TypeOK, ControlTypeOK
<1> USE DEF ControlTypeOK, PCs
<1>1. CASE LoopIteration
  <2>1. CASE LoopAgain
    BY <1>0, <2>1, CalculateTimeoutType DEF LoopAgain
  <2>2. ASSUME NEW e \in events, Dispatch(e)
        PROVE  ControlTypeOK'
    <3>1. e \in Event
      BY DEF TypeOK, PollerTypeOK
    <3>2. Lookup(e) \in 0..MaxSockets
      BY <3>1 DEF Lookup, Event, TypeOK, PollerTypeOK
    <3>3. call' \in [handle : Handles \union {0}, handler : 0..MaxSockets]
      BY <2>2, <3>1, <3>2 DEF Dispatch, Event, NoCall
    <3> QED
      BY <1>0, <2>2, <3>3 DEF Dispatch
  <2>3. CASE RunReset \/ LoopExit \/ SwapTasks \/ RunTask \/ WaitBegin
    BY <1>0, <2>3 DEF RunReset, LoopExit, SwapTasks, RunTask, WaitBegin
  <2>4. CASE PollEvents \/ PollTimeout \/ TimersBegin \/ TimersEnd
    BY <1>0, <2>4 DEF PollEvents, PollTimeout, PollNothing, TimersBegin, TimersEnd,
                      AfterOnce
  <2>5. ASSUME NEW i \in TimerIds, FireTimer(i)
        PROVE  ControlTypeOK'
    BY <1>0, <2>5 DEF FireTimer, controlVars
  <2> QED
    BY <1>1, <2>1, <2>2, <2>3, <2>4, <2>5 DEF LoopIteration
<1>2. CASE Returns
  BY <1>0, <1>2 DEF Returns, TaskReturns, HandlerReturns, TimerReturns, controlVars, NoCall
<1>3. CASE Failures
  <2>1. CASE CallbackThrows
    BY <1>0, <2>1 DEF CallbackThrows, NoCall
  <2>2. CASE PollInterrupted \/ TimersCrash
    BY <1>0, <2>2 DEF PollInterrupted, PollNothing, TimersCrash
  <2>3. CASE PollError
    <3>1. pc' = "idle" /\ UNCHANGED <<mode, timeout, waitLeft, call>>
      BY <2>3 DEF PollError
    <3> QED
      BY <1>0, <3>1
  <2> QED
    BY <1>3, <2>1, <2>2, <2>3 DEF Failures
<1>4. CASE Users
  BY <1>0, <1>4 DEF Users, RunEnter, RunOnce, Post, Stop, UserSchedules, UserCancels,
                    UserOnSocket, controlVars
<1>5. CASE Environment
  BY <1>0, <1>5 DEF Environment, Tick, NetworkData, controlVars
<1>6. CASE UNCHANGED vars
  BY <1>0, <1>6 DEF vars, controlVars
<1> QED
  BY <1>1, <1>2, <1>3, <1>4, <1>5, <1>6 DEF Next

(* The two atomic flags stay Boolean. *)
LEMMA FlagsStepType ==
  ASSUME TypeOK, [Next]_vars
  PROVE  running' \in BOOLEAN /\ stopped' \in BOOLEAN
<1>1. \/ running' \in BOOLEAN
      \/ running' = running
  BY DEF Next, vars, controlVars, LoopIteration, Returns, Failures, Users, Environment,
         RunReset, LoopExit, LoopAgain, SwapTasks, RunTask, WaitBegin, PollEvents,
         PollTimeout, PollNothing, Dispatch, TimersBegin, FireTimer, TimersEnd,
         TaskReturns, HandlerReturns, TimerReturns, PollInterrupted, PollError,
         TimersCrash, CallbackThrows, RunEnter, RunOnce, Post, Stop, UserSchedules,
         UserCancels, UserOnSocket, Tick, NetworkData
<1>2. \/ stopped' \in BOOLEAN
      \/ stopped' = stopped
  BY DEF Next, vars, controlVars, LoopIteration, Returns, Failures, Users, Environment,
         RunReset, LoopExit, LoopAgain, SwapTasks, RunTask, WaitBegin, PollEvents,
         PollTimeout, PollNothing, Dispatch, TimersBegin, FireTimer, TimersEnd,
         TaskReturns, HandlerReturns, TimerReturns, PollInterrupted, PollError,
         TimersCrash, CallbackThrows, RunEnter, RunOnce, Post, Stop, UserSchedules,
         UserCancels, UserOnSocket, Tick, NetworkData
<1> QED
  BY <1>1, <1>2, Zenon DEF TypeOK

(* Type correctness of the loop, its timers and its poller: every reachable *)
(* state of event_loop, its timer vector and its poller is well-typed.      *)
THEOREM TypeCorrect == Spec => []TypeOK
<1>1. TypeOK /\ [Next]_vars => TypeOK'
  <2> SUFFICES ASSUME TypeOK, [Next]_vars PROVE TypeOK'
    OBVIOUS
  <2>1. TimersTypeOK'
    BY NextTimersStep, TimersStepType DEF TypeOK, TimersStep
  <2>2. PollerTypeOK'
    BY NextPollerStep, PollerStepType DEF TypeOK
  <2>3. TasksTypeOK'
    BY TasksStepType DEF TypeOK, TasksTypeOK
  <2> QED
    BY <2>1, <2>2, <2>3, ControlStepType, FlagsStepType, Zenon
    DEF TypeOK, TasksTypeOK, ControlTypeOK
<1> QED
  BY <1>1, InitType, PTL DEF Spec

-----------------------------------------------------------------------------
\* Tasks are executed in order.

(* Taking the first task from a batch in front of the queue takes the first *)
(* task of both.                                                            *)
LEMMA HeadTailOfConcat ==
  ASSUME NEW S, NEW s \in Seq(S), NEW q \in Seq(S), s # <<>>
  PROVE  /\ s \o q # <<>>
         /\ Head(s \o q) = Head(s)
         /\ Tail(s \o q) = Tail(s) \o q
<1>1. Len(s) \in Nat \ {0} /\ Len(q) \in Nat
  BY EmptySeq, LenProperties
<1>2. s \o q \in Seq(S) /\ Len(s \o q) = Len(s) + Len(q)
  BY ConcatProperties
<1>3. s \o q # <<>>
  BY <1>1, <1>2, EmptySeq
<1>4. Head(s \o q) = Head(s)
  BY <1>1, <1>2, ConcatProperties
<1>5. Tail(s \o q) = Tail(s) \o q
  <2>1. Tail(s \o q) \in Seq(S) /\ Len(Tail(s \o q)) = Len(s) + Len(q) - 1
    BY <1>2, <1>3, HeadTailProperties
  <2>2. Tail(s) \in Seq(S) /\ Len(Tail(s)) = Len(s) - 1
    BY HeadTailProperties
  <2>3. Tail(s) \o q \in Seq(S) /\ Len(Tail(s) \o q) = Len(s) - 1 + Len(q)
    BY <2>2, ConcatProperties
  <2>4. ASSUME NEW i \in 1..Len(Tail(s \o q))
        PROVE  Tail(s \o q)[i] = (Tail(s) \o q)[i]
    <3>1. Tail(s \o q)[i] = (s \o q)[i + 1]
      BY <1>2, <1>3, HeadTailProperties
    <3>2. (s \o q)[i + 1] = IF i + 1 <= Len(s) THEN s[i + 1] ELSE q[i + 1 - Len(s)]
      BY <1>1, <2>1, ConcatProperties
    <3>3. (Tail(s) \o q)[i] = IF i <= Len(s) - 1 THEN Tail(s)[i]
                                                  ELSE q[i - (Len(s) - 1)]
      BY <1>1, <2>1, <2>2, ConcatProperties
    <3>4. i <= Len(s) - 1 => Tail(s)[i] = s[i + 1]
      BY <1>1, <2>2, HeadTailProperties
    <3> QED
      BY <1>1, <2>1, <3>1, <3>2, <3>3, <3>4
  <2> QED
    BY <2>1, <2>3, <2>4, SeqEqual
<1> QED
  BY <1>3, <1>4, <1>5

(* A task appended to the queue is appended to batch and queue. *)
LEMMA AppendToConcat ==
  ASSUME NEW S, NEW s \in Seq(S), NEW q \in Seq(S), NEW t \in S
  PROVE  s \o Append(q, t) = Append(s \o q, t)
<1>1. s \o q \in Seq(S) /\ Len(s \o q) = Len(s) + Len(q)
  BY ConcatProperties
<1>2. Append(q, t) \in Seq(S) /\ Len(Append(q, t)) = Len(q) + 1
  OBVIOUS
<1>3. s \o Append(q, t) \in Seq(S) /\ Len(s \o Append(q, t)) = Len(s) + Len(q) + 1
  BY <1>2, ConcatProperties, LenProperties
<1>4. Append(s \o q, t) \in Seq(S) /\ Len(Append(s \o q, t)) = Len(s) + Len(q) + 1
  BY <1>1
<1>5. ASSUME NEW i \in 1..Len(s) + Len(q) + 1
      PROVE  (s \o Append(q, t))[i] = Append(s \o q, t)[i]
  <2>1. (s \o Append(q, t))[i] = IF i <= Len(s) THEN s[i] ELSE Append(q, t)[i - Len(s)]
    <3>1. \A k \in 1..Len(s) + Len(Append(q, t)) :
            (s \o Append(q, t))[k] = IF k <= Len(s) THEN s[k] ELSE Append(q, t)[k - Len(s)]
      BY <1>2, ConcatProperties
    <3> QED
      BY <1>2, <3>1, LenProperties
  <2>2. i <= Len(s) + Len(q) =>
          (s \o q)[i] = IF i <= Len(s) THEN s[i] ELSE q[i - Len(s)]
    BY ConcatProperties, LenProperties
  <2>3. \A k \in 1..Len(q) + 1 : Append(q, t)[k] = IF k <= Len(q) THEN q[k] ELSE t
    OBVIOUS
  <2>4. Append(s \o q, t)[i] = IF i <= Len(s) + Len(q) THEN (s \o q)[i] ELSE t
    BY <1>1
  <2>5. Len(s) \in Nat /\ Len(q) \in Nat
    BY LenProperties
  <2>6. CASE i <= Len(s)
    BY <2>1, <2>2, <2>4, <2>5, <2>6
  <2>7. CASE i > Len(s)
    <3>1. i - Len(s) \in 1..Len(q) + 1 /\ (i - Len(s) <= Len(q) <=> i <= Len(s) + Len(q))
      BY <2>5, <2>7
    <3>2. Append(q, t)[i - Len(s)] = IF i - Len(s) <= Len(q) THEN q[i - Len(s)] ELSE t
      BY <2>3, <3>1
    <3> QED
      BY <2>1, <2>2, <2>4, <2>5, <2>7, <3>1, <3>2
  <2> QED
    BY <2>5, <2>6, <2>7
<1> QED
  BY <1>3, <1>4, <1>5, SeqEqual

(* The batch is empty outside process_tasks, so that the swap loses none,  *)
(* and so is it when a handler or a timer throws.                          *)
BatchInv ==
  /\ pc \notin {"tasks", "task"} => batch = <<>>
  /\ call # NoCall => pc = "events"
  /\ cursor # 0 => pc = "timers"

(* There is no batch outside of process_tasks. *)
LEMMA BatchInvStep == BatchInv /\ [Next]_vars => BatchInv'
<1> SUFFICES ASSUME BatchInv, [Next]_vars PROVE BatchInv'
  OBVIOUS
<1> USE DEF BatchInv
<1>1. CASE LoopIteration
  BY <1>1 DEF LoopIteration, RunReset, LoopExit, LoopAgain, SwapTasks, RunTask,
              WaitBegin, PollEvents, PollTimeout, PollNothing, Dispatch,
              TimersBegin, FireTimer, TimersEnd, AfterOnce, taskVars, controlVars,
              PassBegin, FireBegin, PassEnd, timerVars, passVars
<1>2. CASE Returns
  BY <1>2 DEF Returns, TaskReturns, HandlerReturns, TimerReturns, taskVars, controlVars,
              FireEnd, timerVars, passVars
<1>3. CASE Failures
  BY <1>3 DEF Failures, PollInterrupted, PollNothing, PollError, TimersCrash,
              CallbackThrows, taskVars, PassAbort, timerVars, passVars
<1>4. CASE Users
  <2>1. UNCHANGED cursor
    BY <1>4 DEF Users, RunEnter, RunOnce, Post, Stop, UserSchedules, UserCancels,
                UserOnSocket, ScheduleTimer, CancelTimer, MarkCancelled, timerVars, passVars
  <2> QED
    BY <1>4, <2>1 DEF Users, RunEnter, RunOnce, Post, Stop, UserSchedules, UserCancels,
                UserOnSocket, taskVars, controlVars
<1>5. CASE Environment \/ UNCHANGED vars
  BY <1>5 DEF Environment, Tick, NetworkData, vars, taskVars, controlVars,
              Elapse, timerVars, passVars
<1> QED
  BY <1>1, <1>2, <1>3, <1>4, <1>5 DEF Next

(* Every step of the loop is a step of TaskExecutor or leaves its          *)
(* variables alone, but for a task that throws out of its batch.           *)
LEMMA ExecutorStep ==
  ASSUME TasksTypeOK, BatchInv, [Next]_vars
  PROVE  \/ [Executor!Next]_<<batch \o taskQueue, ran>>
         \/ CallbackThrows /\ BatchIsLost
<1> USE DEF TasksTypeOK
<1>1. CASE SwapTasks
  <2>1. batch' \o taskQueue' = batch \o taskQueue
    BY <1>1, ConcatEmptySeq DEF SwapTasks, BatchInv
  <2> QED
    BY <1>1, <2>1 DEF SwapTasks
<1>2. CASE RunTask
  <2>1. Executor!Execute
    BY <1>2, HeadTailOfConcat DEF RunTask, Executor!Execute
  <2> QED
    BY <2>1 DEF Executor!Next
<1>3. ASSUME NEW t \in Tasks, Post(t)
      PROVE  [Executor!Next]_<<batch \o taskQueue, ran>>
  <2>1. Executor!Submit(t)
    BY <1>3, AppendToConcat DEF Post, Executor!Submit
  <2> QED
    BY <2>1 DEF Executor!Next
<1>4. CASE CallbackThrows
  <2>1. batch' \o taskQueue' = taskQueue /\ UNCHANGED ran
    BY <1>4, ConcatEmptySeq DEF CallbackThrows
  <2>2. CASE InTask
    BY <1>4, <2>1, <2>2 DEF BatchIsLost
  <2>3. CASE ~InTask
    <3>1. batch = <<>>
      BY <1>4, <2>3 DEF BatchInv, CallbackThrows, InCallback, InTask, InEvent, InTimer
    <3> QED
      BY <2>1, <3>1, ConcatEmptySeq
  <2> QED
    BY <2>2, <2>3
<1>5. CASE UNCHANGED taskVars
  BY <1>5 DEF taskVars
<1>6. \/ SwapTasks \/ RunTask \/ CallbackThrows
      \/ \E t \in Tasks : Post(t)
      \/ UNCHANGED taskVars
  BY DEF Next, vars, LoopIteration, Returns, Failures, Users, Environment,
         RunReset, LoopExit, LoopAgain, WaitBegin, PollEvents, PollTimeout,
         PollNothing, Dispatch, TimersBegin, FireTimer, TimersEnd, TaskReturns,
         HandlerReturns, TimerReturns, PollInterrupted, PollError, TimersCrash,
         RunEnter, RunOnce, Stop, UserSchedules, UserCancels,
         UserOnSocket, Tick, NetworkData
<1> QED
  BY <1>1, <1>2, <1>3, <1>4, <1>5, <1>6

(* The invariant and the first state of TaskExecutor. *)
LEMMA ExecutorInit == Init => Executor!Init /\ BatchInv
BY EmptySeq, ConcatEmptySeq DEF Init, TimersInit, Executor!Init, BatchInv

(* The loop implements TaskExecutor as long as callbacks do not throw:     *)
(* posted tasks are executed in order, each once.                          *)
THEOREM TasksInOrder == CallbacksThrow = FALSE => (Spec => ExecutesInOrder)
<1> SUFFICES ASSUME CallbacksThrow = FALSE
             PROVE  Spec => ExecutesInOrder
  OBVIOUS
<1>1. TypeOK /\ BatchInv /\ [Next]_vars => [Executor!Next]_<<batch \o taskQueue, ran>>
  BY ExecutorStep DEF TypeOK, TasksTypeOK, CallbackThrows
<1> QED
  BY <1>1, ExecutorInit, BatchInvStep, TypeCorrect, PTL
  DEF Spec, ExecutesInOrder, Executor!Spec

(* Callbacks that throw lose no posted task but those of the batch that a  *)
(* task threw out of, and do not disturb the order of the others.          *)
THEOREM ThrowingLosesItsBatch == Spec => OnlyBatchesAreLost
<1>1. TypeOK /\ BatchInv /\ [Next]_vars =>
        [Executor!Next \/ BatchIsLost]_<<batch \o taskQueue, ran>>
  BY ExecutorStep DEF TypeOK, TasksTypeOK
<1> QED
  BY <1>1, ExecutorInit, BatchInvStep, TypeCorrect, PTL DEF Spec, OnlyBatchesAreLost

-----------------------------------------------------------------------------
\* One-shot timers.

(* A pass without reallocation keeps the parts of OneShotInv that speak of *)
(* where the loop thread is.                                               *)
PassInv ==
  /\ ~detached
  /\ inPass => pc = "timers"
  /\ pc = "timers" => inPass
  /\ cursor # 0 => inPass
  /\ call # NoCall => pc = "events"

(* A pass over the timers is confined to its phase. *)
LEMMA PassInvStep ==
  ASSUME PassInv, ScheduleInTimer = FALSE, [Next]_vars
  PROVE  PassInv'
<1> USE DEF PassInv
<1>1. CASE LoopIteration
  <2>1. CASE RunReset \/ LoopExit \/ LoopAgain \/ SwapTasks \/ RunTask \/ WaitBegin
    BY <2>1 DEF RunReset, LoopExit, LoopAgain, SwapTasks, RunTask, WaitBegin,
                timerVars, passVars
  <2>2. CASE PollEvents \/ PollTimeout
    BY <2>2 DEF PollEvents, PollTimeout, PollNothing, timerVars, passVars
  <2>3. ASSUME NEW e \in events, Dispatch(e)
        PROVE  PassInv'
    BY <2>3 DEF Dispatch, timerVars, passVars
  <2>4. CASE TimersBegin
    BY <2>4 DEF TimersBegin, PassBegin
  <2>5. ASSUME NEW i \in TimerIds, FireTimer(i)
        PROVE  PassInv'
    <3>1. inPass
      BY <2>5 DEF FireTimer, FireBegin
    <3> QED
      BY <2>5, <3>1 DEF FireTimer, FireBegin, controlVars
  <2>6. CASE TimersEnd
    BY <2>6 DEF TimersEnd, PassEnd, AfterOnce
  <2> QED
    BY <1>1, <2>1, <2>2, <2>3, <2>4, <2>5, <2>6 DEF LoopIteration
<1>2. CASE Returns
  BY <1>2 DEF Returns, TaskReturns, HandlerReturns, TimerReturns, FireEnd,
              timerVars, passVars, controlVars
<1>3. CASE Failures
  <2>1. CASE CallbackThrows
    BY <2>1 DEF CallbackThrows, PassAbort
  <2>2. CASE TimersCrash
    BY <2>2 DEF TimersCrash
  <2>3. CASE PollInterrupted
    BY <2>3 DEF PollInterrupted, PollNothing, timerVars, passVars
  <2>4. CASE PollError
    <3>1. pc = "wait" /\ pc' = "idle" /\ UNCHANGED <<passVars, call>>
      BY <2>4 DEF PollError, timerVars
    <3> QED
      BY <3>1 DEF passVars
  <2> QED
    BY <1>3, <2>1, <2>2, <2>3, <2>4 DEF Failures
<1>4. ASSUME NEW d \in Delays, NEW itv \in Delays, NEW rep \in BOOLEAN,
             UserSchedules(d, itv, rep)
      PROVE  PassInv'
  <2>1. ~inPass
    BY <1>4 DEF UserSchedules, UserCode, InCallback, InTask, InEvent, InTimer
  <2> QED
    BY <1>4, <2>1 DEF UserSchedules, ScheduleTimer, controlVars
<1>6. ASSUME NEW i \in TimerIds, UserCancels(i)
      PROVE  PassInv'
  BY <1>6 DEF UserCancels, CancelTimer, MarkCancelled, passVars, controlVars
<1>7. CASE Users
  <2>1. CASE RunEnter \/ \E t \in OnceTimeouts : RunOnce(t)
    BY <2>1 DEF RunEnter, RunOnce, timerVars, passVars
  <2>2. CASE \/ Stop
             \/ \E t \in Tasks : Post(t)
             \/ \E h \in Handles : UserOnSocket(h)
    <3>1. UNCHANGED timerVars /\ UNCHANGED call /\ UNCHANGED pc
      BY <2>2 DEF Stop, Post, UserOnSocket, controlVars
    <3> QED
      BY <3>1 DEF timerVars, passVars
  <2> QED
    BY <1>4, <1>6, <1>7, <2>1, <2>2 DEF Users
<1>8. CASE Environment
  BY <1>8 DEF Environment, Tick, Elapse, NetworkData, timerVars, passVars, controlVars
<1>9. CASE UNCHANGED vars
  BY <1>9 DEF vars, timerVars, passVars, controlVars
<1> QED
  BY <1>1, <1>2, <1>3, <1>7, <1>8, <1>9 DEF Next

(* The strengthening of OneShotFiresOnce is an invariant of a loop whose   *)
(* callbacks neither throw nor schedule timers during a pass.              *)
THEOREM OneShotInvariant ==
  (ScheduleInTimer = FALSE /\ CallbacksThrow = FALSE) => (Spec => []OneShotInv)
<1> SUFFICES ASSUME ScheduleInTimer = FALSE, CallbacksThrow = FALSE
             PROVE  Spec => []OneShotInv
  OBVIOUS
<1>1. OneShotInv <=> PassInv /\ FiredInv
  BY DEF OneShotInv, PassInv, FiredInv
<1>2. Init => PassInv /\ FiredInv
  BY DEF Init, TimersInit, PassInv, FiredInv, TimerIds
<1>3. TypeOK /\ PassInv /\ FiredInv /\ [Next]_vars => PassInv' /\ FiredInv'
  <2> SUFFICES ASSUME TypeOK, PassInv, FiredInv, [Next]_vars
               PROVE  PassInv' /\ FiredInv'
    OBVIOUS
  <2>1. TimersOp
    BY NextTimersStep DEF TimersStep
  <2> QED
    BY <2>1, PassInvStep, FiredInvStep DEF TypeOK, PassInv
<1> QED
  BY <1>1, <1>2, <1>3, TypeCorrect, PTL DEF Spec

(* A timer scheduled without repeating fires at most once, however many    *)
(* timers, passes and cancellations there are, unless a callback throws or *)
(* schedules a timer during the pass.                                      *)
THEOREM OneShotOnce ==
  (ScheduleInTimer = FALSE /\ CallbacksThrow = FALSE) => (Spec => []OneShotFiresOnce)
<1>1. TypeOK /\ OneShotInv => OneShotFiresOnce
  BY DEF TypeOK, TimersTypeOK, OneShotInv, OneShotFiresOnce
<1> QED
  BY <1>1, TypeCorrect, OneShotInvariant, PTL

HIDE DEF TimersAssumption, PollerAssumption, EventLoopAssumption

-----------------------------------------------------------------------------
\* SignalHandler: the inductive invariant.

FrameRecord ==
  [sig : Signals, at : {"load", "flag", "last", "count", "call"}, state : HandlerIds \union {0}]

(* The executions of posix_handler, on whatever thread.                    *)
Elements(s) == {s[k] : k \in DOMAIN s}
Executions == UNION {Elements(frames[t]) : t \in Threads}

(* Signals that are flagged and not counted yet, and those of them that    *)
(* are not yet the last signal either.                                     *)
Recording == {"last", "count"}
Flagged(h, P) == {f.sig : f \in {e \in Executions : e.at \in P /\ e.state = h}}
Pending(h) == Flagged(h, Recording)
Unremembered(h) == Flagged(h, {"last"})

(* An address where no handler is has nothing of an earlier one.           *)
FreshInv ==
  \A h \in HandlerIds \ alive : received[h] = {} /\ lastSig[h] = 0 /\ totalCount[h] = 0

(* The owner creates and destroys handlers that are there, and nobody      *)
(* finds one through the pointer while one is destroyed.                   *)
OwnerInv ==
  /\ doing.op \in {"create", "destroy"} => doing.handler \in alive
  /\ doing.op = "destroy" => signalState = 0

(* With the signals blocked on other threads, the pointer and every        *)
(* execution of posix_handler refer to a handler that is there, in which   *)
(* what an execution goes on to count is flagged.                          *)
PointersInv ==
  /\ signalState \in alive \union {0}
  /\ doing.op = "destroy" => OthersAreOut
  /\ \A f \in Executions :
       /\ f.state \in alive \union {0}
       /\ f.at \in Recording => f.state # 0 /\ f.sig \in received[f.state]
       /\ f.at = "flag" => f.state # 0

(* What is flagged is counted, or is going to be.                          *)
RecordInv(h) ==
  /\ lastSig[h] \in received[h] \union {0}
  /\ lastSig[h] = 0 => received[h] \subseteq Unremembered(h)
  /\ totalCount[h] >= Cardinality(received[h] \ Pending(h))

SignalsInv ==
  /\ SignalsTypeOK
  /\ FreshInv
  /\ OwnerInv
  /\ disciplined => PointersInv /\ \A h \in alive : RecordInv(h)

-----------------------------------------------------------------------------
\* The executions of posix_handler.

(* A sequence that is not empty: its head, and what is behind it.          *)
LEMMA HeadAndTail ==
  ASSUME NEW S, NEW s \in Seq(S), s # <<>>
  PROVE  /\ Head(s) = s[1] /\ Head(s) \in S /\ Tail(s) \in Seq(S)
         /\ Elements(s) = {Head(s)} \union Elements(Tail(s))
<1>1. /\ Len(s) \in Nat \ {0} /\ DOMAIN s = 1..Len(s) /\ 1 \in DOMAIN s
  BY EmptySeq, LenProperties
<1>2. /\ Head(s) = s[1] /\ Tail(s) \in Seq(S) /\ Len(Tail(s)) = Len(s) - 1
      /\ \A i \in 1..Len(Tail(s)) : Tail(s)[i] = s[i + 1]
  BY HeadTailProperties
<1>3. DOMAIN Tail(s) = 1..(Len(s) - 1)
  BY <1>2, LenProperties
<1>4. s[1] \in S
  BY <1>1, ElementOfSeq
<1>5. \A x : x \in Elements(s) <=> \E k \in 1..Len(s) : x = s[k]
  BY <1>1 DEF Elements
<1>6. \A x : x \in Elements(Tail(s)) <=> \E k \in 1..(Len(s) - 1) : x = s[k + 1]
  BY <1>2, <1>3 DEF Elements
<1>7. \A k \in 1..Len(s) : k = 1 \/ (k - 1 \in 1..(Len(s) - 1) /\ (k - 1) + 1 = k)
  BY <1>1
<1>8. \A k \in 1..(Len(s) - 1) : k + 1 \in 1..Len(s)
  BY <1>1
<1>9. Elements(s) = {s[1]} \union Elements(Tail(s))
  <2>1. PICK m : m = Elements(s)
    OBVIOUS
  <2>2. PICK r : r = Elements(Tail(s))
    OBVIOUS
  <2>3. \A x : x \in m => x = s[1] \/ x \in r
    BY <1>5, <1>6, <1>7, <2>1, <2>2
  <2>4. \A x : x \in r => x \in m
    BY <1>5, <1>6, <1>8, <2>1, <2>2
  <2>5. s[1] \in m
    BY <1>1, <1>5, <2>1
  <2>6. m = {s[1]} \union r
    BY <2>3, <2>4, <2>5
  <2> QED
    BY <2>1, <2>2, <2>6
<1> QED
  BY <1>2, <1>4, <1>9

(* Something in front of a sequence, or in the place of its head.          *)
LEMMA InFront ==
  ASSUME NEW S, NEW s \in Seq(S), NEW x \in S
  PROVE  /\ <<x>> \o s \in Seq(S)
         /\ Elements(<<x>> \o s) = {x} \union Elements(s)
<1> DEFINE t == <<x>> \o s
<1>1. /\ <<x>> \in Seq(S) /\ Len(<<x>>) = 1 /\ <<x>>[1] = x
  OBVIOUS
<1>2. /\ t \in Seq(S) /\ Len(t) = 1 + Len(s)
      /\ \A i \in 1..(1 + Len(s)) : t[i] = IF i <= 1 THEN <<x>>[i] ELSE s[i - 1]
  BY <1>1, ConcatProperties
<1>3. Len(s) \in Nat /\ DOMAIN s = 1..Len(s) /\ DOMAIN t = 1..(1 + Len(s))
  BY <1>2, LenProperties
<1> HIDE DEF t
<1>4. t[1] = x /\ \A i \in 1..Len(s) : t[i + 1] = s[i]
  BY <1>1, <1>2, <1>3
<1>5. \A i \in DOMAIN t : i = 1 \/ (i - 1 \in DOMAIN s /\ t[i] = s[i - 1])
  BY <1>2, <1>3
<1>6. Elements(t) = {x} \union Elements(s)
  <2>1. \A y \in Elements(t) : y \in {x} \union Elements(s)
    BY <1>4, <1>5 DEF Elements
  <2>2. x \in Elements(t) /\ \A y \in Elements(s) : y \in Elements(t)
    <3>1. 1 \in DOMAIN t /\ \A i \in DOMAIN s : i + 1 \in DOMAIN t
      BY <1>3
    <3> QED
      BY <1>3, <1>4, <3>1 DEF Elements
  <2> QED
    BY <2>1, <2>2
<1> QED
  BY <1>2, <1>6 DEF t

(* The first element of a sequence is replaced. *)
LEMMA NewHead ==
  ASSUME NEW S, NEW s \in Seq(S), s # <<>>, NEW x \in S
  PROVE  /\ [s EXCEPT ![1] = x] \in Seq(S)
         /\ Elements([s EXCEPT ![1] = x]) = {x} \union Elements(Tail(s))
<1> DEFINE t == [s EXCEPT ![1] = x]
<1>1. /\ Len(s) \in Nat \ {0} /\ DOMAIN s = 1..Len(s) /\ 1 \in 1..Len(s)
  BY EmptySeq, LenProperties
<1>2. t \in Seq(S) /\ Len(t) = Len(s) /\ DOMAIN t = 1..Len(s)
      /\ \A i \in 1..Len(s) : t[i] = IF i = 1 THEN x ELSE s[i]
  <2>1. t \in Seq(S) /\ Len(t) = Len(s)
    BY <1>1, ExceptSeq
  <2> QED
    BY <1>1, <2>1, LenProperties
<1>3. t # <<>>
  BY <1>1, <1>2, EmptySeq
<1>4. /\ Head(t) = t[1] /\ Elements(t) = {Head(t)} \union Elements(Tail(t))
  BY <1>2, <1>3, HeadAndTail
<1>5. Tail(t) = Tail(s)
  <2>1. /\ Tail(t) \in Seq(S) /\ Len(Tail(t)) = Len(t) - 1
        /\ \A i \in 1..Len(Tail(t)) : Tail(t)[i] = t[i + 1]
    BY <1>2, <1>3, HeadTailProperties
  <2>2. /\ Tail(s) \in Seq(S) /\ Len(Tail(s)) = Len(s) - 1
        /\ \A i \in 1..Len(Tail(s)) : Tail(s)[i] = s[i + 1]
    BY HeadTailProperties
  <2>3. \A i \in 1..Len(Tail(t)) : Tail(t)[i] = Tail(s)[i]
    BY <1>1, <1>2, <2>1, <2>2
  <2> HIDE DEF t
  <2> QED
    BY <1>2, <2>1, <2>2, <2>3, SeqEqual
<1> QED
  BY <1>1, <1>2, <1>4, <1>5

(* One thread has other executions on it, the others have what they had.   *)
LEMMA OneThread ==
  ASSUME SignalsTypeOK, NEW t \in Threads, NEW q \in Seq(FrameRecord),
         frames' = [frames EXCEPT ![t] = q]
  PROVE  /\ frames' \in [Threads -> Seq(FrameRecord)]
         /\ \A f : f \in Executions'
                     <=> \/ f \in Elements(q)
                         \/ \E u \in Threads \ {t} : f \in Elements(frames[u])
         /\ \A f : f \in Executions
                     <=> \/ f \in Elements(frames[t])
                         \/ \E u \in Threads \ {t} : f \in Elements(frames[u])
<1>1. frames \in [Threads -> Seq(FrameRecord)]
  BY DEF SignalsTypeOK, FrameRecord
<1>2. frames' \in [Threads -> Seq(FrameRecord)]
      /\ \A u \in Threads : frames'[u] = IF u = t THEN q ELSE frames[u]
  BY <1>1
<1>3. /\ \A f : f \in Executions <=> \E u \in Threads : f \in Elements(frames[u])
      /\ \A f : f \in Executions' <=> \E u \in Threads : f \in Elements(frames'[u])
  BY DEF Executions
<1>4. \A u \in Threads : Elements(frames'[u]) = IF u = t THEN Elements(q)
                                                         ELSE Elements(frames[u])
  BY <1>2
<1> QED
  BY <1>2, <1>3, <1>4

(* posix_handler begins, on top of what its thread is doing. *)
LEMMA Begins ==
  ASSUME SignalsTypeOK, NEW t \in Threads, NEW x \in FrameRecord,
         frames' = [frames EXCEPT ![t] = <<x>> \o @]
  PROVE  /\ frames' \in [Threads -> Seq(FrameRecord)]
         /\ Executions' = Executions \union {x}
<1>1. frames[t] \in Seq(FrameRecord)
  BY DEF SignalsTypeOK, FrameRecord
<1> DEFINE q == <<x>> \o frames[t]
<1>2. q \in Seq(FrameRecord) /\ Elements(q) = {x} \union Elements(frames[t])
  BY <1>1, InFront
<1>3. frames' = [frames EXCEPT ![t] = q]
  OBVIOUS
<1> HIDE DEF q
<1> QED
  BY <1>2, <1>3, OneThread

(* The innermost execution on a thread is one of posix_handler's.          *)
LEMMA Innermost ==
  ASSUME SignalsTypeOK, NEW t \in Threads, frames[t] # <<>>
  PROVE  /\ Frame(t) \in FrameRecord /\ Frame(t) \in Executions /\ Frame(t) = frames[t][1]
         /\ Tail(frames[t]) \in Seq(FrameRecord) /\ frames[t] \in Seq(FrameRecord)
         /\ Elements(frames[t]) = {Frame(t)} \union Elements(Tail(frames[t]))
<1>1. frames[t] \in Seq(FrameRecord)
  BY DEF SignalsTypeOK, FrameRecord
<1> QED
  BY <1>1, HeadAndTail DEF Frame, Executions

(* posix_handler returns. *)
LEMMA Ends ==
  ASSUME SignalsTypeOK, NEW t \in Threads, frames[t] # <<>>, Leaves(t)
  PROVE  /\ frames' \in [Threads -> Seq(FrameRecord)]
         /\ Executions' \subseteq Executions
         /\ Executions \subseteq Executions' \union {Frame(t)}
<1> DEFINE q == Tail(frames[t])
<1>1. q \in Seq(FrameRecord) /\ Elements(frames[t]) = {Frame(t)} \union Elements(q)
  BY Innermost
<1>2. frames' = [frames EXCEPT ![t] = q]
  BY DEF Leaves
<1> HIDE DEF q
<1> QED
  BY <1>1, <1>2, OneThread

(* posix_handler goes on by one access. *)
LEMMA Moves ==
  ASSUME SignalsTypeOK, NEW t \in Threads, frames[t] # <<>>, NEW x \in FrameRecord,
         frames' = [frames EXCEPT ![t][1] = x]
  PROVE  /\ frames' \in [Threads -> Seq(FrameRecord)]
         /\ Executions' \subseteq Executions \union {x} /\ x \in Executions'
         /\ Executions \subseteq Executions' \union {Frame(t)}
<1> DEFINE q == [frames[t] EXCEPT ![1] = x]
<1>1. q \in Seq(FrameRecord) /\ Elements(q) = {x} \union Elements(Tail(frames[t]))
  BY Innermost, NewHead
<1>2. frames' = [frames EXCEPT ![t] = q]
  OBVIOUS
<1>3. Elements(frames[t]) = {Frame(t)} \union Elements(Tail(frames[t]))
  BY Innermost
<1> HIDE DEF q
<1> QED
  BY <1>1, <1>2, <1>3, OneThread

(* What an execution goes on to, in the state it has loaded.               *)
LEMMA GoesOnTo ==
  ASSUME SignalsTypeOK, NEW t \in Threads, frames[t] # <<>>,
         NEW p \in {"load", "flag", "last", "count", "call"}, GoesOn(t, p)
  PROVE  LET x == [Frame(t) EXCEPT !.at = p]
         IN  /\ x \in FrameRecord /\ frames' = [frames EXCEPT ![t][1] = x]
             /\ x.at = p /\ x.state = Frame(t).state /\ x.sig = Frame(t).sig
<1>1. Frame(t) \in FrameRecord /\ Frame(t) = frames[t][1]
  BY Innermost
<1>2. frames' = [frames EXCEPT ![t][1] = [Frame(t) EXCEPT !.at = p]]
  BY <1>1 DEF GoesOn
<1> QED
  BY <1>1, <1>2 DEF FrameRecord

(* Nobody is in posix_handler.                                             *)
LEMMA NoExecutions ==
  ASSUME SignalsTypeOK, frames[Main] = <<>>, OthersAreOut
  PROVE  Executions = {}
<1>1. \A t \in Threads : frames[t] = <<>>
  BY DEF OthersAreOut
<1>2. \A t \in Threads : Elements(frames[t]) = {}
  BY <1>1 DEF Elements
<1> QED
  BY <1>2 DEF Executions

(* A step with no execution of posix_handler in it.                        *)
LEMMA NoExecutionMoves ==
  ASSUME UNCHANGED frames
  PROVE  /\ Executions' = Executions
         /\ OthersAreOut' = OthersAreOut
         /\ \A h : Pending(h)' = Pending(h) /\ Unremembered(h)' = Unremembered(h)
<1>1. Executions' = Executions
  BY DEF Executions
<1> QED
  BY <1>1 DEF OthersAreOut, Pending, Unremembered, Flagged

(* Whatever else executions do, the flagged signals stay the same.         *)
LEMMA PendingStays ==
  ASSUME NEW X, NEW Y,
         Executions' \subseteq Executions \union X, \A f \in X : f.at \notin Recording,
         Executions \subseteq Executions' \union Y, \A f \in Y : f.at \notin Recording
  PROVE  \A h : Pending(h)' = Pending(h) /\ Unremembered(h)' = Unremembered(h)
<1>1. ASSUME NEW h, NEW P \in SUBSET Recording PROVE Flagged(h, P)' = Flagged(h, P)
  <2>1. {e \in Executions : e.at \in P /\ e.state = h}'
          = {e \in Executions : e.at \in P /\ e.state = h}
    OBVIOUS
  <2> QED
    BY <2>1 DEF Flagged
<1>2. {"last"} \in SUBSET Recording /\ Recording \in SUBSET Recording
  BY DEF Recording
<1> QED
  BY <1>1, <1>2 DEF Pending, Unremembered

(* An execution that goes on may take its signal out of those it was among *)
(* and puts it among those it comes to be.                                 *)
LEMMA FlaggedMoves ==
  ASSUME NEW f, NEW x, NEW P,
         Executions' \subseteq Executions \union {x}, x \in Executions',
         Executions \subseteq Executions' \union {f},
         x.sig = f.sig, x.state = f.state
  PROVE  /\ \A h : Flagged(h, P) \subseteq Flagged(h, P)' \union {f.sig}
         /\ \A h : h # f.state => Flagged(h, P) \subseteq Flagged(h, P)'
         /\ f.at \notin P \/ x.at \in P => \A h : Flagged(h, P) \subseteq Flagged(h, P)'
         /\ x.at \in P => f.sig \in Flagged(f.state, P)'
BY DEF Flagged

(* ... and one that comes to be among them leaves none of the others out.   *)
LEMMA FlaggedJoins ==
  ASSUME NEW f, NEW x, NEW P,
         Executions' \subseteq Executions \union {x}, x \in Executions',
         Executions \subseteq Executions' \union {f},
         x.sig = f.sig, x.state = f.state, x.at \in P
  PROVE  /\ \A h : Flagged(h, P) \subseteq Flagged(h, P)'
         /\ f.sig \in Flagged(f.state, P)'
BY FlaggedMoves

(* An execution that goes on or ends is no new one on its thread.          *)
LEMMA OthersStayOut ==
  ASSUME SignalsTypeOK, NEW t \in Threads, frames[t] # <<>>, OthersAreOut,
         NEW q, frames' = [frames EXCEPT ![t] = q]
  PROVE  OthersAreOut'
<1>1. t = Main
  BY DEF OthersAreOut
<1>2. \A u \in Threads \ {Main} : frames'[u] = frames[u]
  BY <1>1 DEF SignalsTypeOK
<1> QED
  BY <1>2 DEF OthersAreOut

(* The flags of a handler are few.                                         *)
LEMMA FlagsAreFinite ==
  ASSUME SignalsTypeOK, NEW h \in HandlerIds, NEW X \in SUBSET received[h]
  PROVE  IsFiniteSet(X) /\ Cardinality(X) \in Nat
<1> DEFINE last == 4
<1>0. last \in Int /\ X \subseteq 1..last
  BY SignalsAssumption DEF SignalsTypeOK
<1> HIDE DEF last
<1>1. IsFiniteSet(1..last)
  BY <1>0, FS_Interval
<1>3. IsFiniteSet(X)
  BY <1>0, <1>1, FS_Subset
<1> QED
  BY <1>3, FS_CardinalityType

-----------------------------------------------------------------------------
\* What preserves the invariant.

(* Handlers, their flags and the executions stay as they are, or the       *)
(* handlers that go away are those no execution and no pointer refers to.  *)
LEMMA HandlersStay ==
  ASSUME SignalsInv, SignalsTypeOK', FreshInv', OwnerInv', UNCHANGED frames,
         disciplined' => disciplined,
         alive' \subseteq alive,
         \A g \in alive' : /\ received'[g] = received[g]
                           /\ lastSig'[g] = lastSig[g]
                           /\ totalCount'[g] = totalCount[g],
         disciplined' =>
           /\ signalState' \in alive' \union {0}
           /\ doing'.op = "destroy" => OthersAreOut
           /\ alive' = alive \/ Executions = {}
  PROVE  SignalsInv'
<1>1. /\ Executions' = Executions /\ OthersAreOut' = OthersAreOut
      /\ \A h : Pending(h)' = Pending(h) /\ Unremembered(h)' = Unremembered(h)
  BY NoExecutionMoves
<1> SUFFICES ASSUME disciplined' PROVE PointersInv' /\ \A h \in alive' : RecordInv(h)'
  BY DEF SignalsInv
<1>2. PointersInv /\ \A h \in alive : RecordInv(h)
  BY DEF SignalsInv
<1>3. PointersInv'
  <2>1. ASSUME NEW f \in Executions'
        PROVE  /\ f.state \in alive' \union {0}
               /\ f.at \in Recording => f.state # 0 /\ f.sig \in received'[f.state]
               /\ f.at = "flag" => f.state # 0
    <3>1. f \in Executions /\ alive' = alive
      BY <1>1, <2>1
    <3> QED
      BY <1>2, <3>1 DEF PointersInv
  <2> QED
    BY <1>1, <2>1 DEF PointersInv
<1>4. ASSUME NEW h \in alive' PROVE RecordInv(h)'
  <2>1. RecordInv(h) /\ Pending(h)' = Pending(h) /\ Unremembered(h)' = Unremembered(h)
    BY <1>1, <1>2
  <2> QED
    BY <2>1 DEF RecordInv
<1> QED
  BY <1>3, <1>4

(* create() takes the pointer over. *)
LEMMA CreateStep ==
  ASSUME SignalsInv, NEW h \in HandlerIds, Create(h)
  PROVE  SignalsInv'
<1> USE DEF Create, stateVars
<1>1. SignalsTypeOK'
  BY DEF SignalsInv, SignalsTypeOK
<1>2. FreshInv' /\ OwnerInv'
  BY DEF SignalsInv, FreshInv, OwnerInv
<1> SUFFICES ASSUME disciplined' PROVE PointersInv' /\ \A g \in alive' : RecordInv(g)'
  BY <1>1, <1>2 DEF SignalsInv
<1>3. /\ Executions' = Executions /\ OthersAreOut' = OthersAreOut
      /\ \A g : Pending(g)' = Pending(g) /\ Unremembered(g)' = Unremembered(g)
  BY NoExecutionMoves
<1>4. PointersInv /\ \A g \in alive : RecordInv(g)
  BY DEF SignalsInv
<1>5. PointersInv'
  BY <1>3, <1>4 DEF PointersInv
<1>6. ASSUME NEW g \in alive' PROVE RecordInv(g)'
  <2>1. CASE g \in alive
    BY <1>3, <1>4, <2>1 DEF RecordInv
  <2>2. CASE g = h
    <3>1. received[h] = {} /\ lastSig[h] = 0 /\ totalCount[h] = 0
      BY DEF SignalsInv, FreshInv
    <3>2. Cardinality({} \ Pending(h)') = 0
      <4>1. {} \ Pending(h)' = {}
        OBVIOUS
      <4> QED
        BY <4>1, FS_EmptySet
    <3> QED
      BY <2>2, <3>1, <3>2 DEF RecordInv
  <2> QED
    BY <2>1, <2>2
<1> QED
  BY <1>5, <1>6

(* The destructor begins. *)
LEMMA DestroyStep ==
  ASSUME SignalsInv, NEW h \in HandlerIds, Destroy(h)
  PROVE  SignalsInv'
<1> USE DEF Destroy, stateVars
<1>1. SignalsTypeOK'
  BY DEF SignalsInv, SignalsTypeOK
<1>2. FreshInv' /\ OwnerInv'
  BY DEF SignalsInv, FreshInv, OwnerInv
<1> QED
  BY <1>1, <1>2, HandlersStay

(* One sigaction() of create() or of the destructor. *)
LEMMA InstallStep ==
  ASSUME SignalsInv, Install
  PROVE  SignalsInv'
<1> USE DEF Install, stateVars
<1>1. PICK s \in doing.sigs :
        /\ action' = [action EXCEPT ![s] =
                        IF doing.op = "create" THEN "handler" ELSE "default"]
        /\ doing' = [doing EXCEPT !.sigs = @ \ {s}]
  OBVIOUS
<1>2. doing' \in [op : {"none", "create", "destroy", "write"},
                  handler : HandlerIds \union {0}, sigs : SUBSET Signals]
      /\ doing'.op = doing.op /\ doing'.handler = doing.handler
  BY <1>1 DEF SignalsInv, SignalsTypeOK
<1>3. SignalsTypeOK'
  BY <1>1, <1>2 DEF SignalsInv, SignalsTypeOK
<1>4. FreshInv' /\ OwnerInv'
  BY <1>2 DEF SignalsInv, FreshInv, OwnerInv
<1> QED
  BY <1>2, <1>3, <1>4, HandlersStay DEF SignalsInv, PointersInv

(* Memory that is freed has nothing in it.                                 *)
LEMMA FreesClears ==
  ASSUME SignalsTypeOK, FreshInv, NEW H, Frees(H)
  PROVE  /\ alive' \subseteq HandlerIds
         /\ received' \in [HandlerIds -> SUBSET Signals]
         /\ lastSig' \in [HandlerIds -> Signals \union {0}]
         /\ totalCount' \in [HandlerIds -> Nat]
         /\ FreshInv'
         /\ \A g \in alive' : /\ received'[g] = received[g]
                              /\ lastSig'[g] = lastSig[g]
                              /\ totalCount'[g] = totalCount[g]
<1> USE DEF Frees
<1>1. /\ alive' \subseteq HandlerIds /\ \A g \in alive' : g \in HandlerIds /\ g \notin H
      /\ \A g \in HandlerIds \ alive' : g \in H \/ g \in HandlerIds \ alive
  BY DEF SignalsTypeOK
<1>2. /\ received' \in [HandlerIds -> SUBSET Signals]
      /\ lastSig' \in [HandlerIds -> Signals \union {0}]
      /\ totalCount' \in [HandlerIds -> Nat]
  BY DEF SignalsTypeOK
<1> QED
  BY <1>1, <1>2 DEF FreshInv

(* create() returns, or the destructor frees the state. *)
LEMMA InstalledStep ==
  ASSUME SignalsInv, Installed
  PROVE  SignalsInv'
<1> USE DEF Installed, Nothing
<1> DEFINE H == IF doing.op = "destroy" THEN {doing.handler} ELSE {}
<1>1. Frees(H) /\ SignalsTypeOK /\ FreshInv
  BY DEF SignalsInv
<1>2. SignalsTypeOK' /\ FreshInv'
  BY <1>1, FreesClears DEF SignalsTypeOK
<1>3. OwnerInv'
  BY DEF OwnerInv
<1>4. ASSUME disciplined'
      PROVE  signalState' \in alive' \union {0} /\ (alive' = alive \/ Executions = {})
  <2>1. CASE doing.op = "destroy"
    <3>1. signalState = 0 /\ OthersAreOut
      BY <1>4, <2>1 DEF SignalsInv, OwnerInv, PointersInv
    <3>2. Executions = {}
      BY <1>1, <3>1, NoExecutions DEF MainRuns
    <3> QED
      BY <3>1, <3>2
  <2>2. CASE doing.op # "destroy"
    <3>1. alive' = alive
      BY <1>1, <2>2 DEF Frees
    <3> QED
      BY <1>4, <3>1 DEF SignalsInv, PointersInv
  <2> QED
    BY <2>1, <2>2
<1>5. alive' \subseteq alive
  BY <1>1 DEF Frees
<1>6. \A g \in alive' : /\ received'[g] = received[g]
                        /\ lastSig'[g] = lastSig[g]
                        /\ totalCount'[g] = totalCount[g]
  BY <1>1, FreesClears
<1> QED
  BY <1>2, <1>3, <1>4, <1>5, <1>6, HandlersStay

(* The move assignment. *)
LEMMA AssignOverStep ==
  ASSUME SignalsInv, NEW h \in HandlerIds, AssignOver(h)
  PROVE  SignalsInv'
<1> USE DEF AssignOver, MainIsFree, Nothing
<1>1. Frees({h}) /\ SignalsTypeOK /\ FreshInv
  BY DEF SignalsInv
<1>2. SignalsTypeOK' /\ FreshInv'
  BY <1>1, FreesClears DEF SignalsTypeOK
<1>3. OwnerInv'
  BY DEF OwnerInv
<1>4. ASSUME disciplined'
      PROVE  signalState' \in alive' \union {0} /\ Executions = {}
  <2>1. Executions = {}
    BY <1>1, <1>4, NoExecutions DEF MainRuns
  <2>2. signalState \in alive \union {0} /\ signalState # h
    BY <1>4 DEF SignalsInv, PointersInv
  <2> QED
    BY <1>1, <2>1, <2>2 DEF Frees
<1>5. alive' \subseteq alive
  BY <1>1 DEF Frees
<1>6. \A g \in alive' : /\ received'[g] = received[g]
                        /\ lastSig'[g] = lastSig[g]
                        /\ totalCount'[g] = totalCount[g]
  BY <1>1, FreesClears
<1> QED
  BY <1>2, <1>3, <1>4, <1>5, <1>6, HandlersStay

(* Callbacks are written, and actions are set. *)
LEMMA WriteStep ==
  ASSUME SignalsInv,
         \/ \E h \in HandlerIds, s \in Signals : WriteCallback(h, s)
         \/ CallbackWritten
         \/ \E s \in Signals, a \in {"ignored", "default"} : SetAction(s, a)
  PROVE  SignalsInv'
<1> USE DEF WriteCallback, CallbackWritten, SetAction, globalVars, stateVars, Nothing
<1>1. /\ UNCHANGED <<disciplined, signalState, alive, stateVars, frames, delivered, process>>
      /\ doing' = doing \/ doing'.op \in {"none", "write"}
  OBVIOUS
<1>2. SignalsTypeOK'
  <2>1. action' \in [Signals -> {"default", "handler", "ignored"}]
    BY DEF SignalsInv, SignalsTypeOK
  <2>2. doing' \in [op : {"none", "create", "destroy", "write"},
                    handler : HandlerIds \union {0}, sigs : SUBSET Signals]
    BY DEF SignalsInv, SignalsTypeOK
  <2> QED
    BY <1>1, <2>1, <2>2 DEF SignalsInv, SignalsTypeOK
<1>3. FreshInv' /\ OwnerInv'
  BY <1>1 DEF SignalsInv, FreshInv, OwnerInv
<1>4. disciplined =>
        /\ signalState \in alive \union {0}
        /\ doing.op = "destroy" => OthersAreOut
  BY DEF SignalsInv, PointersInv
<1>5. doing'.op = "destroy" => doing.op = "destroy"
  BY <1>1
<1> QED
  BY <1>1, <1>2, <1>3, <1>4, <1>5, HandlersStay

(* What is behind a step of posix_handler's: the handlers stay, and so do  *)
(* the pointer and what the owner does. It is left to show what the new    *)
(* execution refers to, and what is recorded.                              *)
LEMMA ExecutionMoves ==
  ASSUME SignalsInv, SignalsTypeOK',
         NEW X \in SUBSET FrameRecord,
         UNCHANGED <<signalState, alive, doing>>,
         disciplined' => disciplined,
         Executions' \subseteq Executions \union X,
         \A h \in alive : received[h] \subseteq received'[h],
         \A h \in HandlerIds \ alive : /\ received'[h] = received[h]
                                       /\ lastSig'[h] = lastSig[h]
                                       /\ totalCount'[h] = totalCount[h],
         disciplined' /\ doing.op = "destroy" => OthersAreOut',
         disciplined' =>
           \A f \in X : /\ f.state \in alive \union {0}
                        /\ f.at \in Recording => f.state # 0 /\ f.sig \in received'[f.state]
                        /\ f.at = "flag" => f.state # 0,
         disciplined' => \A h \in alive : RecordInv(h)'
  PROVE  SignalsInv'
<1>1. FreshInv' /\ OwnerInv'
  BY DEF SignalsInv, FreshInv, OwnerInv
<1> SUFFICES ASSUME disciplined' PROVE PointersInv'
  BY <1>1 DEF SignalsInv
<1>2. PointersInv
  BY DEF SignalsInv
<1>3. ASSUME NEW f \in Executions'
      PROVE  /\ f.state \in alive \union {0}
             /\ f.at \in Recording => f.state # 0 /\ f.sig \in received'[f.state]
             /\ f.at = "flag" => f.state # 0
  <2>1. CASE f \in X
    BY <2>1
  <2>2. CASE f \in Executions
    BY <1>2, <2>2 DEF PointersInv
  <2> QED
    BY <1>3, <2>1, <2>2
<1> QED
  BY <1>2, <1>3 DEF PointersInv

(* With nothing recorded, and no flagged execution begun, moved or ended.  *)
LEMMA NothingRecorded ==
  ASSUME SignalsInv, UNCHANGED stateVars, disciplined,
         \A h : Pending(h)' = Pending(h) /\ Unremembered(h)' = Unremembered(h)
  PROVE  \A h \in alive : RecordInv(h)'
<1> SUFFICES ASSUME NEW h \in alive PROVE RecordInv(h)'
  OBVIOUS
<1>1. RecordInv(h) /\ Pending(h)' = Pending(h) /\ Unremembered(h)' = Unremembered(h)
  BY DEF SignalsInv
<1> QED
  BY <1>1 DEF RecordInv, stateVars

(* The kernel delivers a signal. *)
LEMMA DeliverStep ==
  ASSUME SignalsInv, NEW t \in Threads, NEW s \in Signals, Deliver(t, s)
  PROVE  SignalsInv'
<1> USE DEF Deliver, globalVars, stateVars
<1> DEFINE x == [sig |-> s, at |-> "load", state |-> 0]
<1>0. x \in FrameRecord /\ x.at = "load" /\ x.state = 0
  BY DEF FrameRecord
<1>1. SignalsTypeOK
  BY DEF SignalsInv
<1>2. /\ frames' \in [Threads -> Seq(FrameRecord)]
      /\ Executions' = Executions \/ Executions' = Executions \union {x}
      /\ frames' = frames \/ \E q : frames' = [frames EXCEPT ![t] = q]
  <2>1. CASE UNCHANGED frames
    BY <1>1, <2>1, NoExecutionMoves DEF SignalsTypeOK, FrameRecord
  <2>2. CASE frames' = [frames EXCEPT ![t] = <<x>> \o @]
    BY <1>0, <1>1, <2>2, Begins
  <2> QED
    BY <2>1, <2>2
<1>3. SignalsTypeOK'
  <2>1. disciplined' \in BOOLEAN
    OBVIOUS
  <2>2. delivered' \in Nat /\ process' \in {"runs", "terminated", "crashed"}
    BY <1>1 DEF SignalsTypeOK
  <2> QED
    BY <1>1, <1>2, <2>1, <2>2 DEF SignalsTypeOK, FrameRecord
<1>4. \A h : Pending(h)' = Pending(h) /\ Unremembered(h)' = Unremembered(h)
  <2> DEFINE X == {x}
             Y == {}
  <2>1. /\ Executions' \subseteq Executions \union X /\ \A f \in X : f.at \notin Recording
        /\ Executions \subseteq Executions' \union Y /\ \A f \in Y : f.at \notin Recording
    BY <1>0, <1>2 DEF Recording
  <2> HIDE DEF X, Y
  <2> QED
    BY <2>1, PendingStays
<1>5. ASSUME disciplined', doing.op = "destroy" PROVE OthersAreOut'
  <2>1. t = Main /\ OthersAreOut
    BY <1>5 DEF SignalsInv, PointersInv
  <2> QED
    BY <1>1, <1>2, <2>1 DEF OthersAreOut, SignalsTypeOK
<1>6. disciplined' => \A h \in alive : RecordInv(h)'
  BY <1>4, NothingRecorded
<1>7. /\ {x} \in SUBSET FrameRecord /\ Executions' \subseteq Executions \union {x}
      /\ \A f \in {x} : f.at = "load" /\ f.state = 0
  BY <1>0, <1>2
<1> HIDE DEF x
<1> QED
  BY <1>3, <1>5, <1>6, <1>7, ExecutionMoves DEF Recording

(* Where an execution is, and what it may still refer to.                  *)
LEMMA ExecutionAt ==
  ASSUME SignalsInv, NEW t \in Threads, NEW p, At(t, p)
  PROVE  /\ SignalsTypeOK
         /\ frames[t] # <<>> /\ Frame(t) \in FrameRecord /\ Frame(t) \in Executions
         /\ Frame(t).at = p /\ Frame(t).sig \in Signals
         /\ Frame(t).state \in HandlerIds \union {0}
         /\ disciplined => /\ Frame(t).state \in alive \union {0}
                           /\ p \in Recording => /\ Frame(t).state # 0
                                                  /\ Frame(t).sig \in received[Frame(t).state]
                           /\ p = "flag" => Frame(t).state # 0
<1>1. SignalsTypeOK /\ frames[t] # <<>> /\ Frame(t).at = p
  BY DEF At, SignalsInv
<1>2. Frame(t) \in FrameRecord /\ Frame(t) \in Executions
  BY <1>1, Innermost
<1>3. Frame(t).sig \in Signals /\ Frame(t).state \in HandlerIds \union {0}
  BY <1>2 DEF FrameRecord
<1> QED
  BY <1>1, <1>2, <1>3 DEF SignalsInv, PointersInv

(* An execution that ends where it recorded nothing, or everything.        *)
LEMMA LeavesStep ==
  ASSUME SignalsInv, NEW t \in Threads, NEW p \in {"load", "call"}, At(t, p), Leaves(t),
         process' \in {"runs", "crashed"},
         UNCHANGED <<disciplined, stateVars, globalVars, doing, delivered>>
  PROVE  SignalsInv'
<1> USE DEF globalVars, stateVars
<1>1. SignalsTypeOK /\ frames[t] # <<>> /\ Frame(t).at = p
  BY ExecutionAt
<1>2. /\ frames' \in [Threads -> Seq(FrameRecord)]
      /\ Executions' \subseteq Executions /\ Executions \subseteq Executions' \union {Frame(t)}
  BY <1>1, Ends
<1>3. SignalsTypeOK'
  BY <1>1, <1>2 DEF SignalsTypeOK, FrameRecord
<1>4. \A h : Pending(h)' = Pending(h) /\ Unremembered(h)' = Unremembered(h)
  <2> DEFINE X == {}
             Y == {Frame(t)}
  <2>1. /\ Executions' \subseteq Executions \union X /\ \A f \in X : f.at \notin Recording
        /\ Executions \subseteq Executions' \union Y /\ \A f \in Y : f.at \notin Recording
    BY <1>1, <1>2 DEF Recording
  <2> HIDE DEF X, Y
  <2> QED
    BY <2>1, PendingStays
<1>5. disciplined /\ doing.op = "destroy" => OthersAreOut'
  BY <1>1, OthersStayOut DEF SignalsInv, PointersInv, Leaves
<1>6. disciplined => \A h \in alive : RecordInv(h)'
  BY <1>4, NothingRecorded
<1>7. {} \in SUBSET FrameRecord /\ Executions' \subseteq Executions \union {}
  BY <1>2
<1> QED
  BY <1>3, <1>5, <1>6, <1>7, ExecutionMoves

(* posix_handler reads the pointer. *)
LEMMA LoadStateStep ==
  ASSUME SignalsInv, NEW t \in Threads, LoadState(t)
  PROVE  SignalsInv'
<1> USE DEF LoadState
<1>1. /\ At(t, "load") /\ UNCHANGED <<disciplined, stateVars, globalVars, doing, delivered>>
      /\ process' = process /\ process = "runs"
  BY DEF At
<1>2. CASE signalState = 0
  BY <1>1, <1>2, LeavesStep
<1>3. CASE signalState # 0
  <2> DEFINE x == [Frame(t) EXCEPT !.at = "flag", !.state = signalState]
  <2>1. /\ SignalsTypeOK /\ frames[t] # <<>> /\ Frame(t) \in FrameRecord /\ Frame(t).at = "load"
    BY <1>1, ExecutionAt
  <2>2. x \in FrameRecord /\ x.at = "flag" /\ x.state = signalState
    BY <2>1 DEF FrameRecord, SignalsTypeOK
  <2>3. frames' = [frames EXCEPT ![t][1] = x]
    <3>1. Frame(t) = frames[t][1]
      BY <2>1, Innermost
    <3> QED
      BY <1>3, <3>1
  <2>4. frames' = [frames EXCEPT ![t] = [frames[t] EXCEPT ![1] = x]]
    BY <2>3
  <2> HIDE DEF x
  <2>5. /\ frames' \in [Threads -> Seq(FrameRecord)]
        /\ Executions' \subseteq Executions \union {x}
        /\ Executions \subseteq Executions' \union {Frame(t)}
    BY <2>1, <2>2, <2>3, Moves
  <2>6. SignalsTypeOK'
    BY <2>1, <2>5 DEF SignalsTypeOK, FrameRecord, globalVars, stateVars
  <2>7. \A h : Pending(h)' = Pending(h) /\ Unremembered(h)' = Unremembered(h)
    <3> DEFINE X == {x}
               Y == {Frame(t)}
    <3>1. /\ Executions' \subseteq Executions \union X /\ \A f \in X : f.at \notin Recording
          /\ Executions \subseteq Executions' \union Y /\ \A f \in Y : f.at \notin Recording
      BY <2>1, <2>2, <2>5 DEF Recording
    <3> HIDE DEF X, Y
    <3> QED
      BY <3>1, PendingStays
  <2>8. disciplined' /\ doing.op = "destroy" => OthersAreOut'
    BY <2>1, <2>4, OthersStayOut DEF SignalsInv, PointersInv
  <2>9. disciplined' => \A h \in alive : RecordInv(h)'
    BY <2>7, NothingRecorded
  <2>10. disciplined => signalState \in alive
    BY <1>3 DEF SignalsInv, PointersInv
  <2> DEFINE X == {x}
  <2>11. /\ X \in SUBSET FrameRecord /\ Executions' \subseteq Executions \union X
         /\ \A f \in X : f.at = "flag" /\ f.state = signalState
    BY <2>2, <2>5
  <2>12. disciplined' =>
           \A f \in X : /\ f.state \in alive \union {0}
                        /\ f.at \in Recording => f.state # 0 /\ f.sig \in received'[f.state]
                        /\ f.at = "flag" => f.state # 0
    BY <1>3, <2>10, <2>11 DEF Recording
  <2> HIDE DEF X
  <2>13. /\ UNCHANGED <<signalState, alive, doing>>
         /\ disciplined' => disciplined
         /\ \A h \in alive : received[h] \subseteq received'[h]
         /\ \A h \in HandlerIds \ alive : /\ received'[h] = received[h]
                                          /\ lastSig'[h] = lastSig[h]
                                          /\ totalCount'[h] = totalCount[h]
    BY DEF globalVars, stateVars
  <2> QED
    BY <2>6, <2>8, <2>9, <2>11, <2>12, <2>13, ExecutionMoves
<1> QED
  BY <1>2, <1>3

(* posix_handler calls what is registered. *)
LEMMA CallCallbackStep ==
  ASSUME SignalsInv, NEW t \in Threads, CallCallback(t)
  PROVE  SignalsInv'
BY LeavesStep DEF CallCallback, Touches

(* An execution that goes on: where it is on its thread, and what of it is *)
(* seen among the others.                                                  *)
LEMMA GoesOnStep ==
  ASSUME SignalsInv, NEW t \in Threads, NEW p \in {"flag", "last", "count"}, At(t, p),
         NEW q \in {"last", "count", "call"}, GoesOn(t, q), UNCHANGED <<disciplined, doing>>
  PROVE  LET x == [Frame(t) EXCEPT !.at = q]
         IN  /\ frames' \in [Threads -> Seq(FrameRecord)]
             /\ x \in FrameRecord
             /\ x.at = q /\ x.state = Frame(t).state /\ x.sig = Frame(t).sig
             /\ Executions' \subseteq Executions \union {x} /\ x \in Executions'
             /\ Executions \subseteq Executions' \union {Frame(t)}
             /\ disciplined' /\ doing.op = "destroy" => OthersAreOut'
<1> DEFINE x == [Frame(t) EXCEPT !.at = q]
<1>1. SignalsTypeOK /\ frames[t] # <<>>
  BY ExecutionAt
<1>2. /\ x \in FrameRecord /\ frames' = [frames EXCEPT ![t][1] = x]
      /\ x.at = q /\ x.state = Frame(t).state /\ x.sig = Frame(t).sig
  <2>1. q \in {"load", "flag", "last", "count", "call"}
    OBVIOUS
  <2>2. LET y == [Frame(t) EXCEPT !.at = q]
        IN  /\ y \in FrameRecord /\ frames' = [frames EXCEPT ![t][1] = y]
            /\ y.at = q /\ y.state = Frame(t).state /\ y.sig = Frame(t).sig
    BY <1>1, <2>1, GoesOnTo, Zenon
  <2> QED
    BY <2>2, Zenon
<1> HIDE DEF x
<1>3. /\ frames' \in [Threads -> Seq(FrameRecord)]
      /\ Executions' \subseteq Executions \union {x} /\ x \in Executions'
      /\ Executions \subseteq Executions' \union {Frame(t)}
  BY <1>1, <1>2, Moves
<1>4. frames' = [frames EXCEPT ![t] = [frames[t] EXCEPT ![1] = x]]
  BY <1>2
<1>5. disciplined' /\ doing.op = "destroy" => OthersAreOut'
  BY <1>1, <1>4, OthersStayOut DEF SignalsInv, PointersInv
<1> QED
  BY <1>2, <1>3, <1>5 DEF x

(* The flag first: the signal is pending, in the handler it was sent to.   *)
LEMMA SetReceivedStep ==
  ASSUME SignalsInv, NEW t \in Threads, SetReceived(t)
  PROVE  SignalsInv'
<1> DEFINE x == [Frame(t) EXCEPT !.at = "last"]
           g == Frame(t).state
           s == Frame(t).sig
<1>1. /\ At(t, "flag") /\ GoesOn(t, "last") /\ process' \in {"runs", "crashed"}
      /\ UNCHANGED <<disciplined, lastSig, totalCount, signalState, alive, action,
                     doing, delivered>>
      /\ received' = IF g \in alive THEN [received EXCEPT ![g] = received[g] \union {s}]
                                    ELSE received
  BY DEF SetReceived, Touches, Updated, globalVars
<1>2. /\ SignalsTypeOK /\ Frame(t).at = "flag" /\ s \in Signals /\ g \in HandlerIds \union {0}
      /\ disciplined => g \in alive
  BY <1>1, ExecutionAt
<1>3. /\ frames' \in [Threads -> Seq(FrameRecord)]
      /\ x \in FrameRecord /\ x.at = "last" /\ x.state = g /\ x.sig = s
      /\ Executions' \subseteq Executions \union {x} /\ x \in Executions'
      /\ Executions \subseteq Executions' \union {Frame(t)}
      /\ disciplined' /\ doing.op = "destroy" => OthersAreOut'
  BY <1>1, GoesOnStep
<1>0. Frame(t).sig = s /\ Frame(t).state = g
  OBVIOUS
<1> HIDE DEF x, g, s
<1>4. /\ received' \in [HandlerIds -> SUBSET Signals]
      /\ \A h \in alive : /\ received[h] \subseteq received'[h]
                          /\ h # g => received'[h] = received[h]
                          /\ h = g => received'[h] = received[h] \union {s}
      /\ \A h \in HandlerIds \ alive : received'[h] = received[h]
  BY <1>1, <1>2 DEF SignalsTypeOK
<1>5. SignalsTypeOK'
  BY <1>1, <1>2, <1>3, <1>4 DEF SignalsTypeOK, FrameRecord
<1>6. ASSUME disciplined', NEW h \in alive PROVE RecordInv(h)'
  <2>1. RecordInv(h) /\ h \in HandlerIds
    BY <1>1, <1>2, <1>6 DEF SignalsInv, SignalsTypeOK
  <2>2. /\ Pending(h) \subseteq Pending(h)' /\ Unremembered(h) \subseteq Unremembered(h)'
        /\ h = g => s \in Pending(h)' /\ s \in Unremembered(h)'
    <3>1. PICK f, y : f = Frame(t) /\ y = x
      OBVIOUS
    <3>2. /\ Executions' \subseteq Executions \union {y} /\ y \in Executions'
          /\ Executions \subseteq Executions' \union {f}
          /\ y.sig = f.sig /\ y.state = f.state
          /\ y.at \in {"last"} /\ y.at \in Recording
          /\ f.sig = s /\ f.state = g
      BY <1>0, <1>3, <3>1 DEF Recording
    <3>3. /\ Flagged(h, Recording) \subseteq Flagged(h, Recording)'
          /\ h = g => s \in Flagged(h, Recording)'
      BY <3>2, FlaggedJoins
    <3>4. /\ Flagged(h, {"last"}) \subseteq Flagged(h, {"last"})'
          /\ h = g => s \in Flagged(h, {"last"})'
      BY <3>2, FlaggedJoins
    <3> QED
      BY <3>3, <3>4 DEF Pending, Unremembered
  <2>4. received'[h] \ Pending(h)' \subseteq received[h] \ Pending(h)
    BY <1>4, <2>2
  <2>5. Cardinality(received'[h] \ Pending(h)') <= Cardinality(received[h] \ Pending(h))
    <3>1. IsFiniteSet(received[h] \ Pending(h))
      BY <1>2, <2>1, FlagsAreFinite
    <3> QED
      BY <2>4, <3>1, FS_Subset
  <2>6. totalCount'[h] >= Cardinality(received'[h] \ Pending(h)')
    <3>1. /\ received[h] \ Pending(h) \in SUBSET received[h]
          /\ received'[h] \ Pending(h)' \in SUBSET received[h]
      BY <2>4
    <3>2. /\ Cardinality(received[h] \ Pending(h)) \in Nat
          /\ Cardinality(received'[h] \ Pending(h)') \in Nat
      BY <1>2, <2>1, <3>1, FlagsAreFinite
    <3>3. totalCount'[h] = totalCount[h] /\ totalCount[h] \in Nat
          /\ totalCount[h] >= Cardinality(received[h] \ Pending(h))
      BY <1>1, <1>2, <2>1 DEF SignalsTypeOK, RecordInv
    <3> QED
      BY <2>5, <3>2, <3>3
  <2>7. /\ lastSig'[h] \in received'[h] \union {0}
        /\ lastSig'[h] = 0 => received'[h] \subseteq Unremembered(h)'
    BY <1>1, <1>4, <2>1, <2>2 DEF RecordInv
  <2> QED
    BY <2>6, <2>7 DEF RecordInv
<1> DEFINE X == {x}
<1>7. X \in SUBSET FrameRecord /\ Executions' \subseteq Executions \union X
  BY <1>3
<1>8. disciplined' =>
        \A f \in X : /\ f.state \in alive \union {0}
                     /\ f.at \in Recording => f.state # 0 /\ f.sig \in received'[f.state]
                     /\ f.at = "flag" => f.state # 0
  <2> SUFFICES ASSUME disciplined'
               PROVE  /\ x.state \in alive \union {0}
                      /\ x.at \in Recording => x.state # 0 /\ x.sig \in received'[x.state]
                      /\ x.at = "flag" => x.state # 0
    OBVIOUS
  <2>1. g \in alive /\ g # 0
    BY <1>1, <1>2, SignalsAssumption DEF SignalsTypeOK
  <2>2. s \in received'[g]
    BY <1>4, <2>1
  <2> QED
    BY <1>3, <2>1, <2>2
<1> HIDE DEF X
<1>9. disciplined' => \A h \in alive : RecordInv(h)'
  BY <1>6
<1>10. /\ UNCHANGED <<signalState, alive, doing>>
       /\ disciplined' => disciplined
       /\ \A h \in alive : received[h] \subseteq received'[h]
       /\ \A h \in HandlerIds \ alive : /\ received'[h] = received[h]
                                        /\ lastSig'[h] = lastSig[h]
                                        /\ totalCount'[h] = totalCount[h]
  BY <1>1, <1>4
<1> QED
  BY <1>3, <1>5, <1>7, <1>8, <1>9, <1>10, ExecutionMoves

(* Then the last signal: there is one from now on, and it is flagged.      *)
LEMMA SetLastSignalStep ==
  ASSUME SignalsInv, NEW t \in Threads, SetLastSignal(t)
  PROVE  SignalsInv'
<1> DEFINE x == [Frame(t) EXCEPT !.at = "count"]
           g == Frame(t).state
           s == Frame(t).sig
<1>1. /\ At(t, "last") /\ GoesOn(t, "count") /\ process' \in {"runs", "crashed"}
      /\ UNCHANGED <<disciplined, received, totalCount, signalState, alive, action,
                     doing, delivered>>
      /\ lastSig' = IF g \in alive THEN [lastSig EXCEPT ![g] = s] ELSE lastSig
  BY DEF SetLastSignal, Touches, Updated, globalVars
<1>2. /\ SignalsTypeOK /\ Frame(t).at = "last" /\ s \in Signals /\ g \in HandlerIds \union {0}
      /\ disciplined => g \in alive /\ g # 0 /\ s \in received[g]
  BY <1>1, ExecutionAt, SignalsAssumption DEF Recording, SignalsTypeOK
<1>3. /\ frames' \in [Threads -> Seq(FrameRecord)]
      /\ x \in FrameRecord /\ x.at = "count" /\ x.state = g /\ x.sig = s
      /\ Executions' \subseteq Executions \union {x} /\ x \in Executions'
      /\ Executions \subseteq Executions' \union {Frame(t)}
      /\ disciplined' /\ doing.op = "destroy" => OthersAreOut'
  BY <1>1, GoesOnStep
<1>0. Frame(t).sig = s /\ Frame(t).state = g
  OBVIOUS
<1> HIDE DEF x, g, s
<1>4. /\ lastSig' \in [HandlerIds -> Signals \union {0}]
      /\ \A h \in alive : /\ h # g => lastSig'[h] = lastSig[h]
                          /\ h = g => lastSig'[h] = s
      /\ \A h \in HandlerIds \ alive : lastSig'[h] = lastSig[h]
  BY <1>1, <1>2 DEF SignalsTypeOK
<1>5. SignalsTypeOK'
  BY <1>1, <1>2, <1>3, <1>4 DEF SignalsTypeOK, FrameRecord
<1>6. ASSUME disciplined', NEW h \in alive PROVE RecordInv(h)'
  <2>1. RecordInv(h) /\ h \in HandlerIds
    BY <1>1, <1>2, <1>6 DEF SignalsInv, SignalsTypeOK
  <2>2. /\ Pending(h) \subseteq Pending(h)'
        /\ h # g => Unremembered(h) \subseteq Unremembered(h)'
    <3>1. x.at \in Recording
      BY <1>3 DEF Recording
    <3>2. x.sig = Frame(t).sig /\ x.state = Frame(t).state
      BY <1>0, <1>3
    <3> QED
      BY <1>0, <1>3, <3>1, <3>2, FlaggedMoves DEF Pending, Unremembered
  <2>3. totalCount'[h] >= Cardinality(received'[h] \ Pending(h)')
    <3>1. /\ received[h] \ Pending(h) \in SUBSET received[h]
          /\ received[h] \ Pending(h)' \in SUBSET received[h]
          /\ received[h] \ Pending(h)' \subseteq received[h] \ Pending(h)
      BY <2>2
    <3>2. /\ Cardinality(received[h] \ Pending(h)) \in Nat
          /\ Cardinality(received[h] \ Pending(h)') \in Nat
          /\ IsFiniteSet(received[h] \ Pending(h))
      BY <1>2, <2>1, <3>1, FlagsAreFinite
    <3>3. Cardinality(received[h] \ Pending(h)') <= Cardinality(received[h] \ Pending(h))
      BY <3>1, <3>2, FS_Subset
    <3>4. totalCount[h] \in Nat /\ totalCount[h] >= Cardinality(received[h] \ Pending(h))
      BY <1>2, <2>1 DEF SignalsTypeOK, RecordInv
    <3>5. totalCount'[h] = totalCount[h] /\ received'[h] = received[h]
      BY <1>1
    <3> QED
      BY <3>2, <3>3, <3>4, <3>5
  <2>4. /\ lastSig'[h] \in received'[h] \union {0}
        /\ lastSig'[h] = 0 => received'[h] \subseteq Unremembered(h)'
    <3>1. CASE h = g
      <4>1. lastSig'[h] = s /\ s \in received'[h] /\ s # 0
        BY <1>1, <1>2, <1>4, <1>6, <3>1, SignalsAssumption
      <4> QED
        BY <4>1
    <3>2. CASE h # g
      BY <1>1, <1>4, <2>1, <2>2, <3>2 DEF RecordInv
    <3> QED
      BY <3>1, <3>2
  <2> QED
    BY <2>3, <2>4 DEF RecordInv
<1> DEFINE X == {x}
<1>7. X \in SUBSET FrameRecord /\ Executions' \subseteq Executions \union X
  BY <1>3
<1>8. disciplined' =>
        \A f \in X : /\ f.state \in alive \union {0}
                     /\ f.at \in Recording => f.state # 0 /\ f.sig \in received'[f.state]
                     /\ f.at = "flag" => f.state # 0
  <2> SUFFICES ASSUME disciplined'
               PROVE  /\ x.state \in alive \union {0}
                      /\ x.at \in Recording => x.state # 0 /\ x.sig \in received'[x.state]
                      /\ x.at = "flag" => x.state # 0
    OBVIOUS
  <2> QED
    BY <1>1, <1>2, <1>3
<1> HIDE DEF X
<1>9. disciplined' => \A h \in alive : RecordInv(h)'
  BY <1>6
<1>10. /\ UNCHANGED <<signalState, alive, doing>>
       /\ disciplined' => disciplined
       /\ \A h \in alive : received[h] \subseteq received'[h]
       /\ \A h \in HandlerIds \ alive : /\ received'[h] = received[h]
                                        /\ lastSig'[h] = lastSig[h]
                                        /\ totalCount'[h] = totalCount[h]
  BY <1>1, <1>4
<1> QED
  BY <1>3, <1>5, <1>7, <1>8, <1>9, <1>10, ExecutionMoves

(* Then the count: the signal is no longer pending.                        *)
LEMMA CountSignalStep ==
  ASSUME SignalsInv, NEW t \in Threads, CountSignal(t)
  PROVE  SignalsInv'
<1> DEFINE x == [Frame(t) EXCEPT !.at = "call"]
           g == Frame(t).state
           s == Frame(t).sig
<1>1. /\ At(t, "count") /\ GoesOn(t, "call") /\ process' \in {"runs", "crashed"}
      /\ UNCHANGED <<disciplined, received, lastSig, signalState, alive, action, doing,
                     delivered>>
      /\ totalCount' = IF g \in alive THEN [totalCount EXCEPT ![g] = totalCount[g] + 1]
                                      ELSE totalCount
  BY DEF CountSignal, Touches, Updated, globalVars
<1>2. /\ SignalsTypeOK /\ Frame(t).at = "count" /\ s \in Signals /\ g \in HandlerIds \union {0}
      /\ disciplined => g \in alive
  BY <1>1, ExecutionAt DEF Recording
<1>3. /\ frames' \in [Threads -> Seq(FrameRecord)]
      /\ x \in FrameRecord /\ x.at = "call" /\ x.state = g /\ x.sig = s
      /\ Executions' \subseteq Executions \union {x} /\ x \in Executions'
      /\ Executions \subseteq Executions' \union {Frame(t)}
      /\ disciplined' /\ doing.op = "destroy" => OthersAreOut'
  BY <1>1, GoesOnStep
<1>5. Frame(t).sig = s /\ Frame(t).state = g /\ Frame(t).at \notin {"last"}
  BY <1>2
<1> HIDE DEF x, g, s
<1>6. \A h : /\ Pending(h) \subseteq Pending(h)' \union {s}
             /\ h # g => Pending(h) \subseteq Pending(h)'
             /\ Unremembered(h) \subseteq Unremembered(h)'
  <2>1. x.sig = Frame(t).sig /\ x.state = Frame(t).state
    BY <1>3, <1>5
  <2> QED
    BY <1>3, <1>5, <2>1, FlaggedMoves DEF Pending, Unremembered
<1>7. /\ totalCount' \in [HandlerIds -> Nat]
      /\ \A h \in alive : /\ h # g => totalCount'[h] = totalCount[h]
                          /\ h = g => totalCount'[h] = totalCount[h] + 1
      /\ \A h \in HandlerIds \ alive : totalCount'[h] = totalCount[h]
  BY <1>1, <1>2 DEF SignalsTypeOK
<1>8. SignalsTypeOK'
  BY <1>1, <1>2, <1>3, <1>7 DEF SignalsTypeOK, FrameRecord
<1>9. ASSUME disciplined', NEW h \in alive PROVE RecordInv(h)'
  <2> DEFINE now == received[h] \ Pending(h)
             then == received'[h] \ Pending(h)'
  <2>1. RecordInv(h) /\ h \in HandlerIds /\ received'[h] = received[h]
    BY <1>1, <1>2, <1>9 DEF SignalsInv, SignalsTypeOK
  <2>2. /\ IsFiniteSet(now) /\ Cardinality(now) \in Nat
        /\ IsFiniteSet(then) /\ Cardinality(then) \in Nat
    <3>1. now \in SUBSET received[h] /\ then \in SUBSET received[h]
      BY <2>1
    <3> HIDE DEF now, then
    <3> QED
      BY <1>2, <2>1, <3>1, FlagsAreFinite
  <2>3. totalCount[h] \in Nat /\ totalCount[h] >= Cardinality(now)
    BY <1>2, <2>1 DEF SignalsTypeOK, RecordInv
  <2>6. lastSig'[h] = lastSig[h] /\ Unremembered(h) \subseteq Unremembered(h)'
    BY <1>1, <1>6
  <2>4. CASE h = g
    <3>1. then \subseteq now \union {s}
      BY <1>6, <2>1
    <3> HIDE DEF now, then
    <3>2. /\ IsFiniteSet(now \union {s}) /\ Cardinality(now \union {s}) \in Nat
          /\ Cardinality(now \union {s}) <= Cardinality(now) + 1
      <4>1. /\ IsFiniteSet(now \union {s})
            /\ Cardinality(now \union {s})
                 = IF s \in now THEN Cardinality(now) ELSE Cardinality(now) + 1
        BY <2>2, FS_AddElement
      <4> QED
        BY <2>2, <4>1
    <3>3. Cardinality(then) <= Cardinality(now \union {s})
      BY <3>1, <3>2, FS_Subset
    <3>4. totalCount'[h] = totalCount[h] + 1
      BY <1>7, <2>4
    <3>5. totalCount'[h] >= Cardinality(then)
      BY <2>2, <2>3, <3>2, <3>3, <3>4
    <3> QED
      BY <2>1, <2>6, <3>5 DEF RecordInv, then
  <2>5. CASE h # g
    <3>1. then \subseteq now /\ Pending(h) \subseteq Pending(h)'
      BY <1>6, <2>1, <2>5
    <3>2. totalCount'[h] = totalCount[h]
      BY <1>7, <2>5
    <3>3. Cardinality(then) <= Cardinality(now)
      <4> HIDE DEF now, then
      <4> QED
        BY <2>2, <3>1, FS_Subset
    <3>4. totalCount'[h] >= Cardinality(then)
      <4> HIDE DEF now, then
      <4> QED
        BY <2>2, <2>3, <3>2, <3>3
    <3> QED
      BY <2>1, <2>6, <3>4 DEF RecordInv
  <2> QED
    BY <2>4, <2>5
<1> DEFINE X == {x}
<1>10. X \in SUBSET FrameRecord /\ Executions' \subseteq Executions \union X
  BY <1>3
<1>11. disciplined' =>
         \A f \in X : /\ f.state \in alive \union {0}
                      /\ f.at \in Recording => f.state # 0 /\ f.sig \in received'[f.state]
                      /\ f.at = "flag" => f.state # 0
  <2> SUFFICES ASSUME disciplined'
               PROVE  x.state \in alive \union {0} /\ x.at = "call"
    BY DEF Recording
  <2> QED
    BY <1>1, <1>2, <1>3
<1> HIDE DEF X
<1>12. disciplined' => \A h \in alive : RecordInv(h)'
  BY <1>9
<1>13. /\ UNCHANGED <<signalState, alive, doing>>
       /\ disciplined' => disciplined
       /\ \A h \in alive : received[h] \subseteq received'[h]
       /\ \A h \in HandlerIds \ alive : /\ received'[h] = received[h]
                                        /\ lastSig'[h] = lastSig[h]
                                        /\ totalCount'[h] = totalCount[h]
  BY <1>1, <1>7
<1> QED
  BY <1>3, <1>8, <1>10, <1>11, <1>12, <1>13, ExecutionMoves

-----------------------------------------------------------------------------
\* The theorems.

(* What a step of the loop and its threads is for the signal handlers: one *)
(* of theirs, or none.                                                     *)
LEMMA StepsOfHandlers ==
  ASSUME [ShutdownNext]_allVars
  PROVE  \/ OwnerBegins
         \/ OwnerGoesOn
         \/ \E t \in Threads, s \in Signals : Deliver(t, s)
         \/ \E t \in Threads : PosixHandler(t)
         \/ UNCHANGED signalVars
<1>1. CASE UNCHANGED allVars
  BY <1>1 DEF allVars
<1>2. ASSUME NEW h \in HandlerIds, RegisterLoopShutdown(h) PROVE UNCHANGED signalVars
  BY <1>2 DEF RegisterLoopShutdown
<1>3. CASE ShutdownCallback
  BY <1>3 DEF ShutdownCallback
<1>4. CASE LoopSteps \/ RunsLoop \/ UserStops \/ Time
  BY <1>4 DEF LoopSteps, RunsLoop, UserStops, Time
<1>5. CASE OwnerSteps
  BY <1>5 DEF OwnerSteps, OwnerBegins
<1>6. ASSUME NEW t \in Threads, NEW s \in Signals, SignalArrives(t, s) PROVE Deliver(t, s)
  BY <1>6 DEF SignalArrives
<1>7. ASSUME NEW t \in Threads, HandlerSteps(t) PROVE PosixHandler(t)
  BY <1>7 DEF HandlerSteps
<1> QED
  BY <1>1, <1>2, <1>3, <1>4, <1>5, <1>6, <1>7 DEF ShutdownNext

(* There is no handler at first. *)
LEMMA SignalsInit_Inv ==
  ASSUME ShutdownInit
  PROVE  SignalsInv
<1> USE DEF ShutdownInit, SignalsInit, Nothing
<1>1. SignalsTypeOK
  BY DEF SignalsTypeOK
<1>2. \A t \in Threads : Elements(frames[t]) = {}
  BY DEF Elements
<1>3. Executions = {}
  BY <1>2 DEF Executions
<1> QED
  BY <1>1, <1>3 DEF SignalsInv, FreshInv, OwnerInv, PointersInv

(* Each step of the loop and of the handlers keeps the invariant. *)
LEMMA SignalsNext_Inv ==
  ASSUME SignalsInv, [ShutdownNext]_allVars
  PROVE  SignalsInv'
<1>1. CASE OwnerBegins
  <2>1. ASSUME NEW h \in HandlerIds, Create(h) PROVE SignalsInv'
    BY <2>1, CreateStep
  <2>2. ASSUME NEW h \in HandlerIds, Destroy(h) PROVE SignalsInv'
    BY <2>2, DestroyStep
  <2>3. ASSUME NEW h \in HandlerIds, AssignOver(h) PROVE SignalsInv'
    BY <2>3, AssignOverStep
  <2>4. ASSUME \/ \E h \in HandlerIds, s \in Signals : WriteCallback(h, s)
               \/ \E s \in Signals, a \in {"ignored", "default"} : SetAction(s, a)
        PROVE  SignalsInv'
    BY <2>4, WriteStep
  <2> QED
    BY <1>1, <2>1, <2>2, <2>3, <2>4 DEF OwnerBegins
<1>2. CASE OwnerGoesOn
  BY <1>2, InstallStep, InstalledStep, WriteStep DEF OwnerGoesOn
<1>3. ASSUME NEW t \in Threads, NEW s \in Signals, Deliver(t, s) PROVE SignalsInv'
  BY <1>3, DeliverStep
<1>4. ASSUME NEW t \in Threads, PosixHandler(t) PROVE SignalsInv'
  BY <1>4, LoadStateStep, SetReceivedStep, SetLastSignalStep, CountSignalStep,
     CallCallbackStep DEF PosixHandler
<1>5. CASE UNCHANGED signalVars
  <2>1. UNCHANGED <<disciplined, received, lastSig, totalCount, signalState, alive, action,
                    doing, frames, delivered, process>>
    BY <1>5 DEF signalVars, stateVars, globalVars
  <2>2. SignalsTypeOK' /\ FreshInv' /\ OwnerInv'
    BY <2>1 DEF SignalsInv, SignalsTypeOK, FreshInv, OwnerInv
  <2>3. disciplined =>
          /\ signalState \in alive \union {0}
          /\ doing.op = "destroy" => OthersAreOut
    BY DEF SignalsInv, PointersInv
  <2> QED
    BY <2>1, <2>2, <2>3, HandlersStay
<1> QED
  BY <1>1, <1>2, <1>3, <1>4, <1>5, StepsOfHandlers

(* The inductive invariant holds however create(), the destructor, the     *)
(* other operations, the loop and posix_handler interleave.                *)
THEOREM SignalsInvariant == ShutdownSpec => []SignalsInv
<1>1. ShutdownInit => SignalsInv
  BY SignalsInit_Inv
<1>2. SignalsInv /\ [ShutdownNext]_allVars => SignalsInv'
  BY SignalsNext_Inv
<1> QED
  BY <1>1, <1>2, PTL DEF ShutdownSpec

(* No execution of posix_handler uses a state that was freed, on whatever  *)
(* threads it runs and whatever it interrupts, as long as the signals are  *)
(* blocked on the other threads while a handler is destroyed.              *)
THEOREM NoFreedState == ShutdownSpec => []StateIsAlive
<1>1. SignalsInv => StateIsAlive
  <2> SUFFICES ASSUME SignalsInv, disciplined, NEW h \in HandlerIds \ alive
               PROVE  Running(h) = {}
    BY DEF StateIsAlive
  <2>1. ASSUME NEW t \in Threads, NEW k \in DOMAIN frames[t]
        PROVE  frames[t][k].state # h
    <3>1. frames[t][k] \in Executions
      BY DEF Executions, Elements
    <3>2. frames[t][k].state \in alive \union {0}
      BY <3>1 DEF SignalsInv, PointersInv
    <3> QED
      BY <3>2, SignalsAssumption
  <2> QED
    BY <2>1 DEF Running
<1> QED
  BY <1>1, SignalsInvariant, PTL

(* What a handler tells of its signals agrees whenever no posix_handler is *)
(* in the middle of recording one in it.                                   *)
THEOREM RecordsAgree == ShutdownSpec => []AnswersAgree
<1>1. SignalsInv => AnswersAgree
  <2> SUFFICES ASSUME SignalsInv, NEW h \in alive, disciplined, Running(h) = {}
               PROVE  /\ lastSig[h] \in received[h] \union (IF received[h] = {} THEN {0} ELSE {})
                      /\ totalCount[h] >= Cardinality(received[h])
    BY DEF AnswersAgree
  <2>1. Pending(h) = {} /\ Unremembered(h) = {}
    <3>1. \A t \in Threads : \A k \in DOMAIN frames[t] : frames[t][k].state # h
      BY DEF Running
    <3>2. \A f \in Executions : f.state # h
      BY <3>1 DEF Executions, Elements
    <3> QED
      BY <3>2 DEF Pending, Unremembered, Flagged
  <2>2. RecordInv(h) /\ received[h] \ Pending(h) = received[h]
    BY <2>1 DEF SignalsInv
  <2> QED
    BY <2>1, <2>2 DEF RecordInv
<1> QED
  BY <1>1, SignalsInvariant, PTL
=============================================================================
