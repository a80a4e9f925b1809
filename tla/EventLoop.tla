----------------------------- MODULE EventLoop ------------------------------
(***************************************************************************)
(* vynx_http::event_loop: run, run_once, stop, post and the iteration that *)
(* executes posted tasks, waits in the poller, dispatches socket events    *)
(* and fires timers. It extends the timer service (LoopTimers) and the     *)
(* poller with the map of handlers (Poller).                               *)
(*                                                                         *)
(* One thread runs the loop and all callbacks. post and stop are called    *)
(* from any thread at any time. The other operations are unsynchronised,   *)
(* so they are the loop thread's: before run(), between calls of           *)
(* run_once() and in callbacks. Callbacks do not call run_once() again,    *)
(* which nothing in the code prevents.                                     *)
(***************************************************************************)
EXTENDS LoopTimers, Poller, Sequences

CONSTANTS
  Tasks,            \* the tasks other threads post, each once
  DefaultTimeout,   \* event_loop_config::default_timeout_ms
  OverflowWait,     \* what (int)(time_point::max() - now) comes to
  OnceTimeouts,     \* timeouts given to run_once, -1 for no timeout
  ScheduleInTimer,  \* timer callbacks schedule timers
  CallbacksThrow    \* callbacks throw

ASSUME EventLoopAssumption ==
  /\ DefaultTimeout \in Nat
  /\ OverflowWait \in Nat
  /\ OnceTimeouts \subseteq Nat \union {-1}
  /\ ScheduleInTimer \in BOOLEAN
  /\ CallbacksThrow \in BOOLEAN

VARIABLES
  pc,               \* where the loop thread is
  mode,             \* inside run() or a bare run_once()
  running,          \* impl::running
  stopped,          \* impl::stopped
  taskQueue,        \* impl::task_queue
  batch,            \* the vector process_tasks swapped out, what is left of it
  posted,           \* history: the tasks posted, in order
  ran,              \* history: the tasks started, in order
  timeout,          \* argument of poller::wait
  waitLeft,         \* ticks until the wait times out
  call              \* the on_event call that is running, as the event and the
                    \* handler, NoCall for none

taskVars == <<taskQueue, batch, posted, ran>>
controlVars == <<pc, mode, running, stopped, timeout, waitLeft, call>>
vars == <<timerVars, pollerVars, taskVars, controlVars>>

NoCall == [handle |-> 0, handler |-> 0]
PCs == {"idle", "reset", "check", "swap", "tasks", "task", "wait",
        "events", "timers", "crashed"}

Init ==
  /\ TimersInit
  /\ PollerInit
  /\ pc = "idle"
  /\ mode = "run"
  /\ running = FALSE
  /\ stopped = FALSE
  /\ taskQueue = <<>>
  /\ batch = <<>>
  /\ posted = <<>>
  /\ ran = <<>>
  /\ timeout = 0
  /\ waitLeft = 0
  /\ call = NoCall

(* The loop thread executes its user's code: outside run() and run_once(), *)
(* or in a task, an on_event or a timer callback.                          *)
InTask  == pc = "task"
InEvent == call # NoCall
InTimer == cursor # 0
InCallback == InTask \/ InEvent \/ InTimer
UserCode == pc = "idle" \/ InCallback

-----------------------------------------------------------------------------
\* run() and its loop.

(* run() refuses to run twice, then raises running ... *)
RunEnter ==
  /\ pc = "idle"
  /\ ~running
  /\ running' = TRUE
  /\ mode' = "run"
  /\ pc' = "reset"
  /\ UNCHANGED <<timerVars, pollerVars, taskVars, stopped, timeout, waitLeft, call>>

(* ... and only then lowers stopped. *)
RunReset ==
  /\ pc = "reset"
  /\ stopped' = FALSE
  /\ pc' = "check"
  /\ UNCHANGED <<timerVars, pollerVars, taskVars, mode, running, timeout, waitLeft, call>>

\* Fault: the wait has no timeout.
CalculateTimeout_None == {-1}

(* calculate_timeout, as the set of its possible results. Only cancelled   *)
(* records: the subtraction from time_point::max() does not fit an int and *)
(* the uptime decides which value, or 0 for a negative one, is left.       *)
CalculateTimeout ==
  IF present = {} THEN {DefaultTimeout}
  ELSE IF Live = {} THEN {0, OverflowWait}
  ELSE {timer[i].left : i \in {k \in Live :
                           \A j \in Live : timer[k].left <= timer[j].left}}

(* The condition of the while loop of run(). *)
LoopExit ==
  /\ pc = "check"
  /\ stopped
  /\ running' = FALSE
  /\ pc' = "idle"
  /\ UNCHANGED <<timerVars, pollerVars, taskVars, mode, stopped, timeout, waitLeft, call>>

LoopAgain ==
  /\ pc = "check"
  /\ ~stopped
  /\ timeout' \in CalculateTimeout
  /\ pc' = "swap"
  /\ UNCHANGED <<timerVars, pollerVars, taskVars, mode, running, stopped, waitLeft, call>>

(* run_once(t) called by the user, outside of callbacks, not by run(). *)
RunOnce(t) ==
  /\ pc = "idle"
  /\ mode' = "once"
  /\ timeout' = t
  /\ pc' = "swap"
  /\ UNCHANGED <<timerVars, pollerVars, taskVars, running, stopped, waitLeft, call>>

\* Where run_once returns to.
AfterOnce == IF mode = "run" THEN "check" ELSE "idle"

-----------------------------------------------------------------------------
\* process_tasks.

\* Fault: the queue is copied and not emptied.
SwapTasks_Copies ==
  /\ pc = "swap"
  /\ batch' = taskQueue
  /\ pc' = "tasks"
  /\ UNCHANGED <<timerVars, pollerVars, taskQueue, posted, ran,
                 mode, running, stopped, timeout, waitLeft, call>>

SwapTasks ==
  /\ pc = "swap"
  /\ batch' = taskQueue
  /\ taskQueue' = <<>>
  /\ pc' = "tasks"
  /\ UNCHANGED <<timerVars, pollerVars, posted, ran,
                 mode, running, stopped, timeout, waitLeft, call>>

RunTask ==
  /\ pc = "tasks"
  /\ batch # <<>>
  /\ ran' = Append(ran, Head(batch))
  /\ batch' = Tail(batch)
  /\ pc' = "task"
  /\ UNCHANGED <<timerVars, pollerVars, taskQueue, posted,
                 mode, running, stopped, timeout, waitLeft, call>>

TaskReturns ==
  /\ pc = "task"
  /\ pc' = "tasks"
  /\ UNCHANGED <<timerVars, pollerVars, taskVars,
                 mode, running, stopped, timeout, waitLeft, call>>

-----------------------------------------------------------------------------
\* The wait and the dispatch of its events.

WaitBegin ==
  /\ pc = "tasks"
  /\ batch = <<>>
  /\ waitLeft' = timeout
  /\ pc' = "wait"
  /\ UNCHANGED <<timerVars, pollerVars, taskVars, mode, running, stopped, timeout, call>>

PollEvents ==
  /\ pc = "wait"
  /\ Collect
  /\ pc' = "events"
  /\ UNCHANGED <<timerVars, taskVars, mode, running, stopped, timeout, waitLeft, call>>

(* The timeout, or EINTR while it sleeps: no events. *)
PollNothing ==
  /\ pc = "wait"
  /\ Reportable = {}
  /\ pc' = "events"
  /\ UNCHANGED <<timerVars, pollerVars, taskVars,
                 mode, running, stopped, timeout, waitLeft, call>>

PollTimeout == waitLeft = 0 /\ PollNothing
PollInterrupted == waitLeft # 0 /\ PollNothing

(* Any other error ends run_once, and run() with it. *)
PollError ==
  /\ pc = "wait"
  /\ pc' = "idle"
  /\ running' = IF mode = "run" THEN FALSE ELSE running
  /\ UNCHANGED <<timerVars, pollerVars, taskVars,
                 mode, stopped, timeout, waitLeft, call>>

Dispatch(e) ==
  /\ pc = "events"
  /\ call = NoCall
  /\ e \in events
  /\ events' = events \ {e}
  /\ call' = IF Lookup(e) = 0 THEN NoCall
             ELSE [handle |-> e.handle, handler |-> Lookup(e)]
  /\ UNCHANGED <<timerVars, socket, opened, polled, ready, handlers, taskVars,
                 pc, mode, running, stopped, timeout, waitLeft>>

HandlerReturns ==
  /\ call # NoCall
  /\ call' = NoCall
  /\ UNCHANGED <<timerVars, pollerVars, taskVars,
                 pc, mode, running, stopped, timeout, waitLeft>>

-----------------------------------------------------------------------------
\* process_timers.

TimersBegin ==
  /\ pc = "events"
  /\ call = NoCall
  /\ events = {}
  /\ PassBegin
  /\ pc' = "timers"
  /\ UNCHANGED <<pollerVars, taskVars, mode, running, stopped, timeout, waitLeft, call>>

FireTimer(i) ==
  /\ pc = "timers"
  /\ FireBegin(i)
  /\ UNCHANGED <<pollerVars, taskVars, controlVars>>

TimerReturns ==
  /\ pc = "timers"
  /\ FireEnd
  /\ UNCHANGED <<pollerVars, taskVars, controlVars>>

TimersEnd ==
  /\ pc = "timers"
  /\ PassEnd
  /\ pc' = AfterOnce
  /\ UNCHANGED <<pollerVars, taskVars, mode, running, stopped, timeout, waitLeft, call>>

(* The loop of process_timers goes on in freed memory, where the callbacks *)
(* were moved from: one that is due throws bad_function_call.              *)
TimersCrash ==
  /\ pc = "timers"
  /\ detached
  /\ cursor = 0
  /\ visit \intersect due # {}
  /\ pc' = "crashed"
  /\ UNCHANGED <<timerVars, pollerVars, taskVars,
                 mode, running, stopped, timeout, waitLeft, call>>

\* Fault: the queue is emptied on the way out.
CallbackThrows_Clears ==
  /\ CallbacksThrow
  /\ InCallback
  /\ PassAbort
  /\ pc' = "idle"
  /\ batch' = <<>>
  /\ taskQueue' = <<>>
  /\ events' = {}
  /\ call' = NoCall
  /\ UNCHANGED <<socket, opened, polled, ready, handlers, posted, ran,
                 mode, running, stopped, timeout, waitLeft>>

(* An exception of a callback leaves process_tasks, run_once or            *)
(* process_timers, and then run(), which nothing on the way cleans up.     *)
CallbackThrows ==
  /\ CallbacksThrow
  /\ InCallback
  /\ PassAbort
  /\ pc' = "idle"
  /\ batch' = <<>>
  /\ events' = {}
  /\ call' = NoCall
  /\ UNCHANGED <<socket, opened, polled, ready, handlers, taskQueue, posted, ran,
                 mode, running, stopped, timeout, waitLeft>>

-----------------------------------------------------------------------------
\* What users and the environment do.

(* post and stop, from any thread. *)
Post(t) ==
  /\ t \notin {posted[k] : k \in DOMAIN posted}
  /\ posted' = Append(posted, t)
  /\ taskQueue' = Append(taskQueue, t)
  /\ UNCHANGED <<timerVars, pollerVars, batch, ran, controlVars>>

Stop ==
  /\ ~stopped
  /\ stopped' = TRUE
  /\ UNCHANGED <<timerVars, pollerVars, taskVars,
                 pc, mode, running, timeout, waitLeft, call>>

UserSchedules(d, itv, rep) ==
  /\ UserCode
  /\ InTimer => ScheduleInTimer
  /\ ScheduleTimer(d, itv, rep)
  /\ UNCHANGED <<pollerVars, taskVars, controlVars>>

UserCancels(i) ==
  /\ UserCode
  /\ CancelTimer(i)
  /\ UNCHANGED <<pollerVars, taskVars, controlVars>>

UserOnSocket(h) ==
  /\ UserCode
  /\ \/ OpenSocket(h)
     \/ CloseSocket(h)
     \/ RegisterSocket(h)
     \/ ModifySocket(h)
     \/ UnregisterSocket(h)
     \/ Drain(h)
  /\ UNCHANGED <<timerVars, taskVars, controlVars>>

NetworkData(h) ==
  /\ DataArrives(h)
  /\ UNCHANGED <<timerVars, taskVars, controlVars>>

(* The clock advances, under the loop thread and its wait. *)
Tick ==
  /\ Elapse
  /\ waitLeft' = IF pc = "wait" /\ waitLeft > 0 THEN waitLeft - 1 ELSE waitLeft
  /\ UNCHANGED <<pollerVars, taskVars, pc, mode, running, stopped, timeout, call>>

-----------------------------------------------------------------------------
LoopIteration ==
  \/ RunReset \/ LoopExit \/ LoopAgain
  \/ SwapTasks \/ RunTask \/ WaitBegin
  \/ PollEvents \/ PollTimeout
  \/ \E e \in events : Dispatch(e)
  \/ TimersBegin \/ (\E i \in TimerIds : FireTimer(i)) \/ TimersEnd

Returns == TaskReturns \/ HandlerReturns \/ TimerReturns

Failures == PollInterrupted \/ PollError \/ TimersCrash \/ CallbackThrows

Users ==
  \/ RunEnter
  \/ \E t \in OnceTimeouts : RunOnce(t)
  \/ \E t \in Tasks : Post(t)
  \/ Stop
  \/ \E d \in Delays, itv \in Delays, rep \in BOOLEAN : UserSchedules(d, itv, rep)
  \/ \E i \in TimerIds : UserCancels(i)
  \/ \E h \in Handles : UserOnSocket(h)

Environment == Tick \/ \E h \in Handles : NetworkData(h)

Next == LoopIteration \/ Returns \/ Failures \/ Users \/ Environment

Spec == Init /\ [][Next]_vars

(* The loop thread is scheduled, callbacks return, time passes. Neither    *)
(* users nor the network owe anything.                                     *)
Fairness ==
  /\ WF_vars(LoopIteration)
  /\ WF_vars(Returns)
  /\ WF_vars(Tick)

FairSpec == Spec /\ Fairness

-----------------------------------------------------------------------------
\* Properties.

(* The variables of the loop, its timers and its poller have their types.  *)
TypeOK ==
  /\ TimersTypeOK
  /\ PollerTypeOK
  /\ pc \in PCs
  /\ mode \in {"run", "once"}
  /\ running \in BOOLEAN
  /\ stopped \in BOOLEAN
  /\ taskQueue \in Seq(Tasks)
  /\ batch \in Seq(Tasks)
  /\ posted \in Seq(Tasks)
  /\ ran \in Seq(Tasks)
  /\ timeout \in Nat \union {-1}
  /\ waitLeft \in Nat \union {-1}
  /\ call \in [handle : Handles \union {0}, handler : 0..MaxSockets]

(* What makes OneShotFiresOnce inductive while callbacks neither throw nor *)
(* schedule timers in a pass: a pass is confined to the timer phase and    *)
(* never detached, ids not yet handed out have not fired, and a one-shot   *)
(* that fired is marked as soon as its callback is over.                   *)
OneShotInv ==
  /\ ~detached
  /\ inPass => pc = "timers"
  /\ pc = "timers" => inPass
  /\ cursor # 0 => inPass
  /\ call # NoCall => pc = "events"
  /\ \A i \in present \union visit : i < nextTimerId
  /\ \A i \in TimerIds : i >= nextTimerId => fires[i] = 0
  /\ \A i \in TimerIds : (~timer[i].repeating /\ fires[i] # 0)
                           => fires[i] = 1 /\ (timer[i].cancelled \/ cursor = i)

\* The abstract specification of the task queue.
Executor == INSTANCE TaskExecutor WITH
              pending <- batch \o taskQueue, executed <- ran

(* The loop implements TaskExecutor: tasks posted by any thread while      *)
(* process_tasks swaps, runs and refills the queue are executed in the     *)
(* order of post(), each exactly once.                                     *)
ExecutesInOrder == Executor!Spec

\* What is left of the batch goes with the task that threw.
BatchIsLost == InTask /\ batch' \o taskQueue' = taskQueue /\ UNCHANGED ran

(* Whatever throws, a task, a handler or a timer: the only posted tasks    *)
(* that are never executed are those behind a task that threw in the batch *)
(* process_tasks had swapped out with it. All others keep their order, are *)
(* executed once, and wait in the queue for the next call of run_once().   *)
OnlyBatchesAreLost ==
  [][Executor!Next \/ BatchIsLost]_<<batch \o taskQueue, ran>>

\* Tasks posted and not yet started.
Unstarted(t) == \E k \in DOMAIN posted : posted[k] = t /\ k > Len(ran)

(* A task posted while run() is in progress is executed, or run() ends.    *)
PostedTaskRuns ==
  \A t \in Tasks : (Unstarted(t) /\ running) ~> (~Unstarted(t) \/ ~running)

(* A timer that is not cancelled has its callback called: every iteration  *)
(* of run() wakes up and comes round to it, also when the callbacks of     *)
(* other timers cancel or schedule timers and so move the vector under the *)
(* pass; unless run() ends, by stop(), an error or an exception, or the    *)
(* pass crashes in freed memory.                                           *)
TimerFires ==
  \A i \in TimerIds :
    (i \in Live /\ fires[i] = 0 /\ mode = "run" /\ pc # "idle")
      ~> (fires[i] > 0 \/ timer[i].cancelled \/ pc \in {"idle", "crashed"})

(* Once run() has passed its preamble, stop() called by any thread, at any *)
(* point of the iteration, makes run() return.                             *)
StopEndsRun == (running /\ stopped /\ pc \notin {"idle", "reset"}) ~> ~running

\* Data waits on a socket that is registered and polled.
HasEvent(h) == h \in ready /\ polled[h] # 0 /\ polled[h] = handlers[h]

(* on_event is called when an event occurs (event_loop.h): data waiting on *)
(* a socket that is registered and polled reaches its handler, unless the  *)
(* data is read, the registration changes or the loop returns first.       *)
EventDelivered ==
  \A h \in Handles :
    (HasEvent(h) /\ pc # "idle")
      ~> (call.handle = h \/ ~HasEvent(h) \/ pc \in {"idle", "crashed"})

-----------------------------------------------------------------------------
\* What the documentation says and the code does not keep.

(* run() blocks until stop() is called (event_loop.h): a stop() called     *)
(* while running is raised makes run() return.                             *)
StopIsNotLost == (running /\ stopped) ~> ~running

(* is_running() tells whether the loop is running (event_loop.h): with the *)
(* loop thread back in its caller, it is not.                              *)
RunningMeansRun == running => pc # "idle"

(* With no timer pending, run() asks the poller for no longer a wait than  *)
(* the configured default (event_loop_config::default_timeout_ms).         *)
IdleWaitIsDefault == (pc = "swap" /\ mode = "run" /\ Live = {}) => timeout <= DefaultTimeout

(* A handler is called for the socket it was registered for, never for an  *)
(* event of another socket that had or got the same handle.                *)
HandlerOfItsSocket ==
  [][\A e \in Event : (e \in events /\ e \notin events' /\ call' # NoCall)
       => call'.handler = e.socket]_vars
=============================================================================
