---------------------------- MODULE LoopShutdown ----------------------------
(***************************************************************************)
(* register_loop_shutdown(): a repeating timer of the loop (EventLoop)     *)
(* that asks a signal handler (SignalHandler) whether SIGINT or SIGTERM    *)
(* was received, and stops the loop if so. Main owns the handlers, runs    *)
(* the loop, and takes signals in the middle of either; other threads take *)
(* signals and call stop(). No other timer, task or socket is in use, but  *)
(* the loop is all of EventLoop's.                                         *)
(***************************************************************************)
EXTENDS EventLoop, SignalHandler

CONSTANT Interval   \* 100 ms, in ticks

ASSUME ShutdownAssumption == Interval \in Nat

VARIABLE target     \* the handler the timer's callback refers to, 0 for none

loopVars == vars
allVars == <<loopVars, signalVars, target>>

ShutdownInit == Init /\ SignalsInit /\ target = 0

-----------------------------------------------------------------------------

\* Bound: the handler is the only one, and handlers were used as they should.
MayRegister(h) == MainIsFree /\ pc = "idle" /\ alive = {h} /\ disciplined

\* Fault: the flags are looked at once.
RegisterLoopShutdown_OneShot(h) ==
  /\ MayRegister(h)
  /\ ScheduleTimer(0, 0, FALSE)
  /\ target' = h
  /\ UNCHANGED <<pollerVars, taskVars, controlVars, signalVars>>

(* register_loop_shutdown(loop, handler), before run() or between two.     *)
RegisterLoopShutdown(h) ==
  /\ MayRegister(h)
  /\ ScheduleTimer(0, Interval, TRUE)
  /\ target' = h
  /\ UNCHANGED <<pollerVars, taskVars, controlVars, signalVars>>

StopRequested == received[target] \intersect {sigint, sigterm} # {}

(* The timer's callback. Nothing cancels the timer when the handler is     *)
(* destroyed: the flags it reads then are those of freed memory.           *)
ShutdownCallback ==
  /\ MainIsFree
  /\ pc = "timers"
  /\ FireEnd
  /\ \/ target \in alive /\ stopped' = (stopped \/ StopRequested)
     \/ target \notin alive /\ stopped' \in {stopped, TRUE}
  /\ UNCHANGED <<pollerVars, taskVars, pc, mode, running, timeout, waitLeft, call,
                 signalVars, target>>

(* The loop thread, unless a posix_handler is on top of it.                *)
LoopSteps ==
  /\ MainIsFree
  /\ LoopIteration
  /\ UNCHANGED <<signalVars, target>>

RunsLoop ==
  /\ MainIsFree
  /\ target # 0
  /\ RunEnter
  /\ UNCHANGED <<signalVars, target>>

UserStops ==
  /\ process = "runs"
  /\ target # 0
  /\ Stop
  /\ UNCHANGED <<signalVars, target>>

Time == process = "runs" /\ target # 0 /\ Tick /\ UNCHANGED <<signalVars, target>>

(* Bound: what Main does to handlers comes before the registration, except *)
(* that it may destroy them between two calls of run().                    *)
OwnerSteps ==
  /\ pc = "idle"
  /\ \/ target = 0 /\ OwnerBegins
     \/ \E h \in HandlerIds : Destroy(h)
     \/ OwnerGoesOn
  /\ UNCHANGED <<loopVars, target>>

(* A signal on the thread that sleeps in the poller ends its wait (EINTR). *)
SignalArrives(t, s) ==
  /\ Deliver(t, s)
  /\ IF t = Main /\ pc = "wait" /\ process' = "runs" THEN PollNothing
                                                     ELSE UNCHANGED loopVars
  /\ UNCHANGED target

HandlerSteps(t) == PosixHandler(t) /\ UNCHANGED <<loopVars, target>>

ShutdownNext ==
  \/ \E h \in HandlerIds : RegisterLoopShutdown(h)
  \/ ShutdownCallback
  \/ LoopSteps \/ RunsLoop \/ UserStops \/ Time
  \/ OwnerSteps
  \/ \E t \in Threads, s \in Signals : SignalArrives(t, s)
  \/ \E t \in Threads : HandlerSteps(t)

ShutdownSpec == ShutdownInit /\ [][ShutdownNext]_allVars

(* The threads are scheduled and time passes; signals come to an end.      *)
FairShutdownSpec ==
  /\ ShutdownSpec
  /\ WF_allVars(LoopSteps \/ ShutdownCallback)
  /\ WF_allVars(Time)
  /\ \A t \in Threads : WF_allVars(HandlerSteps(t))

-----------------------------------------------------------------------------
\* Properties.

ShutdownTypeOK ==
  /\ TypeOK
  /\ SignalsTypeOK
  /\ target \in HandlerIds \union {0}

(* SIGINT and SIGTERM end run() ("Convenience: register event loop to stop *)
(* on SIGINT/SIGTERM", signal_handler.h), on whatever thread and at        *)
(* whatever point of the loop they arrive: before run(), between its two   *)
(* stores, where a plain stop() is lost, in its wait or in the pass; and   *)
(* again each time run() is called after it.                               *)
SignalEndsRun ==
  (running /\ target \in alive /\ StopRequested)
    ~> (~running \/ process # "runs")
=============================================================================
