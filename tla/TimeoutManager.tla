--------------------------- MODULE TimeoutManager ---------------------------
(***************************************************************************)
(* vynx_http::timeout_manager: per-socket timeouts, each an entry of a map *)
(* under a mutex and a one-shot timer of the event loop (LoopTimers) whose *)
(* callback takes the mutex, retires the entry and calls the user.         *)
(*                                                                         *)
(* Disciplined callers are on the loop thread, between two passes of       *)
(* process_timers, and set the loop before the first timeout. Others are   *)
(* on a second thread that the mutex serialises with the callbacks, set    *)
(* and take away the loop at any time and call the manager from callbacks. *)
(* The passes of the loop are those of EventLoop.                          *)
(***************************************************************************)
EXTENDS LoopTimers

CONSTANTS
  Handles,          \* native handles of the sockets
  Types,            \* timeout_type values in use
  Idle,             \* timeout_type::idle
  None              \* no entry

ASSUME ManagerAssumption ==
  /\ IsFiniteSet(Handles)
  /\ IsFiniteSet(Types)
  /\ Idle \in Types
  /\ None \notin Handles \X Types

\* make_key: one entry per socket and type.
Keys == Handles \X Types

VARIABLES
  disciplined,      \* how the manager is used, for good
  attached,         \* impl::loop is set
  entry,            \* impl::entries
  fired,            \* stats::timeouts_fired
  cancelled,        \* stats::timeouts_cancelled
  activeTimeouts,   \* stats::active_timeouts
  owner,            \* the key captured by the callback of each timer
  notifies,         \* its timer_cb is the user's, not reset_idle's no-op
  caller,           \* where the caller is: outside, about to start a timeout
                    \* for reset_idle, or in start_timeout with the mutex
  arg,              \* its arguments: key, duration and callback
  callback,         \* where the running timer callback is
  starts,           \* history: timeouts stored
  wanted            \* history: the user waits to be told of a key's timeout

entryVars == <<attached, entry, fired, cancelled, activeTimeouts>>
timerArgs == <<owner, notifies>>
callVars == <<caller, arg, callback>>
vars == <<disciplined, timerVars, entryVars, timerArgs, callVars, starts, wanted>>

\* A key without an entry is an inactive one: entries are never erased.
Entry == [timer : 0..MaxTimers, notifies : BOOLEAN, active : BOOLEAN]
Arg == [key : Keys \union {None}, delay : Nat, notifies : BOOLEAN]
NoArg == [key |-> None, delay |-> 0, notifies |-> FALSE]

Init ==
  /\ TimersInit
  /\ disciplined \in BOOLEAN
  /\ attached = FALSE
  /\ entry = [k \in Keys |-> [timer |-> 0, notifies |-> FALSE, active |-> FALSE]]
  /\ fired = 0
  /\ cancelled = 0
  /\ activeTimeouts = 0
  /\ owner = [i \in TimerIds |-> None]
  /\ notifies = [i \in TimerIds |-> FALSE]
  /\ caller = "outside"
  /\ arg = NoArg
  /\ callback = "none"
  /\ starts = 0
  /\ wanted = [k \in Keys |-> FALSE]

\* count_active_in_map.
Active == {k \in Keys : entry[k].active}
CountActive(e) == Cardinality({k \in Keys : e[k].active})

MutexFree == caller # "locked" /\ callback \notin {"user", "stuck"}

\* Who may call: the loop thread is not in two places at once.
CallerMayRun == disciplined => ~inPass
LoopMayRun == disciplined => caller = "outside"

-----------------------------------------------------------------------------
\* The operations of the manager.

\* Fault: the timers of the sockets are cancelled, of whatever type.
CancelLoopTimers_AllTypes(K) ==
  IF attached
    THEN MarkCancelled({entry[k].timer : k \in {j \in Keys : \E l \in K : l[1] = j[1]}}
                         \intersect present)
    ELSE UNCHANGED timerVars

(* Cancels the loop's timers of some entries, as far as there is a loop. *)
CancelLoopTimers(K) ==
  IF attached
    THEN MarkCancelled({entry[k].timer : k \in K} \intersect present)
    ELSE UNCHANGED timerVars

(* set_event_loop. *)
SetEventLoop(b) ==
  /\ CallerMayRun
  /\ caller = "outside"
  /\ disciplined => starts = 0
  /\ attached' = b
  /\ UNCHANGED <<timerVars, entry, fired, cancelled, activeTimeouts, timerArgs,
                 callVars, starts, wanted>>

\* Fault: the timer of a replaced timeout is left in the loop.
StartLocks_KeepsTimer(k) ==
  /\ MutexFree
  /\ cancelled' = IF entry[k].active THEN cancelled + 1 ELSE cancelled
  /\ caller' = "locked"
  /\ UNCHANGED <<timerVars, attached, entry, fired, activeTimeouts, timerArgs, callback, starts>>

(* start_timeout up to the call of schedule_timer: under the mutex, the    *)
(* timer of an active entry is cancelled.                                  *)
StartLocks(k) ==
  /\ MutexFree
  /\ CancelLoopTimers({k} \intersect Active)
  /\ cancelled' = IF entry[k].active THEN cancelled + 1 ELSE cancelled
  /\ caller' = "locked"
  /\ UNCHANGED <<attached, entry, fired, activeTimeouts, timerArgs, callback, starts>>

StartTimeout(k, d) ==
  /\ CallerMayRun
  /\ caller = "outside"
  /\ starts < MaxTimers
  /\ StartLocks(k)
  /\ arg' = [key |-> k, delay |-> d, notifies |-> TRUE]
  /\ wanted' = [wanted EXCEPT ![k] = TRUE]

(* The rest of start_timeout: the timer is scheduled, the entry stored. *)
StartStores ==
  /\ caller = "locked"
  /\ IF attached
       THEN /\ ScheduleTimer(arg.delay, arg.delay, FALSE)
            /\ owner' = [owner EXCEPT ![nextTimerId] = arg.key]
            /\ notifies' = [notifies EXCEPT ![nextTimerId] = arg.notifies]
       ELSE UNCHANGED <<timerVars, timerArgs>>
  /\ entry' = [entry EXCEPT ![arg.key] =
                 [timer |-> IF attached THEN nextTimerId ELSE 0,
                  notifies |-> arg.notifies, active |-> TRUE]]
  /\ activeTimeouts' = CountActive(entry')
  /\ starts' = starts + 1
  /\ caller' = "outside"
  /\ arg' = NoArg
  /\ UNCHANGED <<attached, fired, cancelled, callback, wanted>>

(* What cancel_timeout and cancel_all do to active entries. *)
Deactivate(K) ==
  /\ CancelLoopTimers(K)
  /\ entry' = [k \in Keys |-> [entry[k] EXCEPT !.active = @ /\ k \notin K]]
  /\ cancelled' = cancelled + Cardinality(K)
  /\ activeTimeouts' = CountActive(entry')
  /\ UNCHANGED <<attached, fired, timerArgs, callback, starts>>

(* cancel_timeout: without an active entry it is an error. *)
CancelTimeout(k) ==
  /\ CallerMayRun
  /\ caller = "outside"
  /\ MutexFree
  /\ k \in Active
  /\ Deactivate({k})
  /\ wanted' = [wanted EXCEPT ![k] = FALSE]
  /\ UNCHANGED <<caller, arg>>

CancelAll(h) ==
  /\ CallerMayRun
  /\ caller = "outside"
  /\ MutexFree
  /\ Deactivate({k \in Active : k[1] = h})
  /\ wanted' = [k \in Keys |-> wanted[k] /\ k[1] # h]
  /\ UNCHANGED <<caller, arg>>

(* reset_idle: cancel_timeout, whose error for an inactive entry it        *)
(* ignores, and then, the mutex released, start_timeout with a no-op.      *)
ResetCancels(h, d) ==
  /\ CallerMayRun
  /\ caller = "outside"
  /\ starts < MaxTimers
  /\ MutexFree
  /\ Deactivate({<<h, Idle>>} \intersect Active)
  /\ caller' = "reset"
  /\ arg' = [key |-> <<h, Idle>>, delay |-> d, notifies |-> FALSE]
  /\ UNCHANGED wanted

ResetStarts ==
  /\ caller = "reset"
  /\ StartLocks(arg.key)
  /\ UNCHANGED <<arg, wanted>>

-----------------------------------------------------------------------------
\* The passes of the loop and the callback of a timeout.

PassStarts ==
  /\ LoopMayRun
  /\ ~inPass
  /\ PassBegin
  /\ UNCHANGED <<entryVars, timerArgs, callVars, starts, wanted>>

TimerFires(i) ==
  /\ LoopMayRun
  /\ callback = "none"
  /\ FireBegin(i)
  /\ callback' = "locking"
  /\ UNCHANGED <<entryVars, timerArgs, caller, arg, starts, wanted>>

\* Fault: the callback does not look whether the entry is still active.
CallbackLocks_Unchecked ==
  /\ LoopMayRun
  /\ callback = "locking"
  /\ MutexFree
  /\ entry' = [entry EXCEPT ![owner[cursor]].active = FALSE]
  /\ fired' = fired + 1
  /\ wanted' = [wanted EXCEPT ![owner[cursor]] = FALSE]
  /\ callback' = "user"
  /\ UNCHANGED <<timerVars, attached, cancelled, activeTimeouts, timerArgs, caller, arg, starts>>

(* The callback looks its entry up by key. Active: it is retired and the   *)
(* callback given to start_timeout called, the mutex held.                 *)
CallbackLocks ==
  /\ LoopMayRun
  /\ callback = "locking"
  /\ MutexFree
  /\ LET k == owner[cursor] IN
       IF entry[k].active
         THEN /\ entry' = [entry EXCEPT ![k].active = FALSE]
              /\ fired' = fired + 1
              /\ wanted' = [wanted EXCEPT ![k] = FALSE]
              /\ callback' = "user"
              /\ UNCHANGED activeTimeouts
         ELSE /\ activeTimeouts' = CountActive(entry)
              /\ callback' = "done"
              /\ UNCHANGED <<entry, fired, wanted>>
  /\ UNCHANGED <<timerVars, attached, cancelled, timerArgs, caller, arg, starts>>

CallbackUnlocks ==
  /\ LoopMayRun
  /\ callback = "user"
  /\ activeTimeouts' = CountActive(entry)
  /\ callback' = "done"
  /\ UNCHANGED <<timerVars, attached, entry, fired, cancelled, timerArgs,
                 caller, arg, starts, wanted>>

(* The user's callback calls the manager: the thread waits for the mutex   *)
(* it holds itself.                                                        *)
CallbackReenters ==
  /\ ~disciplined
  /\ callback = "user"
  /\ callback' = "stuck"
  /\ UNCHANGED <<timerVars, entryVars, timerArgs, caller, arg, starts, wanted>>

TimerReturns ==
  /\ LoopMayRun
  /\ callback = "done"
  /\ FireEnd
  /\ callback' = "none"
  /\ UNCHANGED <<entryVars, timerArgs, caller, arg, starts, wanted>>

PassEnds ==
  /\ LoopMayRun
  /\ inPass
  /\ PassEnd
  /\ UNCHANGED <<entryVars, timerArgs, callVars, starts, wanted>>

Tick == Elapse /\ UNCHANGED <<entryVars, timerArgs, callVars, starts, wanted>>

-----------------------------------------------------------------------------
LoopThread ==
  \/ PassStarts \/ PassEnds
  \/ \E i \in TimerIds : TimerFires(i)
  \/ CallbackLocks \/ CallbackUnlocks \/ TimerReturns

Caller ==
  \/ \E b \in BOOLEAN : SetEventLoop(b)
  \/ \E k \in Keys, d \in Delays : StartTimeout(k, d)
  \/ \E k \in Keys : CancelTimeout(k)
  \/ \E h \in Handles : CancelAll(h)
  \/ \E h \in Handles, d \in Delays : ResetCancels(h, d)

CallerGoesOn == ResetStarts \/ StartStores

Next ==
  /\ LoopThread \/ Caller \/ CallerGoesOn \/ CallbackReenters \/ Tick
  /\ UNCHANGED disciplined

Spec == Init /\ [][Next]_vars

(* The loop iterates, a call that began goes on, time passes. *)
FairSpec ==
  /\ Spec
  /\ WF_vars(LoopThread /\ UNCHANGED disciplined)
  /\ WF_vars(CallerGoesOn /\ UNCHANGED disciplined)
  /\ WF_vars(Tick /\ UNCHANGED disciplined)

-----------------------------------------------------------------------------
\* Properties.

(* The variables of the manager and of the timers under it have their      *)
(* types.                                                                  *)
TypeOK ==
  /\ TimersTypeOK
  /\ disciplined \in BOOLEAN
  /\ attached \in BOOLEAN
  /\ entry \in [Keys -> Entry]
  /\ fired \in Nat
  /\ cancelled \in Nat
  /\ activeTimeouts \in Nat
  /\ owner \in [TimerIds -> Keys \union {None}]
  /\ notifies \in [TimerIds -> BOOLEAN]
  /\ caller \in {"outside", "reset", "locked"}
  /\ arg \in Arg
  /\ callback \in {"none", "locking", "user", "done", "stuck"}
  /\ starts \in Nat
  /\ wanted \in [Keys -> BOOLEAN]

\* The entry start_timeout is replacing.
Replaced == IF caller = "locked" THEN {arg.key} \intersect Active ELSE {}

(* Every timeout that was started is active, fired or cancelled, and is    *)
(* counted once in the statistics of the manager. While start_timeout      *)
(* replaces an entry, the old one is already counted as cancelled.         *)
Conservation == starts = fired + cancelled + Cardinality(Active \ Replaced)

(* stats::active_timeouts is the number of active entries whenever the     *)
(* mutex is free.                                                          *)
ActiveCountIsRight == MutexFree => activeTimeouts = Cardinality(Active)

(* get_stats() adds up: nothing that was started is lost or counted twice, *)
(* in whatever order threads start, cancel, replace and fire timeouts.     *)
StatisticsAgree == Conservation /\ ActiveCountIsRight

(* An active timeout that was started with a loop has its own live timer   *)
(* there, so it will fire; it has not been cancelled through another key.  *)
ActiveIsArmed ==
  \A k \in Keys : (disciplined /\ entry[k].active /\ entry[k].timer # 0 /\ k \notin Replaced)
                    => entry[k].timer \in Live /\ owner[entry[k].timer] = k

(* A timer of the loop that can still fire belongs to the active entry of  *)
(* its key, except while its callback is running - if the loop is not      *)
(* taken away, which leaves the timers of cancelled timeouts behind.       *)
NoOrphanTimer ==
  disciplined => \A i \in Live \ {cursor} :
    LET k == owner[i] IN entry[k].active /\ entry[k].timer = i

(* The entries of the manager and the timers of the loop, which are under  *)
(* different locks, describe the same timeouts.                            *)
TimersMatchEntries == ActiveIsArmed /\ NoOrphanTimer

(* A timeout is retired by the timer that was scheduled for it: a timer    *)
(* that start_timeout replaced (timeout_manager.cpp: "If there's already   *)
(* an active entry for this handle+type, cancel the old timer") does not   *)
(* fire in place of its successor, if callers are disciplined: one on      *)
(* another thread may replace it while its callback waits for the mutex.   *)
FiresOwnTimer ==
  [][\A k \in Keys : (disciplined /\ entry[k].active /\ fired' # fired /\ ~entry'[k].active)
        => entry[k].timer = cursor]_vars

(* An active timeout with a live loop eventually fires, or is cancelled or *)
(* replaced, unless a callback blocks the loop for ever.                   *)
TimeoutHappens ==
  \A k \in Keys, i \in TimerIds :
    (entry[k].active /\ entry[k].timer = i)
      ~> (~(entry[k].active /\ entry[k].timer = i) \/ callback = "stuck")

-----------------------------------------------------------------------------
\* What the documentation says and the code does not keep.

(* A call of the manager returns (timeout_manager.h declares cancel_all    *)
(* and the others without a restriction on where they are called from).    *)
CallsReturn == callback # "stuck"

(* reset_idle resets the timeout (timeout_manager.h: "Reset idle timeout   *)
(* (call on activity)"): a user who asked to be told of it still is.       *)
ResetKeepsCallback ==
  \A k \in Keys : (wanted[k] /\ entry[k].active) => entry[k].notifies
=============================================================================
