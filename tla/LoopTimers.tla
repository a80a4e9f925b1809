----------------------------- MODULE LoopTimers -----------------------------
(***************************************************************************)
(* The timer service of vynx_http::event_loop: the vector of timer_entry   *)
(* records, schedule_timer, cancel_timer and the pass of process_timers.   *)
(*                                                                         *)
(* Ids grow and push_back appends, so the order of the vector is the order *)
(* of the ids: the vector is the set present of ids with one record each.  *)
(* Time is relative: left is the number of ticks until expiry (0: due).    *)
(* The pass compares every expiry with a clock it read once, at its start; *)
(* due is that comparison and lag the ticks that went by since.            *)
(***************************************************************************)
EXTENDS Integers, FiniteSets

CONSTANTS
  MaxTimers,        \* bound: timers ever scheduled
  Delays            \* the delays and intervals, in ticks, callers use

ASSUME TimersAssumption ==
  /\ MaxTimers \in Nat
  /\ Delays \subseteq Nat

TimerIds == 1..MaxTimers

VARIABLES
  present,          \* ids in the vector impl::timers
  timer,            \* the record of each id, kept after it left the vector
  nextTimerId,      \* impl::next_timer_id
  capacity,         \* capacity of the vector: a push_back beyond it reallocates
  inPass,           \* process_timers is running
  visit,            \* ids its loop has not reached yet
  due,              \* ids whose expiry its clock has reached
  lag,              \* ticks since it read the clock
  cursor,           \* id whose callback is running, 0 for none
  detached,         \* the loop's iterators point into freed memory
  fires             \* history: callbacks started per id, counted up to 2

vecVars  == <<present, timer, nextTimerId, capacity>>
passVars == <<inPass, visit, due, lag, cursor, detached>>
timerVars == <<vecVars, passVars, fires>>

TimerRecord == [left : Nat, interval : Nat,
                repeating : BOOLEAN, cancelled : BOOLEAN]

Live == {i \in present : ~timer[i].cancelled}

\* Fault: the difference is not cut off at 0.
Minus_Signed(a, b) == a - b

\* Time left: what is overdue has none left.
Minus(a, b) == IF a > b THEN a - b ELSE 0

TimersInit ==
  /\ present = {}
  /\ timer = [i \in TimerIds |-> [left |-> 0, interval |-> 0,
                                  repeating |-> FALSE, cancelled |-> FALSE]]
  /\ nextTimerId = 1
  /\ capacity = 0
  /\ inPass = FALSE
  /\ visit = {}
  /\ due = {}
  /\ lag = 0
  /\ cursor = 0
  /\ detached = FALSE
  /\ fires = [i \in TimerIds |-> 0]

-----------------------------------------------------------------------------
\* Operations.

(* schedule_timer, both overloads: the one-shot or repeating timer whose    *)
(* interval is its delay, and the repeating one with its own interval. A    *)
(* push_back into a full vector moves the records to new memory: if that    *)
(* happens under the loop of process_timers, the loop is left behind.       *)
ScheduleTimer(d, itv, rep) ==
  /\ nextTimerId \in TimerIds
  /\ (~rep => itv = d)
  /\ timer' = [timer EXCEPT ![nextTimerId] =
                 [left |-> d, interval |-> itv,
                  repeating |-> rep, cancelled |-> FALSE]]
  /\ present' = present \union {nextTimerId}
  /\ nextTimerId' = nextTimerId + 1
  /\ IF Cardinality(present) = capacity
       THEN /\ capacity' = IF capacity = 0 THEN 1 ELSE 2 * capacity
            /\ detached' = inPass
       ELSE UNCHANGED <<capacity, detached>>
  /\ UNCHANGED <<inPass, visit, due, lag, cursor, fires>>

(* cancel_timer marks the record; an id that left the vector is an error. *)
MarkCancelled(S) ==
  /\ timer' = [i \in TimerIds |-> [timer[i] EXCEPT !.cancelled = @ \/ i \in S]]
  /\ UNCHANGED <<present, nextTimerId, capacity, passVars, fires>>

CancelTimer(i) == i \in present /\ MarkCancelled({i})

(* The start of process_timers: the clock is read and compared. *)
PassBegin ==
  /\ inPass' = TRUE
  /\ visit' = present
  /\ due' = {i \in present : timer[i].left = 0}
  /\ lag' = 0
  /\ detached' = FALSE
  /\ UNCHANGED <<vecVars, cursor, fires>>

(* What the loop of process_timers still has to fire: records that are not *)
(* cancelled and were due when the clock was read.                         *)
ToFire == {i \in visit : i \in due /\ ~timer[i].cancelled}

(* The loop reaches the next record to fire and calls its callback. *)
FireBegin(i) ==
  /\ cursor = 0
  /\ ~detached
  /\ i \in ToFire
  /\ \A j \in ToFire : i <= j
  /\ cursor' = i
  /\ visit' = {j \in visit : j > i}
  /\ fires' = [fires EXCEPT ![i] = IF @ < 2 THEN @ + 1 ELSE @]
  /\ UNCHANGED <<vecVars, inPass, due, lag, detached>>

\* Fault: a one-shot timer is left as it is.
FireEnd_KeepsOneShot ==
  /\ cursor # 0
  /\ cursor' = 0
  /\ timer' = [timer EXCEPT ![cursor].left = Minus(timer[cursor].interval, lag)]
  /\ UNCHANGED <<present, nextTimerId, capacity,
                 inPass, visit, due, lag, detached, fires>>

(* The callback returned: a repeating timer is armed again from the clock  *)
(* of the pass, a one-shot is marked for removal. A loop left behind by a  *)
(* reallocation writes to the freed record, so the vector keeps the old.   *)
FireEnd ==
  /\ cursor # 0
  /\ cursor' = 0
  /\ timer' = IF detached THEN timer
              ELSE IF timer[cursor].repeating
              THEN [timer EXCEPT ![cursor].left =
                      Minus(timer[cursor].interval, lag)]
              ELSE [timer EXCEPT ![cursor].cancelled = TRUE]
  /\ UNCHANGED <<present, nextTimerId, capacity,
                 inPass, visit, due, lag, detached, fires>>

\* Fault: what was due leaves the vector, as if it had been fired.
PassEnd_RemovesDue ==
  /\ cursor = 0
  /\ detached \/ ToFire = {}
  /\ present' = Live \ {i \in due : ~timer[i].repeating}
  /\ inPass' = FALSE
  /\ visit' = {}
  /\ due' = {}
  /\ lag' = 0
  /\ detached' = FALSE
  /\ UNCHANGED <<timer, nextTimerId, capacity, cursor, fires>>

(* The end of process_timers: cancelled records leave the vector. *)
PassEnd ==
  /\ cursor = 0
  /\ detached \/ ToFire = {}
  /\ present' = Live
  /\ inPass' = FALSE
  /\ visit' = {}
  /\ due' = {}
  /\ lag' = 0
  /\ detached' = FALSE
  /\ UNCHANGED <<timer, nextTimerId, capacity, cursor, fires>>

(* An exception leaves process_timers through the callback: the running    *)
(* timer is neither armed again nor marked, and nothing is removed.        *)
PassAbort ==
  /\ inPass' = FALSE
  /\ visit' = {}
  /\ due' = {}
  /\ lag' = 0
  /\ cursor' = 0
  /\ detached' = FALSE
  /\ UNCHANGED <<vecVars, fires>>

(* One tick of the steady clock. *)
Elapse ==
  /\ timer' = [i \in TimerIds |-> [timer[i] EXCEPT !.left = Minus(@, 1)]]
  /\ lag' = IF inPass /\ \E d \in Delays : lag < d THEN lag + 1 ELSE lag
  /\ UNCHANGED <<present, nextTimerId, capacity, inPass, visit, due, cursor,
                 detached, fires>>

-----------------------------------------------------------------------------
\* Invariants.

(* The fields of the vector and of a running pass have their types, and a  *)
(* pass visits only ids that were handed out.                              *)
TimersTypeOK ==
  /\ present \subseteq TimerIds
  /\ timer \in [TimerIds -> TimerRecord]
  /\ nextTimerId \in 1..MaxTimers + 1
  /\ capacity \in Nat
  /\ inPass \in BOOLEAN
  /\ visit \subseteq TimerIds
  /\ due \subseteq TimerIds
  /\ lag \in Nat
  /\ cursor \in 0..MaxTimers
  /\ detached \in BOOLEAN
  /\ fires \in [TimerIds -> 0..2]

(* A timer scheduled without repeating (event_loop.h, schedule_timer with  *)
(* repeating = false) has its callback called at most once, over all       *)
(* passes and whatever timers are cancelled meanwhile, as long as no       *)
(* callback throws or schedules a timer in the pass.                       *)
OneShotFiresOnce == \A i \in TimerIds : ~timer[i].repeating => fires[i] <= 1
=============================================================================
