------------------------ MODULE TimeoutManagerProofs ------------------------
(***************************************************************************)
(* Theorems about TimeoutManager, for any sockets, types of timeout and    *)
(* delays, and any number of timers.                                       *)
(***************************************************************************)
EXTENDS TimeoutManager, LoopTimersProofs, FiniteSetTheorems

USE TimersAssumption, ManagerAssumption DEF TimersAssumption, ManagerAssumption

-----------------------------------------------------------------------------
\* The inductive invariant.

(* The mutex is held once, and disciplined callers wait for the pass.      *)
CallInv ==
  /\ caller # "outside" => arg.key \in Keys /\ arg.delay \in Delays
  /\ caller = "locked" => callback \notin {"user", "stuck"}
  /\ (disciplined /\ caller # "outside") => ~inPass

(* The timers are one-shot ones that start_timeout has scheduled. A pass   *)
(* visits those in the vector, and no push_back leaves it behind.          *)
ScheduledInv ==
  /\ \A i \in TimerIds : ~timer[i].repeating
  /\ \A i \in TimerIds : i < nextTimerId => owner[i] \in Keys
  /\ \A i \in present : i < nextTimerId
  /\ visit \subseteq present
  /\ cursor \in present \union {0}
  /\ ~inPass => visit = {} /\ cursor = 0
  /\ callback = "none" <=> cursor = 0
  /\ disciplined => ~detached

(* As long as no timeout was started, or there is no loop whose timers     *)
(* disciplined callers could use, there is no timer.                       *)
LoopInv ==
  /\ starts = 0 => nextTimerId = 1
  /\ (disciplined /\ ~attached) => nextTimerId = 1

BaseInv == TypeOK /\ CallInv /\ ScheduledInv /\ LoopInv

(* While a timeout is replaced, none of the loop's timers is its. The one  *)
(* whose callback runs is that of the active entry, until it has retired   *)
(* the entry.                                                              *)
FiringInv ==
  disciplined =>
    /\ caller = "locked" => \A i \in Live : owner[i] # arg.key
    /\ callback = "locking" => /\ cursor \in Live
                               /\ entry[owner[cursor]].active
                               /\ entry[owner[cursor]].timer = cursor
    /\ callback \in {"user", "done"} => ~entry[owner[cursor]].active

MatchInv == TimersMatchEntries /\ FiringInv

ManagerInv == BaseInv /\ StatisticsAgree /\ MatchInv

-----------------------------------------------------------------------------
\* What the manager does, as far as the timers and entries can tell.

\* start_timeout, up to the call of schedule_timer.
Starting(k) ==
  /\ StartLocks(k)
  /\ caller # "locked"
  /\ disciplined => ~inPass
  /\ arg' \in Arg /\ arg'.key = k /\ arg'.delay \in Delays
  /\ wanted' \in [Keys -> BOOLEAN]

\* cancel_timeout, cancel_all, and the first half of reset_idle.
Deactivating(K) ==
  /\ Deactivate(K)
  /\ MutexFree
  /\ caller = "outside"
  /\ disciplined => ~inPass
  /\ \/ UNCHANGED <<caller, arg>>
     \/ caller' = "reset" /\ arg' \in Arg /\ arg'.key \in Keys /\ arg'.delay \in Delays
  /\ wanted' \in [Keys -> BOOLEAN]

(* Those are all the steps there are.                                      *)
LEMMA Operations ==
  ASSUME BaseInv, [Next]_vars
  PROVE  /\ UNCHANGED disciplined
         /\ \/ \E b \in BOOLEAN : SetEventLoop(b)
            \/ \E k \in Keys : Starting(k)
            \/ StartStores
            \/ \E K \in SUBSET Active : Deactivating(K)
            \/ PassStarts \/ PassEnds \/ TimerReturns
            \/ \E i \in TimerIds : TimerFires(i)
            \/ CallbackLocks \/ CallbackUnlocks \/ CallbackReenters
            \/ Tick
            \/ UNCHANGED vars
<1> USE DEF BaseInv, TypeOK
<1>1. CASE UNCHANGED vars
  BY <1>1 DEF vars
<1>2. ASSUME NEW k \in Keys, NEW d \in Delays, StartTimeout(k, d)
      PROVE  Starting(k)
  <2>1. /\ StartLocks(k) /\ caller = "outside" /\ wanted' = [wanted EXCEPT ![k] = TRUE]
        /\ disciplined => ~inPass
        /\ arg' = [key |-> k, delay |-> d, notifies |-> TRUE]
    BY <1>2 DEF StartTimeout, CallerMayRun
  <2>2. arg' \in Arg
    BY <2>1 DEF Arg
  <2> QED
    BY <2>1, <2>2 DEF Starting
<1>3. ASSUME NEW k \in Keys, CancelTimeout(k)
      PROVE  \E K \in SUBSET Active : Deactivating(K)
  <2>1. Deactivating({k})
    BY <1>3 DEF CancelTimeout, Deactivating, CallerMayRun
  <2> QED
    BY <1>3, <2>1 DEF CancelTimeout
<1>4. ASSUME NEW h \in Handles, CancelAll(h)
      PROVE  \E K \in SUBSET Active : Deactivating(K)
  <2> DEFINE K == {k \in Active : k[1] = h}
  <2>1. wanted' \in [Keys -> BOOLEAN]
    BY <1>4 DEF CancelAll
  <2>2. Deactivating(K)
    BY <1>4, <2>1 DEF CancelAll, Deactivating, CallerMayRun
  <2> QED
    BY <2>2
<1>5. ASSUME NEW h \in Handles, NEW d \in Delays, ResetCancels(h, d)
      PROVE  \E K \in SUBSET Active : Deactivating(K)
  <2> DEFINE K == {<<h, Idle>>} \intersect Active
  <2>1. <<h, Idle>> \in Keys
    BY DEF Keys
  <2>2. arg' = [key |-> <<h, Idle>>, delay |-> d, notifies |-> FALSE] /\ wanted' = wanted
    BY <1>5 DEF ResetCancels
  <2>3. arg' \in Arg /\ arg'.key \in Keys /\ arg'.delay \in Delays
    BY <2>1, <2>2 DEF Arg
  <2>4. Deactivating(K)
    BY <1>5, <2>2, <2>3 DEF ResetCancels, Deactivating, CallerMayRun
  <2> QED
    BY <2>4
<1>6. ASSUME ResetStarts PROVE \E k \in Keys : Starting(k)
  <2>1. /\ arg.key \in Keys /\ arg.delay \in Delays
        /\ disciplined => ~inPass
    BY <1>6 DEF ResetStarts, CallInv
  <2>2. /\ StartLocks(arg.key) /\ caller = "reset" /\ UNCHANGED <<arg, wanted>>
    BY <1>6 DEF ResetStarts
  <2>3. Starting(arg.key)
    BY <1>6, <2>1, <2>2 DEF Starting, CallInv
  <2> QED
    BY <2>1, <2>3
<1> QED
  BY <1>1, <1>2, <1>3, <1>4, <1>5, <1>6
  DEF Next, LoopThread, Caller, CallerGoesOn

(* Cancelling the timers of some entries takes them out of those that may  *)
(* fire, and changes nothing else.                                         *)
LEMMA Cancels ==
  ASSUME TypeOK, NEW K \in SUBSET Keys, CancelLoopTimers(K)
  PROVE  /\ TimersOp /\ TimersTypeOK'
         /\ UNCHANGED <<present, nextTimerId, inPass, visit, cursor, detached>>
         /\ \A i \in TimerIds : timer'[i].repeating = timer[i].repeating
         /\ attached => Live' = Live \ {entry[k].timer : k \in K}
         /\ ~attached => Live' = Live
<1> DEFINE S == {entry[k].timer : k \in K} \intersect present
<1>1. S \in SUBSET TimerIds /\ timer \in [TimerIds -> TimerRecord] /\ present \subseteq TimerIds
  BY DEF TypeOK, TimersTypeOK
<1>2. CASE ~attached
  BY <1>2 DEF CancelLoopTimers, TimersOp, timerVars, vecVars, passVars, Live, TimersTypeOK, TypeOK
<1>3. CASE attached
  <2>1. MarkCancelled(S)
    BY <1>3 DEF CancelLoopTimers
  <2>2. TimersOp
    BY <1>1, <2>1 DEF TimersOp
  <2> HIDE DEF S
  <2>3. /\ UNCHANGED <<present, nextTimerId, inPass, visit, cursor, detached>>
        /\ timer' = [i \in TimerIds |-> [timer[i] EXCEPT !.cancelled = @ \/ i \in S]]
    BY <2>1 DEF MarkCancelled, passVars
  <2>4. \A i \in TimerIds : /\ timer'[i].repeating = timer[i].repeating
                            /\ timer'[i].cancelled = (timer[i].cancelled \/ i \in S)
    BY <1>1, <2>3 DEF TimerRecord
  <2>5. Live' = Live \ S
    BY <1>1, <2>3, <2>4 DEF Live
  <2>6. Live' = Live \ {entry[k].timer : k \in K}
    BY <2>5 DEF S, Live
  <2>7. TimersTypeOK'
    BY <2>2, TimersStepType DEF TypeOK
  <2> QED
    BY <1>3, <2>2, <2>3, <2>4, <2>6, <2>7
<1> QED
  BY <1>2, <1>3

-----------------------------------------------------------------------------
\* Types, and where the timers and their callers are.

(* Every step is one of the timers too, and they keep their types.         *)
LEMMA TimersKeepTypes ==
  ASSUME BaseInv, [Next]_vars
  PROVE  TimersTypeOK'
<1>1. CASE \E k \in Keys : Starting(k)
  <2>1. PICK k \in Keys : StartLocks(k)
    BY <1>1 DEF Starting
  <2>2. CancelLoopTimers({k} \intersect Active) /\ {k} \intersect Active \in SUBSET Keys
    BY <2>1 DEF StartLocks, Active
  <2> QED
    BY <2>2, Cancels DEF BaseInv
<1>2. CASE \E K \in SUBSET Active : Deactivating(K)
  <2>1. PICK K \in SUBSET Keys : CancelLoopTimers(K)
    BY <1>2 DEF Deactivating, Deactivate, Active
  <2> QED
    BY <2>1, Cancels DEF BaseInv
<1>3. CASE StartStores
  <2>1. caller = "locked" /\ (ScheduleTimer(arg.delay, arg.delay, FALSE) \/ UNCHANGED timerVars)
    BY <1>3 DEF StartStores
  <2>2. arg.delay \in Delays
    BY <2>1 DEF BaseInv, CallInv
  <2>3. TimersOp
    BY <2>1, <2>2 DEF TimersOp
  <2> QED
    BY <2>3, TimersStepType DEF BaseInv, TypeOK
<1>4. CASE \/ \E b \in BOOLEAN : SetEventLoop(b)
           \/ PassStarts \/ PassEnds \/ TimerReturns
           \/ \E i \in TimerIds : TimerFires(i)
           \/ CallbackLocks \/ CallbackUnlocks \/ CallbackReenters
           \/ Tick
           \/ UNCHANGED vars
  <2>1. TimersOp
    BY <1>4 DEF SetEventLoop, PassStarts, PassEnds, TimerReturns, TimerFires, CallbackLocks,
                CallbackUnlocks, CallbackReenters, Tick, vars, TimersOp
  <2> QED
    BY <2>1, TimersStepType DEF BaseInv, TypeOK
<1> QED
  BY <1>1, <1>2, <1>3, <1>4, Operations

(* A number of keys is one.                                                *)
LEMMA KeysAreFinite ==
  ASSUME NEW K \in SUBSET Keys
  PROVE  IsFiniteSet(K) /\ Cardinality(K) \in Nat
<1>1. IsFiniteSet(Keys)
  BY FS_Product DEF Keys
<1> QED
  BY <1>1, FS_Subset, FS_CardinalityType

(* There are finitely many keys, so that active entries can be counted. *)
LEMMA CountIs ==
  ASSUME NEW e \in [Keys -> Entry]
  PROVE  CountActive(e) \in Nat
<1>1. {k \in Keys : e[k].active} \in SUBSET Keys
  OBVIOUS
<1> QED
  BY <1>1, KeysAreFinite DEF CountActive

(* The callback that runs is that of a timer with a key.                   *)
LEMMA RunningHasKey ==
  ASSUME BaseInv, callback # "none"
  PROVE  cursor \in TimerIds /\ cursor \in present /\ owner[cursor] \in Keys
BY DEF BaseInv, ScheduledInv, TypeOK, TimersTypeOK

(* The steps of the manager's callers keep the types of its variables ...  *)
LEMMA CallersKeepTypes ==
  ASSUME BaseInv, TimersTypeOK', UNCHANGED disciplined,
         \/ \E b \in BOOLEAN : SetEventLoop(b)
         \/ \E k \in Keys : Starting(k)
         \/ StartStores
         \/ \E K \in SUBSET Active : Deactivating(K)
  PROVE  TypeOK'
<1> USE DEF BaseInv, TypeOK
<1>1. ASSUME NEW b \in BOOLEAN, SetEventLoop(b) PROVE TypeOK'
  BY <1>1 DEF SetEventLoop, timerArgs, callVars
<1>2. ASSUME NEW k \in Keys, Starting(k) PROVE TypeOK'
  <2>1. cancelled' \in Nat
    BY <1>2 DEF Starting, StartLocks
  <2> QED
    BY <1>2, <2>1 DEF Starting, StartLocks, timerArgs
<1>3. CASE StartStores
  <2>1. arg.key \in Keys /\ arg.notifies \in BOOLEAN /\ caller = "locked"
    BY <1>3 DEF StartStores, CallInv, Arg
  <2>2. /\ owner' \in [TimerIds -> Keys \union {None}] /\ notifies' \in [TimerIds -> BOOLEAN]
        /\ (IF attached THEN nextTimerId ELSE 0) \in 0..MaxTimers
    <3>1. CASE attached
      <4>1. /\ owner' = [owner EXCEPT ![nextTimerId] = arg.key]
            /\ notifies' = [notifies EXCEPT ![nextTimerId] = arg.notifies]
            /\ nextTimerId \in TimerIds
        BY <1>3, <3>1 DEF StartStores, ScheduleTimer
      <4> QED
        BY <2>1, <3>1, <4>1 DEF TimerIds
    <3>2. CASE ~attached
      BY <1>3, <3>2 DEF StartStores, timerArgs
    <3> QED
      BY <3>1, <3>2
  <2>3. entry' \in [Keys -> Entry]
    <3> DEFINE e == [timer |-> IF attached THEN nextTimerId ELSE 0,
                     notifies |-> arg.notifies, active |-> TRUE]
    <3>1. e \in Entry
      BY <2>1, <2>2 DEF Entry
    <3>2. entry' = [entry EXCEPT ![arg.key] = e]
      BY <1>3 DEF StartStores
    <3> QED
      BY <3>1, <3>2
  <2>4. activeTimeouts' \in Nat
    BY <1>3, <2>3, CountIs DEF StartStores
  <2>5. arg' \in Arg
    BY <1>3 DEF StartStores, NoArg, Arg
  <2> QED
    BY <1>3, <2>2, <2>3, <2>4, <2>5 DEF StartStores
<1>4. ASSUME NEW K \in SUBSET Active, Deactivating(K) PROVE TypeOK'
  <2>1. entry' = [k \in Keys |-> [entry[k] EXCEPT !.active = @ /\ k \notin K]]
        /\ cancelled' = cancelled + Cardinality(K) /\ activeTimeouts' = CountActive(entry')
    BY <1>4 DEF Deactivating, Deactivate
  <2>2. entry' \in [Keys -> Entry]
    <3>1. \A k \in Keys : [entry[k] EXCEPT !.active = @ /\ k \notin K] \in Entry
      BY DEF Entry
    <3> QED
      BY <2>1, <3>1
  <2>3. cancelled' \in Nat
    BY <2>1, KeysAreFinite DEF Active
  <2>4. activeTimeouts' \in Nat
    BY <2>1, <2>2, CountIs
  <2> QED
    BY <1>4, <2>2, <2>3, <2>4 DEF Deactivating, Deactivate, timerArgs
<1> QED
  BY <1>1, <1>2, <1>3, <1>4

(* ... and so do the loop's, in and out of the callback of a timeout.      *)
LEMMA LoopKeepsTypes ==
  ASSUME BaseInv, TimersTypeOK', UNCHANGED disciplined,
         \/ PassStarts \/ PassEnds \/ TimerReturns
         \/ \E i \in TimerIds : TimerFires(i)
         \/ CallbackLocks \/ CallbackUnlocks \/ CallbackReenters
         \/ Tick
         \/ UNCHANGED vars
  PROVE  TypeOK'
<1> USE DEF BaseInv, TypeOK, timerArgs, callVars, entryVars
<1>1. CASE \/ PassStarts \/ PassEnds \/ TimerReturns
           \/ \E i \in TimerIds : TimerFires(i)
           \/ CallbackReenters \/ Tick
  BY <1>1 DEF PassStarts, PassEnds, TimerReturns, TimerFires, CallbackReenters, Tick
<1>2. CASE CallbackUnlocks
  <2>1. activeTimeouts' \in Nat
    BY <1>2, CountIs DEF CallbackUnlocks
  <2> QED
    BY <1>2, <2>1 DEF CallbackUnlocks
<1>3. CASE CallbackLocks
  <2>1. activeTimeouts' \in Nat /\ fired' \in Nat
    BY <1>3, CountIs DEF CallbackLocks
  <2>2. entry' \in [Keys -> Entry]
    <3>1. owner[cursor] \in Keys
      BY <1>3, RunningHasKey DEF CallbackLocks
    <3>2. entry' = entry \/ entry' = [entry EXCEPT ![owner[cursor]].active = FALSE]
      BY <1>3 DEF CallbackLocks
    <3> QED
      BY <3>1, <3>2, ZenonT(40) DEF Entry
  <2>3. wanted' \in [Keys -> BOOLEAN]
    BY <1>3 DEF CallbackLocks
  <2> QED
    BY <1>3, <2>1, <2>2, <2>3 DEF CallbackLocks
<1>4. CASE UNCHANGED vars
  BY <1>4 DEF vars
<1> QED
  BY <1>1, <1>2, <1>3, <1>4

(* Callers wait for the mutex and for the pass, and the loop for callers.  *)
LEMMA CallInvStep ==
  ASSUME BaseInv, [Next]_vars
  PROVE  CallInv'
<1> USE DEF BaseInv, CallInv
<1>0. UNCHANGED disciplined
  BY Operations
<1>1. ASSUME NEW b \in BOOLEAN, SetEventLoop(b) PROVE CallInv'
  BY <1>0, <1>1 DEF SetEventLoop, callVars
<1>2. ASSUME NEW k \in Keys, Starting(k) PROVE CallInv'
  <2>1. inPass' = inPass
    <3>1. CancelLoopTimers({k} \intersect Active) /\ {k} \intersect Active \in SUBSET Keys
      BY <1>2 DEF Starting, StartLocks, Active
    <3> QED
      BY <3>1, Cancels
  <2> QED
    BY <1>0, <1>2, <2>1 DEF Starting, StartLocks, MutexFree
<1>3. CASE StartStores
  BY <1>3 DEF StartStores
<1>4. ASSUME NEW K \in SUBSET Active, Deactivating(K) PROVE CallInv'
  <2>1. inPass' = inPass
    <3>1. CancelLoopTimers(K) /\ K \in SUBSET Keys
      BY <1>4 DEF Deactivating, Deactivate, Active
    <3> QED
      BY <3>1, Cancels
  <2> QED
    BY <1>0, <1>4, <2>1 DEF Deactivating, Deactivate, MutexFree
<1>5. CASE \/ PassStarts \/ PassEnds \/ TimerReturns
           \/ \E i \in TimerIds : TimerFires(i)
  BY <1>0, <1>5 DEF PassStarts, PassBegin, PassEnds, PassEnd, TimerReturns, FireEnd, TimerFires,
              FireBegin, LoopMayRun, callVars
<1>6. CASE CallbackLocks \/ CallbackUnlocks \/ CallbackReenters
  BY <1>0, <1>6 DEF CallbackLocks, CallbackUnlocks, CallbackReenters, MutexFree, LoopMayRun,
              timerVars, passVars
<1>7. CASE Tick
  BY <1>0, <1>7 DEF Tick, Elapse, callVars
<1>8. CASE UNCHANGED vars
  BY <1>8 DEF vars, callVars, timerVars, passVars
<1> QED
  BY <1>1, <1>2, <1>3, <1>4, <1>5, <1>6, <1>7, <1>8, Operations

(* The timers are those that were scheduled, and the pass keeps to them.   *)
LEMMA ScheduledInvStep ==
  ASSUME BaseInv, [Next]_vars
  PROVE  ScheduledInv'
<1> USE DEF BaseInv, ScheduledInv, timerArgs
<1>0. UNCHANGED disciplined
  BY Operations
<1>1. ASSUME UNCHANGED <<present, nextTimerId, inPass, visit, cursor, detached, owner, callback>>,
             \A i \in TimerIds : timer'[i].repeating = timer[i].repeating
      PROVE  ScheduledInv'
  BY <1>0, <1>1
<1>2. ASSUME NEW K \in SUBSET Keys, CancelLoopTimers(K), UNCHANGED <<owner, callback>>
      PROVE  ScheduledInv'
  BY <1>1, <1>2, Cancels
<1>3. ASSUME NEW k \in Keys, Starting(k) PROVE ScheduledInv'
  <2>1. CancelLoopTimers({k} \intersect Active) /\ {k} \intersect Active \in SUBSET Keys
    BY <1>3 DEF Starting, StartLocks, Active
  <2> QED
    BY <1>2, <1>3, <2>1 DEF Starting, StartLocks
<1>4. ASSUME NEW K \in SUBSET Active, Deactivating(K) PROVE ScheduledInv'
  <2>1. CancelLoopTimers(K) /\ K \in SUBSET Keys
    BY <1>4 DEF Deactivating, Deactivate, Active
  <2> QED
    BY <1>2, <1>4, <2>1 DEF Deactivating, Deactivate
<1>5. CASE StartStores
  <2>1. CASE attached
    <3>1. /\ ScheduleTimer(arg.delay, arg.delay, FALSE) /\ caller = "locked"
          /\ owner' = [owner EXCEPT ![nextTimerId] = arg.key] /\ callback' = callback
      BY <1>5, <2>1 DEF StartStores
    <3>2. /\ nextTimerId \in TimerIds /\ nextTimerId' = nextTimerId + 1
          /\ present' = present \union {nextTimerId} /\ UNCHANGED <<inPass, visit, cursor>>
          /\ detached' = inPass \/ detached' = detached
          /\ timer' = [timer EXCEPT ![nextTimerId] =
                         [left |-> arg.delay, interval |-> arg.delay,
                          repeating |-> FALSE, cancelled |-> FALSE]]
      BY <3>1 DEF ScheduleTimer
    <3>3. arg.key \in Keys /\ (disciplined => ~inPass)
      BY <3>1 DEF CallInv
    <3>4. \A i \in TimerIds : ~timer'[i].repeating
      BY <3>2 DEF TypeOK, TimersTypeOK
    <3>5. \A i \in TimerIds : i < nextTimerId' => owner'[i] \in Keys
      <4> SUFFICES ASSUME NEW i \in TimerIds, i < nextTimerId' PROVE owner'[i] \in Keys
        OBVIOUS
      <4>1. i = nextTimerId \/ i < nextTimerId
        BY <3>2 DEF TimerIds
      <4> QED
        BY <3>1, <3>3, <4>1 DEF TypeOK
    <3>6. \A i \in present' : i < nextTimerId'
      BY <3>2 DEF TimerIds, TypeOK, TimersTypeOK
    <3> QED
      BY <1>0, <3>1, <3>2, <3>3, <3>4, <3>5, <3>6
  <2>2. CASE ~attached
    <3>1. UNCHANGED <<timerVars, timerArgs, callback>>
      BY <1>5, <2>2 DEF StartStores
    <3> QED
      BY <1>1, <3>1 DEF timerVars, vecVars, passVars
  <2> QED
    BY <2>1, <2>2
<1>6. CASE PassStarts
  BY <1>0, <1>6 DEF PassStarts, PassBegin, vecVars, callVars
<1>7. CASE PassEnds
  BY <1>0, <1>7 DEF PassEnds, PassEnd, callVars, Live
<1>8. ASSUME NEW i \in TimerIds, TimerFires(i) PROVE ScheduledInv'
  <2>1. /\ i \in visit /\ cursor' = i /\ visit' \subseteq visit /\ callback' = "locking"
        /\ UNCHANGED <<present, timer, nextTimerId, inPass, detached, owner>>
    BY <1>8 DEF TimerFires, FireBegin, vecVars, ToFire
  <2>2. i # 0 /\ inPass /\ i \in present
    BY <2>1 DEF TimerIds
  <2> QED
    BY <1>0, <2>1, <2>2
<1>9. CASE TimerReturns
  <2>1. /\ cursor \in TimerIds /\ cursor' = 0 /\ callback' = "none"
        /\ UNCHANGED <<present, nextTimerId, inPass, visit, detached, owner>>
    BY <1>9 DEF TimerReturns, FireEnd, TypeOK, TimersTypeOK, TimerIds
  <2>2. \A i \in TimerIds : timer'[i].repeating = timer[i].repeating
    BY <1>9, <2>1 DEF TimerReturns, FireEnd, TypeOK, TimersTypeOK, TimerRecord
  <2> QED
    BY <1>0, <2>1, <2>2
<1>10. CASE CallbackLocks \/ CallbackUnlocks \/ CallbackReenters
  BY <1>0, <1>10 DEF CallbackLocks, CallbackUnlocks, CallbackReenters, timerVars, vecVars, passVars
<1>11. CASE Tick
  <2>1. timer' = [i \in TimerIds |-> [timer[i] EXCEPT !.left = Minus(@, 1)]]
        /\ UNCHANGED <<present, nextTimerId, inPass, visit, cursor, detached, owner, callback>>
    BY <1>11 DEF Tick, Elapse, callVars
  <2>2. \A i \in TimerIds : timer'[i].repeating = timer[i].repeating
    BY <2>1 DEF TypeOK, TimersTypeOK, TimerRecord
  <2> QED
    BY <1>1, <2>1, <2>2
<1>12. CASE (\E b \in BOOLEAN : SetEventLoop(b)) \/ UNCHANGED vars
  BY <1>1, <1>12 DEF SetEventLoop, vars, timerVars, vecVars, passVars, callVars
<1> QED
  BY <1>3, <1>4, <1>5, <1>6, <1>7, <1>8, <1>9, <1>10, <1>11, <1>12, Operations

(* A timer is scheduled only for a timeout that is stored, with a loop.    *)
LEMMA LoopInvStep ==
  ASSUME BaseInv, [Next]_vars
  PROVE  LoopInv'
<1> USE DEF BaseInv, LoopInv
<1>0. UNCHANGED disciplined
  BY Operations
<1>1. ASSUME NEW b \in BOOLEAN, SetEventLoop(b) PROVE LoopInv'
  BY <1>0, <1>1 DEF SetEventLoop, timerVars, vecVars
<1>2. ASSUME NEW k \in Keys, Starting(k) PROVE LoopInv'
  <2>1. CancelLoopTimers({k} \intersect Active) /\ {k} \intersect Active \in SUBSET Keys
        /\ UNCHANGED <<attached, starts>>
    BY <1>2 DEF Starting, StartLocks, Active
  <2> QED
    BY <1>0, <2>1, Cancels
<1>3. ASSUME NEW K \in SUBSET Active, Deactivating(K) PROVE LoopInv'
  <2>1. CancelLoopTimers(K) /\ K \in SUBSET Keys /\ UNCHANGED <<attached, starts>>
    BY <1>3 DEF Deactivating, Deactivate, Active
  <2> QED
    BY <1>0, <2>1, Cancels
<1>4. CASE StartStores
  <2>1. starts' = starts + 1 /\ attached' = attached /\ starts \in Nat
    BY <1>4 DEF StartStores, TypeOK
  <2>2. ~attached => nextTimerId' = nextTimerId
    BY <1>4 DEF StartStores, timerVars, vecVars
  <2> QED
    BY <1>0, <2>1, <2>2
<1>5. CASE \/ PassStarts \/ PassEnds \/ TimerReturns
           \/ \E i \in TimerIds : TimerFires(i)
  BY <1>0, <1>5 DEF PassStarts, PassBegin, PassEnds, PassEnd, TimerReturns, FireEnd, TimerFires,
              FireBegin, vecVars, entryVars
<1>6. CASE CallbackLocks \/ CallbackUnlocks \/ CallbackReenters \/ Tick \/ UNCHANGED vars
  BY <1>0, <1>6 DEF CallbackLocks, CallbackUnlocks, CallbackReenters, Tick, Elapse, vars,
              timerVars, vecVars, entryVars
<1> QED
  BY <1>1, <1>2, <1>3, <1>4, <1>5, <1>6, Operations

(* Each step keeps the types, and what calls and the loop are about. *)
LEMMA BaseInvStep ==
  ASSUME BaseInv, [Next]_vars
  PROVE  BaseInv'
<1>1. TypeOK'
  BY Operations, TimersKeepTypes, CallersKeepTypes, LoopKeepsTypes
<1> QED
  BY <1>1, CallInvStep, ScheduledInvStep, LoopInvStep DEF BaseInv

-----------------------------------------------------------------------------
\* The statistics.

(* Entries that are no longer active are one set less.                     *)
LEMMA FewerActive ==
  ASSUME NEW A \in SUBSET Keys, NEW K \in SUBSET A
  PROVE  Cardinality(A \ K) = Cardinality(A) - Cardinality(K)
<1>1. IsFiniteSet(A) /\ A \intersect K = K
  BY KeysAreFinite
<1> QED
  BY <1>1, FS_Difference

(* A set with an element counts one more than without it. *)
LEMMA OneMoreActive ==
  ASSUME NEW A \in SUBSET Keys, NEW k \in Keys
  PROVE  Cardinality(A \union {k}) = Cardinality(A \ {k}) + 1
<1>1. IsFiniteSet(A \ {k}) /\ k \notin A \ {k} /\ A \union {k} = (A \ {k}) \union {k}
  BY KeysAreFinite
<1>2. Cardinality((A \ {k}) \union {k}) = Cardinality(A \ {k}) + 1
  BY <1>1, FS_AddElement
<1> QED
  BY <1>1, <1>2

(* An entry is counted when the mutex is taken, in whatever step.          *)
LEMMA StatisticsStep ==
  ASSUME BaseInv, StatisticsAgree, [Next]_vars
  PROVE  StatisticsAgree'
<1> USE DEF StatisticsAgree, Conservation, ActiveCountIsRight
<1>0. /\ TypeOK /\ starts \in Nat /\ fired \in Nat /\ cancelled \in Nat
      /\ entry \in [Keys -> Entry] /\ Active \in SUBSET Keys
      /\ activeTimeouts' = CountActive(entry') <=> activeTimeouts' = Cardinality(Active')
      /\ activeTimeouts' = CountActive(entry) <=> activeTimeouts' = Cardinality(Active)
  BY DEF BaseInv, TypeOK, Active, CountActive
<1>1. ASSUME UNCHANGED <<starts, fired, cancelled, entry, activeTimeouts, caller, arg>>,
             MutexFree' => MutexFree
      PROVE  StatisticsAgree'
  BY <1>1 DEF Active, Replaced
<1>2. CASE \/ \E b \in BOOLEAN : SetEventLoop(b)
           \/ PassStarts \/ PassEnds \/ TimerReturns
           \/ \E i \in TimerIds : TimerFires(i)
           \/ CallbackReenters \/ Tick \/ UNCHANGED vars
  <2>1. /\ UNCHANGED <<starts, fired, cancelled, entry, activeTimeouts, caller, arg>>
        /\ MutexFree' => MutexFree
    BY <1>2 DEF SetEventLoop, PassStarts, PassEnds, TimerReturns, TimerFires, CallbackReenters,
                Tick, vars, entryVars, callVars, MutexFree
  <2> QED
    BY <1>1, <2>1
<1>3. ASSUME NEW k \in Keys, Starting(k) PROVE StatisticsAgree'
  <2>1. /\ caller # "locked" /\ caller' = "locked" /\ arg'.key = k
        /\ UNCHANGED <<starts, fired, entry>>
        /\ cancelled' = IF entry[k].active THEN cancelled + 1 ELSE cancelled
    BY <1>3 DEF Starting, StartLocks
  <2>2. Active' = Active /\ Replaced = {} /\ Replaced' = {k} \intersect Active
    BY <2>1 DEF Active, Replaced
  <2>3. Cardinality(Active \ Replaced') = Cardinality(Active)
                                            - (IF entry[k].active THEN 1 ELSE 0)
    <3>1. CASE k \in Active
      <4>1. Replaced' = {k} /\ {k} \in SUBSET Active /\ entry[k].active
        BY <2>2, <3>1 DEF Active
      <4> QED
        BY <1>0, <4>1, FewerActive, FS_Singleton
    <3>2. CASE k \notin Active
      <4>1. Active \ Replaced' = Active /\ ~entry[k].active
        BY <2>2, <3>2 DEF Active
      <4>2. Cardinality(Active) \in Nat
        BY <1>0, KeysAreFinite
      <4> QED
        BY <4>1, <4>2
    <3> QED
      BY <3>1, <3>2
  <2>4. starts = fired + cancelled + Cardinality(Active) /\ Cardinality(Active) \in Nat
    <3>1. Active \ Replaced = Active
      BY <2>2
    <3> QED
      BY <1>0, <3>1, KeysAreFinite
  <2>5. ~MutexFree'
    BY <2>1 DEF MutexFree
  <2> QED
    BY <1>0, <2>1, <2>2, <2>3, <2>4, <2>5
<1>4. CASE StartStores
  <2>1. /\ caller = "locked" /\ caller' = "outside" /\ arg.key \in Keys
        /\ starts' = starts + 1 /\ UNCHANGED <<fired, cancelled>>
        /\ activeTimeouts' = CountActive(entry')
        /\ entry' = [entry EXCEPT ![arg.key] =
                       [timer |-> IF attached THEN nextTimerId ELSE 0,
                        notifies |-> arg.notifies, active |-> TRUE]]
    BY <1>4 DEF StartStores, BaseInv, CallInv
  <2>2. Active' = Active \union {arg.key}
    BY <1>0, <2>1 DEF Active
  <2>3. Active \ Replaced = Active \ {arg.key} /\ Active' \ Replaced' = Active \union {arg.key}
    BY <2>1, <2>2 DEF Replaced
  <2>4. /\ Cardinality(Active \union {arg.key}) = Cardinality(Active \ {arg.key}) + 1
        /\ Cardinality(Active \ {arg.key}) \in Nat
    BY <1>0, <2>1, OneMoreActive, KeysAreFinite
  <2>5. Conservation'
    <3>1. starts = fired + cancelled + Cardinality(Active \ {arg.key})
      BY <2>3
    <3>2. starts' = fired' + cancelled' + Cardinality(Active \union {arg.key})
      BY <1>0, <2>1, <2>4, <3>1
    <3> QED
      BY <2>3, <3>2
  <2> QED
    BY <1>0, <2>1, <2>5
<1>5. ASSUME NEW K \in SUBSET Active, Deactivating(K) PROVE StatisticsAgree'
  <2>1. /\ caller = "outside" /\ caller' # "locked"
        /\ UNCHANGED <<starts, fired>> /\ cancelled' = cancelled + Cardinality(K)
        /\ activeTimeouts' = CountActive(entry')
        /\ entry' = [k \in Keys |-> [entry[k] EXCEPT !.active = @ /\ k \notin K]]
    BY <1>5 DEF Deactivating, Deactivate
  <2>2. Active' = Active \ K /\ Replaced = {} /\ Replaced' = {}
    <3>1. \A k \in Keys : entry'[k].active = (entry[k].active /\ k \notin K)
      BY <1>0, <2>1 DEF Entry
    <3> QED
      BY <2>1, <3>1 DEF Active, Replaced
  <2>3. /\ Cardinality(Active \ K) = Cardinality(Active) - Cardinality(K)
        /\ Cardinality(Active) \in Nat /\ Cardinality(K) \in Nat
    BY <1>0, FewerActive, KeysAreFinite
  <2>4. Active \ Replaced = Active /\ Active' \ Replaced' = Active \ K
    BY <2>2
  <2>5. Conservation'
    <3>1. starts = fired + cancelled + Cardinality(Active)
      BY <2>4
    <3>2. starts' = fired' + cancelled' + Cardinality(Active \ K)
      BY <1>0, <2>1, <2>3, <3>1
    <3> QED
      BY <2>4, <3>2
  <2> QED
    BY <1>0, <2>1, <2>5
<1>6. CASE CallbackLocks
  <2> DEFINE k == owner[cursor]
  <2>1. /\ caller # "locked" /\ UNCHANGED <<starts, cancelled, caller>> /\ k \in Keys
    BY <1>6, RunningHasKey DEF CallbackLocks, MutexFree
  <2>2. Replaced = {} /\ Replaced' = {}
    BY <2>1 DEF Replaced
  <2>3. CASE entry[k].active
    <3>1. /\ entry' = [entry EXCEPT ![k].active = FALSE] /\ fired' = fired + 1
          /\ callback' = "user"
      BY <1>6, <2>3 DEF CallbackLocks
    <3>2. Active' = Active \ {k} /\ {k} \in SUBSET Active
      BY <1>0, <2>1, <2>3, <3>1 DEF Active, Entry
    <3>3. /\ Cardinality(Active \ {k}) = Cardinality(Active) - 1 /\ Cardinality(Active) \in Nat
      BY <1>0, <3>2, FewerActive, KeysAreFinite, FS_Singleton
    <3>4. Active \ Replaced = Active /\ Active' \ Replaced' = Active \ {k} /\ ~MutexFree'
      BY <2>2, <3>1, <3>2 DEF MutexFree
    <3>5. Conservation'
      <4>1. starts = fired + cancelled + Cardinality(Active)
        BY <3>4
      <4>2. starts' = fired' + cancelled' + Cardinality(Active \ {k})
        BY <1>0, <2>1, <3>1, <3>3, <4>1
      <4> QED
        BY <3>4, <4>2
    <3> QED
      BY <3>4, <3>5
  <2>4. CASE ~entry[k].active
    <3>1. UNCHANGED <<entry, fired>> /\ activeTimeouts' = CountActive(entry)
      BY <1>6, <2>4 DEF CallbackLocks
    <3>2. Active' = Active
      BY <3>1 DEF Active
    <3> QED
      BY <1>0, <2>1, <2>2, <3>1, <3>2
  <2> QED
    BY <2>3, <2>4
<1>7. CASE CallbackUnlocks
  <2>1. /\ UNCHANGED <<starts, fired, cancelled, entry, caller, arg>>
        /\ activeTimeouts' = CountActive(entry)
    BY <1>7 DEF CallbackUnlocks
  <2>2. Active' = Active /\ Replaced' = Replaced
    BY <2>1 DEF Active, Replaced
  <2> QED
    BY <1>0, <2>1, <2>2
<1> QED
  BY <1>2, <1>3, <1>4, <1>5, <1>6, <1>7, Operations

-----------------------------------------------------------------------------
\* The timers of the loop and the entries of the manager.

(* What disciplined use keeps true between the two, as one.                *)
Matched ==
  /\ \A k \in Keys : (entry[k].active /\ entry[k].timer # 0 /\ k \notin Replaced)
                       => entry[k].timer \in Live /\ owner[entry[k].timer] = k
  /\ \A i \in Live \ {cursor} : entry[owner[i]].active /\ entry[owner[i]].timer = i
  /\ caller = "locked" => \A i \in Live : owner[i] # arg.key
  /\ callback = "locking" => /\ cursor \in Live
                             /\ entry[owner[cursor]].active
                             /\ entry[owner[cursor]].timer = cursor
  /\ callback \in {"user", "done"} => ~entry[owner[cursor]].active

(* The invariant about timers, by its parts. *)
LEMMA MatchedIs == MatchInv <=> (disciplined => Matched)
BY DEF MatchInv, TimersMatchEntries, ActiveIsArmed, NoOrphanTimer, FiringInv, Matched

(* start_timeout cancels the timer it replaces ...                         *)
LEMMA StartingMatches ==
  ASSUME BaseInv, Matched, disciplined, NEW k \in Keys, Starting(k)
  PROVE  Matched'
<1>1. /\ CancelLoopTimers({k} \intersect Active) /\ {k} \intersect Active \in SUBSET Keys
      /\ caller' = "locked" /\ arg'.key = k /\ caller # "locked" /\ callback' = callback
      /\ UNCHANGED <<entry, owner>>
      /\ ~inPass
  BY DEF Starting, StartLocks, Active, timerArgs
<1>2. cursor = 0 /\ callback = "none" /\ cursor' = cursor
  BY <1>1, Cancels DEF BaseInv, ScheduledInv
<1>3. Replaced = {} /\ Replaced' = {k} \intersect Active
  BY <1>1 DEF Replaced, Active
<1>4. /\ attached => Live' = Live \ {entry[j].timer : j \in {k} \intersect Active}
      /\ ~attached => Live' = Live /\ Live = {}
  <2>1. ~attached => present = {}
    BY DEF BaseInv, LoopInv, ScheduledInv, TypeOK, TimersTypeOK, TimerIds
  <2> QED
    BY <1>1, <2>1, Cancels DEF BaseInv, Live
<1>5. \A i \in Live : owner[i] = k => k \in Active /\ entry[k].timer = i
  <2>1. \A i \in Live : i # 0 /\ owner[i] \in Keys
    BY DEF Live, BaseInv, ScheduledInv, TypeOK, TimersTypeOK, TimerIds
  <2> QED
    BY <1>2, <2>1 DEF Matched, Active
<1>6. \A i \in Live' : i \in Live /\ owner[i] # k
  BY <1>4, <1>5
<1>7. \A j \in Keys : (entry[j].active /\ entry[j].timer # 0 /\ j \notin Replaced')
                        => entry[j].timer \in Live' /\ owner[entry[j].timer] = j
  <2> SUFFICES ASSUME NEW j \in Keys, entry[j].active, entry[j].timer # 0, j \notin Replaced'
               PROVE  entry[j].timer \in Live' /\ owner[entry[j].timer] = j
    OBVIOUS
  <2>1. entry[j].timer \in Live /\ owner[entry[j].timer] = j
    BY <1>3 DEF Matched
  <2>2. j # k
    BY <1>3 DEF Active
  <2>3. \A l \in {k} \intersect Active : entry[l].timer # entry[j].timer
    <3>1. k \in Active /\ entry[k].timer = entry[j].timer => owner[entry[k].timer] = k
      BY <1>3, <2>1 DEF Matched, Active
    <3> QED
      BY <2>1, <2>2, <3>1
  <2> QED
    BY <1>4, <2>1, <2>3
<1> QED
  BY <1>1, <1>2, <1>6, <1>7 DEF Matched

(* ... and stores its own.                                                 *)
LEMMA StoringMatches ==
  ASSUME BaseInv, Matched, disciplined, StartStores
  PROVE  Matched'
<1>1. /\ caller = "locked" /\ caller' = "outside" /\ arg.key \in Keys
      /\ ~inPass /\ cursor = 0 /\ callback = "none" /\ callback' = callback
      /\ entry \in [Keys -> Entry]
      /\ entry' = [entry EXCEPT ![arg.key] =
                     [timer |-> IF attached THEN nextTimerId ELSE 0,
                      notifies |-> arg.notifies, active |-> TRUE]]
  BY DEF StartStores, BaseInv, CallInv, ScheduledInv, TypeOK
<1>2. \A i \in Live : /\ i \in present /\ i \in TimerIds /\ i # 0 /\ i < nextTimerId
                      /\ owner[i] \in Keys /\ owner[i] # arg.key
                      /\ entry[owner[i]].active /\ entry[owner[i]].timer = i
  BY <1>1 DEF Live, Matched, BaseInv, ScheduledInv, TypeOK, TimersTypeOK, TimerIds
<1>3. \A j \in Keys \ {arg.key} : j \notin Replaced
  BY DEF Replaced
<1>4. CASE attached
  <2>1. /\ ScheduleTimer(arg.delay, arg.delay, FALSE)
        /\ owner' = [owner EXCEPT ![nextTimerId] = arg.key]
    BY <1>4 DEF StartStores
  <2>2. /\ nextTimerId \in TimerIds /\ nextTimerId # 0 /\ cursor' = 0
        /\ present' = present \union {nextTimerId} /\ nextTimerId \notin present
        /\ timer' = [timer EXCEPT ![nextTimerId] =
                       [left |-> arg.delay, interval |-> arg.delay,
                        repeating |-> FALSE, cancelled |-> FALSE]]
    BY <1>1, <2>1 DEF ScheduleTimer, TimerIds, BaseInv, ScheduledInv
  <2>3. /\ \A i \in TimerIds : owner'[i] = IF i = nextTimerId THEN arg.key ELSE owner[i]
        /\ \A i \in TimerIds : i # nextTimerId => timer'[i] = timer[i]
        /\ ~timer'[nextTimerId].cancelled
        /\ present \subseteq TimerIds
    BY <2>1, <2>2 DEF BaseInv, TypeOK, TimersTypeOK
  <2>4. Live' = Live \union {nextTimerId}
    BY <2>2, <2>3 DEF Live
  <2>5. /\ entry'[arg.key].active /\ entry'[arg.key].timer = nextTimerId
        /\ \A j \in Keys \ {arg.key} : entry'[j] = entry[j]
    BY <1>1, <1>4
  <2>6. \A j \in Keys : (entry'[j].active /\ entry'[j].timer # 0)
                          => entry'[j].timer \in Live' /\ owner'[entry'[j].timer] = j
    <3> SUFFICES ASSUME NEW j \in Keys, entry'[j].active, entry'[j].timer # 0
                 PROVE  entry'[j].timer \in Live' /\ owner'[entry'[j].timer] = j
      OBVIOUS
    <3>1. CASE j = arg.key
      BY <2>2, <2>3, <2>4, <2>5, <3>1
    <3>2. CASE j # arg.key
      <4>1. entry[j].timer \in Live /\ owner[entry[j].timer] = j /\ entry'[j] = entry[j]
        BY <1>3, <2>5, <3>2 DEF Matched
      <4>2. entry[j].timer # nextTimerId /\ entry[j].timer \in TimerIds
        BY <1>2, <2>2, <4>1
      <4> QED
        BY <2>3, <2>4, <4>1, <4>2
    <3> QED
      BY <3>1, <3>2
  <2>7. \A i \in Live' : entry'[owner'[i]].active /\ entry'[owner'[i]].timer = i
    <3> SUFFICES ASSUME NEW i \in Live'
                 PROVE  entry'[owner'[i]].active /\ entry'[owner'[i]].timer = i
      OBVIOUS
    <3>1. CASE i = nextTimerId
      BY <2>2, <2>3, <2>5, <3>1
    <3>2. CASE i \in Live /\ i # nextTimerId
      BY <1>2, <2>3, <2>5, <3>2
    <3> QED
      BY <2>4, <3>1, <3>2
  <2> QED
    BY <1>1, <2>6, <2>7 DEF Matched
<1>5. CASE ~attached
  <2>1. UNCHANGED <<present, timer, owner, cursor>>
    BY <1>5 DEF StartStores, timerVars, vecVars, passVars, timerArgs
  <2>2. Live' = Live
    BY <2>1 DEF Live
  <2>3. /\ entry'[arg.key].timer = 0
        /\ \A j \in Keys \ {arg.key} : entry'[j] = entry[j]
    BY <1>1, <1>5
  <2>4. \A j \in Keys : (entry'[j].active /\ entry'[j].timer # 0)
                          => entry'[j].timer \in Live' /\ owner'[entry'[j].timer] = j
    BY <1>3, <2>1, <2>2, <2>3 DEF Matched
  <2>5. \A i \in Live' : entry'[owner'[i]].active /\ entry'[owner'[i]].timer = i
    BY <1>2, <2>1, <2>2, <2>3
  <2> QED
    BY <1>1, <2>4, <2>5 DEF Matched
<1> QED
  BY <1>4, <1>5

(* Cancelled timeouts take their timers with them.                         *)
LEMMA DeactivatingMatches ==
  ASSUME BaseInv, Matched, disciplined, NEW K \in SUBSET Active, Deactivating(K)
  PROVE  Matched'
<1>1. /\ CancelLoopTimers(K) /\ K \in SUBSET Keys /\ \A j \in K : entry[j].active
      /\ caller = "outside" /\ caller' # "locked" /\ callback' = callback /\ owner' = owner
      /\ entry \in [Keys -> Entry]
      /\ entry' = [k \in Keys |-> [entry[k] EXCEPT !.active = @ /\ k \notin K]]
      /\ ~inPass
  BY DEF Deactivating, Deactivate, Active, timerArgs, BaseInv, TypeOK
<1>2. cursor = 0 /\ callback = "none" /\ cursor' = cursor
  BY <1>1, Cancels DEF BaseInv, ScheduledInv
<1>3. Replaced = {}
  BY <1>1 DEF Replaced
<1>4. /\ attached => Live' = Live \ {entry[j].timer : j \in K}
      /\ ~attached => Live' = Live /\ Live = {}
  <2>1. ~attached => present = {}
    BY DEF BaseInv, LoopInv, ScheduledInv, TypeOK, TimersTypeOK, TimerIds
  <2> QED
    BY <1>1, <2>1, Cancels DEF BaseInv, Live
<1>5. \A j \in Keys : /\ entry'[j].timer = entry[j].timer
                      /\ entry'[j].active = (entry[j].active /\ j \notin K)
  BY <1>1 DEF Entry
<1>6. \A i \in Live : /\ owner[i] \in Keys /\ i # 0
                      /\ entry[owner[i]].active /\ entry[owner[i]].timer = i
  <2>1. \A i \in Live : owner[i] \in Keys /\ i # 0
    BY DEF Live, BaseInv, ScheduledInv, TypeOK, TimersTypeOK, TimerIds
  <2> QED
    BY <1>2, <2>1 DEF Matched
<1>7. \A j \in Keys : (entry'[j].active /\ entry'[j].timer # 0)
                        => entry'[j].timer \in Live' /\ owner[entry'[j].timer] = j
  <2> SUFFICES ASSUME NEW j \in Keys, entry'[j].active, entry'[j].timer # 0
               PROVE  entry'[j].timer \in Live' /\ owner[entry'[j].timer] = j
    OBVIOUS
  <2>1. entry[j].active /\ j \notin K /\ entry[j].timer # 0 /\ entry'[j].timer = entry[j].timer
    BY <1>5
  <2>2. entry[j].timer \in Live /\ owner[entry[j].timer] = j
    BY <1>3, <2>1 DEF Matched
  <2>3. \A l \in K : entry[l].timer # entry[j].timer
    <3> SUFFICES ASSUME NEW l \in K, entry[l].timer = entry[j].timer PROVE FALSE
      OBVIOUS
    <3>1. owner[entry[l].timer] = l
      BY <1>1, <1>3, <2>1 DEF Matched
    <3> QED
      BY <2>1, <2>2, <3>1
  <2> QED
    BY <1>4, <2>1, <2>2, <2>3
<1>8. \A i \in Live' : entry'[owner[i]].active /\ entry'[owner[i]].timer = i
  <2> SUFFICES ASSUME NEW i \in Live'
               PROVE  entry'[owner[i]].active /\ entry'[owner[i]].timer = i
    OBVIOUS
  <2>1. i \in Live
    BY <1>4
  <2>2. owner[i] \notin K
    BY <1>4, <1>6, <2>1
  <2> QED
    BY <1>5, <1>6, <2>1, <2>2
<1> QED
  BY <1>1, <1>2, <1>7, <1>8 DEF Matched

(* The callback of a timer retires the entry the timer is of.              *)
LEMMA FiringMatches ==
  ASSUME BaseInv, Matched, disciplined,
         (\E i \in TimerIds : TimerFires(i)) \/ CallbackLocks \/ CallbackUnlocks \/ TimerReturns
  PROVE  Matched'
<1>1. \A i \in Live : owner[i] \in Keys /\ i \in TimerIds /\ i # 0
  BY DEF Live, BaseInv, ScheduledInv, TypeOK, TimersTypeOK, TimerIds
<1>2. ASSUME NEW i \in TimerIds, TimerFires(i) PROVE Matched'
  <2>1. /\ cursor = 0 /\ cursor' = i /\ callback' = "locking" /\ i \in ToFire
        /\ UNCHANGED <<present, timer, entry, owner, caller, arg>>
    BY <1>2 DEF TimerFires, FireBegin, vecVars, entryVars, timerArgs
  <2>2. Live' = Live /\ Replaced' = Replaced
    BY <2>1 DEF Live, Replaced, Active
  <2>3. i \in Live
    BY <2>1 DEF ToFire, Live, BaseInv, ScheduledInv
  <2> QED
    BY <1>1, <2>1, <2>2, <2>3 DEF Matched
<1>3. CASE CallbackLocks
  <2> DEFINE k == owner[cursor]
  <2>1. /\ callback = "locking" /\ caller = "outside"
        /\ UNCHANGED <<present, timer, cursor, owner, caller, arg>>
    BY <1>3 DEF CallbackLocks, LoopMayRun, timerVars, vecVars, passVars, timerArgs
  <2>2. k \in Keys /\ cursor \in Live /\ entry[k].active /\ entry[k].timer = cursor
    BY <1>1, <2>1 DEF Matched
  <2>3. /\ entry' = [entry EXCEPT ![k].active = FALSE] /\ callback' = "user"
        /\ entry \in [Keys -> Entry]
    BY <1>3, <2>2 DEF CallbackLocks, BaseInv, TypeOK
  <2>4. \A j \in Keys : /\ entry'[j].timer = entry[j].timer
                        /\ entry'[j].active = (entry[j].active /\ j # k)
    BY <2>2, <2>3 DEF Entry
  <2>5. Live' = Live /\ Replaced = {} /\ Replaced' = {}
    BY <2>1 DEF Live, Replaced
  <2>6. \A j \in Keys : (entry'[j].active /\ entry'[j].timer # 0)
                          => entry'[j].timer \in Live' /\ owner'[entry'[j].timer] = j
    BY <2>1, <2>4, <2>5 DEF Matched
  <2>7. \A i \in Live' \ {cursor} : entry'[owner[i]].active /\ entry'[owner[i]].timer = i
    BY <1>1, <2>2, <2>4, <2>5 DEF Matched
  <2>8. ~entry'[owner[cursor]].active
    BY <2>2, <2>4
  <2> QED
    BY <2>1, <2>3, <2>6, <2>7, <2>8 DEF Matched
<1>4. CASE CallbackUnlocks
  <2>1. /\ callback = "user" /\ callback' = "done"
        /\ UNCHANGED <<present, timer, cursor, entry, owner, caller, arg>>
    BY <1>4 DEF CallbackUnlocks, timerVars, vecVars, passVars, timerArgs
  <2>2. Live' = Live /\ Replaced' = Replaced
    BY <2>1 DEF Live, Replaced, Active
  <2> QED
    BY <2>1, <2>2 DEF Matched
<1>5. CASE TimerReturns
  <2>1. /\ callback = "done" /\ callback' = "none" /\ caller = "outside" /\ cursor' = 0
        /\ UNCHANGED <<present, entry, owner, caller, arg>> /\ FireEnd
    BY <1>5 DEF TimerReturns, FireEnd, LoopMayRun, entryVars, timerArgs
  <2>2. cursor \in TimerIds /\ timer' = [timer EXCEPT ![cursor].cancelled = TRUE]
    BY <2>1 DEF FireEnd, BaseInv, ScheduledInv, TypeOK, TimersTypeOK
  <2>3. Live' = Live \ {cursor}
    <3>1. \A i \in present : i \in TimerIds /\ timer \in [TimerIds -> TimerRecord]
      BY DEF BaseInv, TypeOK, TimersTypeOK
    <3>2. \A i \in TimerIds : timer'[i].cancelled = (timer[i].cancelled \/ i = cursor)
      BY <2>2 DEF TimerRecord, BaseInv, TypeOK, TimersTypeOK
    <3> QED
      BY <2>1, <3>1, <3>2 DEF Live
  <2>4. Replaced = {} /\ Replaced' = {}
    BY <2>1 DEF Replaced
  <2>5. \A j \in Keys : entry[j].active /\ entry[j].timer # 0 => entry[j].timer # cursor
    BY <2>1, <2>4 DEF Matched
  <2>6. \A i \in Live' \ {0} : entry[owner[i]].active /\ entry[owner[i]].timer = i
    BY <2>3 DEF Matched
  <2> QED
    BY <2>1, <2>3, <2>4, <2>5, <2>6 DEF Matched
<1> QED
  BY <1>2, <1>3, <1>4, <1>5

(* Each step keeps entries and timers matched. *)
LEMMA MatchInvStep ==
  ASSUME BaseInv, MatchInv, [Next]_vars
  PROVE  MatchInv'
<1> SUFFICES ASSUME disciplined PROVE Matched'
  BY MatchedIs, Operations DEF Matched, MatchInv, TimersMatchEntries, ActiveIsArmed, NoOrphanTimer, FiringInv
<1>1. Matched
  BY MatchedIs
<1>2. CASE \/ \E b \in BOOLEAN : SetEventLoop(b)
           \/ PassStarts \/ PassEnds \/ Tick \/ UNCHANGED vars
  <2>1. UNCHANGED <<entry, owner, caller, arg, callback, cursor>>
    BY <1>2 DEF SetEventLoop, PassStarts, PassBegin, PassEnds, PassEnd, Tick, Elapse, vars,
                timerVars, passVars, entryVars, timerArgs, callVars
  <2>2. Live' = Live
    <3>1. CASE UNCHANGED <<present, timer>>
      BY <3>1 DEF Live
    <3>2. CASE PassEnds
      BY <3>2 DEF PassEnds, PassEnd, Live
    <3>3. CASE Tick
      <4>1. /\ present' = present
            /\ timer' = [i \in TimerIds |-> [timer[i] EXCEPT !.left = Minus(@, 1)]]
        BY <3>3 DEF Tick, Elapse
      <4>2. \A i \in present : timer'[i].cancelled = timer[i].cancelled
        BY <4>1 DEF BaseInv, TypeOK, TimersTypeOK, TimerRecord
      <4> QED
        BY <4>1, <4>2 DEF Live
    <3> QED
      BY <1>2, <3>1, <3>2, <3>3 DEF SetEventLoop, PassStarts, PassBegin, vars, timerVars, vecVars
  <2>3. Replaced' = Replaced
    BY <2>1 DEF Replaced, Active
  <2> QED
    BY <1>1, <2>1, <2>2, <2>3 DEF Matched
<1>3. ~CallbackReenters
  BY DEF CallbackReenters
<1> QED
  BY <1>1, <1>2, <1>3, Operations, StartingMatches, StoringMatches, DeactivatingMatches,
     FiringMatches

-----------------------------------------------------------------------------
\* The theorems.

(* There is no entry and no timer at first. *)
LEMMA ManagerInit ==
  ASSUME Init
  PROVE  ManagerInv
<1> USE DEF Init, TimersInit
<1>1. TypeOK
  <2>1. TimersTypeOK
    <3>1. inPass \in BOOLEAN /\ detached \in BOOLEAN
      OBVIOUS
    <3> QED
      BY <3>1 DEF TimersTypeOK, TimerRecord, TimerIds
  <2>2. disciplined \in BOOLEAN /\ attached \in BOOLEAN
    OBVIOUS
  <2>3. entry \in [Keys -> Entry] /\ arg \in Arg
    BY DEF Entry, Arg, NoArg
  <2> QED
    BY <2>1, <2>2, <2>3 DEF TypeOK
<1>2. Active = {} /\ Live = {}
  BY DEF Active, Live
<1>3. BaseInv
  BY <1>1 DEF BaseInv, CallInv, ScheduledInv, LoopInv, TimerIds
<1>4. Cardinality(Active) = 0 /\ Active \ Replaced = Active
  BY <1>2, FS_EmptySet
<1>5. StatisticsAgree
  <2>1. starts = 0 /\ fired = 0 /\ cancelled = 0 /\ activeTimeouts = 0
    OBVIOUS
  <2>2. Cardinality(Active \ Replaced) = 0
    BY <1>4
  <2> QED
    BY <1>4, <2>1, <2>2 DEF StatisticsAgree, Conservation, ActiveCountIsRight
<1>6. MatchInv
  BY <1>2, MatchedIs DEF Matched
<1> QED
  BY <1>3, <1>5, <1>6 DEF ManagerInv

(* Types, who is where, the statistics and the timers that go with the     *)
(* entries are inductive together.                                         *)
THEOREM ManagerInvariant == Spec => []ManagerInv
<1>1. Init => ManagerInv
  BY ManagerInit
<1>2. ManagerInv /\ [Next]_vars => ManagerInv'
  BY BaseInvStep, StatisticsStep, MatchInvStep DEF ManagerInv
<1> QED
  BY <1>1, <1>2, PTL DEF Spec

(* get_stats() adds up, whoever starts, cancels, replaces and fires        *)
(* timeouts in whatever order, disciplined or not.                         *)
THEOREM StatisticsAlwaysAgree == Spec => []StatisticsAgree
BY ManagerInvariant, PTL DEF ManagerInv

(* The entries and the timers describe the same timeouts, if callers are   *)
(* disciplined.                                                            *)
THEOREM TimersAlwaysMatch == Spec => []TimersMatchEntries
BY ManagerInvariant, PTL DEF ManagerInv, MatchInv

(* A timer that start_timeout replaced does not retire its successor.      *)
THEOREM TimersFireTheirOwn == Spec => FiresOwnTimer
<1>1. ManagerInv /\ [Next]_vars =>
        [\A k \in Keys : (disciplined /\ entry[k].active /\ fired' # fired /\ ~entry'[k].active)
            => entry[k].timer = cursor]_vars
  <2> SUFFICES ASSUME ManagerInv, [Next]_vars, NEW k \in Keys, disciplined, entry[k].active,
                      fired' # fired, ~entry'[k].active
               PROVE  entry[k].timer = cursor
    OBVIOUS
  <2>1. BaseInv /\ FiringInv /\ entry \in [Keys -> Entry]
    BY DEF ManagerInv, MatchInv, BaseInv, TypeOK
  <2>2. CallbackLocks
    BY <2>1, Operations
    DEF SetEventLoop, Starting, StartLocks, StartStores, Deactivating, Deactivate, PassStarts,
        PassEnds, TimerReturns, TimerFires, CallbackUnlocks, CallbackReenters, Tick, vars, entryVars
  <2>3. /\ callback = "locking" /\ owner[cursor] \in Keys
        /\ entry' = [entry EXCEPT ![owner[cursor]].active = FALSE]
    BY <2>1, <2>2, RunningHasKey DEF CallbackLocks
  <2>4. k = owner[cursor]
    BY <2>1, <2>3 DEF Entry
  <2> QED
    BY <2>1, <2>3, <2>4 DEF FiringInv
<1> QED
  BY <1>1, ManagerInvariant, PTL DEF Spec, FiresOwnTimer
=============================================================================
