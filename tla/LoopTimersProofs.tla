-------------------------- MODULE LoopTimersProofs --------------------------
(***************************************************************************)
(* Lemmas about LoopTimers, for all who use the timers of the loop.        *)
(***************************************************************************)
EXTENDS LoopTimers, TLAPS

USE TimersAssumption DEF TimersAssumption

(* Subtraction stays within the naturals. *)
LEMMA MinusType == \A a, b \in Nat : Minus(a, b) \in Nat
  BY DEF Minus

(* What its users do to the timer service, but for an exception that       *)
(* leaves the pass.                                                        *)
TimersOp ==
  \/ \E d \in Delays, itv \in Delays, rep \in BOOLEAN : ScheduleTimer(d, itv, rep)
  \/ \E S \in SUBSET TimerIds : MarkCancelled(S)
  \/ \E i \in TimerIds : FireBegin(i)
  \/ PassBegin \/ FireEnd \/ PassEnd \/ Elapse
  \/ UNCHANGED timerVars

(* cancel_timer is one of them.                                            *)
LEMMA CancelMarks ==
  ASSUME NEW i \in TimerIds, CancelTimer(i)
  PROVE  \E S \in SUBSET TimerIds : MarkCancelled(S)
<1>1. {i} \in SUBSET TimerIds
  OBVIOUS
<1> QED
  BY <1>1 DEF CancelTimer

(* The two flags of the timer service stay Boolean. *)
LEMMA TimersStepFlags ==
  ASSUME TimersTypeOK, TimersOp \/ PassAbort
  PROVE  inPass' \in BOOLEAN /\ detached' \in BOOLEAN
<1> USE DEF TimersTypeOK
<1>1. ASSUME NEW d \in Delays, NEW itv \in Delays, NEW rep \in BOOLEAN,
             ScheduleTimer(d, itv, rep)
      PROVE  inPass' \in BOOLEAN /\ detached' \in BOOLEAN
  BY <1>1 DEF ScheduleTimer
<1>2. ASSUME NEW i \in TimerIds, FireBegin(i)
      PROVE  inPass' \in BOOLEAN /\ detached' \in BOOLEAN
  BY <1>2 DEF FireBegin
<1>3. ASSUME NEW S \in SUBSET TimerIds, MarkCancelled(S)
      PROVE  inPass' \in BOOLEAN /\ detached' \in BOOLEAN
  BY <1>3 DEF MarkCancelled, passVars
<1>4. CASE PassBegin \/ FireEnd \/ PassEnd \/ PassAbort \/ Elapse
  BY <1>4 DEF PassBegin, FireEnd, PassEnd, PassAbort, Elapse
<1>5. CASE UNCHANGED timerVars
  BY <1>5 DEF timerVars, passVars
<1> QED
  BY <1>1, <1>2, <1>3, <1>4, <1>5 DEF TimersOp

(* The operations of the timer service keep the types of its variables. *)
LEMMA TimersStepType ==
  ASSUME TimersTypeOK, TimersOp \/ PassAbort
  PROVE  TimersTypeOK'
<1> DEFINE Data == /\ present \subseteq TimerIds
                   /\ timer \in [TimerIds -> TimerRecord]
                   /\ nextTimerId \in 1..MaxTimers + 1
                   /\ capacity \in Nat
                   /\ visit \subseteq TimerIds
                   /\ due \subseteq TimerIds
                   /\ lag \in Nat
                   /\ cursor \in 0..MaxTimers
                   /\ fires \in [TimerIds -> 0..2]
<1>0. Data
  BY DEF TimersTypeOK
<1>1. Data'
  <2>1. ASSUME NEW d \in Delays, NEW itv \in Delays, NEW rep \in BOOLEAN,
               ScheduleTimer(d, itv, rep)
        PROVE  Data'
    BY <1>0, <2>1, SMTT(20) DEF ScheduleTimer, TimerRecord, TimerIds
  <2>2. ASSUME NEW S \in SUBSET TimerIds, MarkCancelled(S)
        PROVE  Data'
    <3>1. \A k \in TimerIds : [timer[k] EXCEPT !.cancelled = @ \/ k \in S] \in TimerRecord
      BY <1>0 DEF TimerRecord
    <3> QED
      BY <1>0, <2>2, <3>1 DEF MarkCancelled, passVars
  <2>3. ASSUME NEW i \in TimerIds, FireBegin(i)
        PROVE  Data'
    <3>1. cursor' \in 0..MaxTimers /\ fires' \in [TimerIds -> 0..2]
      BY <1>0, <2>3 DEF FireBegin, TimerIds
    <3>2. UNCHANGED vecVars /\ UNCHANGED <<due, lag>> /\ visit' \subseteq visit
      BY <2>3 DEF FireBegin
    <3> QED
      BY <1>0, <3>1, <3>2 DEF vecVars
  <2>4. CASE PassBegin
    BY <1>0, <2>4 DEF PassBegin, vecVars
  <2>5. CASE FireEnd
    <3>1. cursor \in TimerIds
      BY <1>0, <2>5 DEF FireEnd, TimerIds
    <3>2. Minus(timer[cursor].interval, lag) \in Nat
      BY <1>0, <3>1, MinusType DEF TimerRecord
    <3>3. timer' \in [TimerIds -> TimerRecord]
      BY <1>0, <2>5, <3>1, <3>2 DEF FireEnd, TimerRecord
    <3> QED
      BY <1>0, <2>5, <3>3 DEF FireEnd
  <2>6. CASE PassEnd
    BY <1>0, <2>6 DEF PassEnd, Live
  <2>7. CASE PassAbort
    BY <1>0, <2>7 DEF PassAbort, vecVars
  <2>8. CASE Elapse
    <3>1. \A i \in TimerIds : [timer[i] EXCEPT !.left = Minus(@, 1)] \in TimerRecord
      BY <1>0, MinusType DEF TimerRecord
    <3>2. lag' \in Nat
      BY <1>0, <2>8 DEF Elapse
    <3> QED
      BY <1>0, <2>8, <3>1, <3>2 DEF Elapse
  <2>9. CASE UNCHANGED timerVars
    BY <1>0, <2>9 DEF timerVars, vecVars, passVars
  <2> QED
    BY <2>1, <2>2, <2>3, <2>4, <2>5, <2>6, <2>7, <2>8, <2>9 DEF TimersOp
<1> QED
  BY <1>1, TimersStepFlags DEF TimersTypeOK

-----------------------------------------------------------------------------
\* What was fired.

(* What is fired was scheduled, and a one-shot timer that has fired is     *)
(* firing now or is cancelled.                                             *)
FiredInv ==
  /\ \A i \in present \union visit : i < nextTimerId
  /\ \A i \in TimerIds : i >= nextTimerId => fires[i] = 0
  /\ \A i \in TimerIds : (~timer[i].repeating /\ fires[i] # 0)
                           => fires[i] = 1 /\ (timer[i].cancelled \/ cursor = i)

(* A pass that no push_back leaves behind keeps it so.                     *)
LEMMA FiredInvStep ==
  ASSUME TimersTypeOK, TimersOp, FiredInv, ~detached
  PROVE  FiredInv'
<1> USE DEF FiredInv
<1>1. ASSUME NEW d \in Delays, NEW itv \in Delays, NEW rep \in BOOLEAN,
             ScheduleTimer(d, itv, rep)
      PROVE  FiredInv'
  BY <1>1 DEF ScheduleTimer, TimersTypeOK, TimerIds
<1>2. ASSUME NEW S \in SUBSET TimerIds, MarkCancelled(S)
      PROVE  FiredInv'
  BY <1>2 DEF MarkCancelled, passVars, TimersTypeOK, TimerRecord
<1>3. ASSUME NEW i \in TimerIds, FireBegin(i)
      PROVE  FiredInv'
  BY <1>3 DEF FireBegin, ToFire, vecVars, TimersTypeOK, TimerIds
<1>4. CASE PassBegin
  BY <1>4 DEF PassBegin, vecVars, TimersTypeOK, TimerIds
<1>5. CASE FireEnd
  <2>1. CASE timer[cursor].repeating
    BY <1>5, <2>1 DEF FireEnd, TimersTypeOK, TimerRecord, TimerIds
  <2>2. CASE ~timer[cursor].repeating
    <3>1. timer' = [timer EXCEPT ![cursor].cancelled = TRUE]
      BY <1>5, <2>2 DEF FireEnd
    <3> QED
      BY <1>5, <3>1 DEF FireEnd, TimersTypeOK, TimerRecord, TimerIds
  <2> QED
    BY <2>1, <2>2
<1>6. CASE PassEnd
  BY <1>6 DEF PassEnd, Live
<1>7. CASE Elapse
  BY <1>7 DEF Elapse, TimersTypeOK, TimerRecord
<1>8. CASE UNCHANGED timerVars
  BY <1>8 DEF timerVars, vecVars, passVars
<1> QED
  BY <1>1, <1>2, <1>3, <1>4, <1>5, <1>6, <1>7, <1>8 DEF TimersOp
=============================================================================
