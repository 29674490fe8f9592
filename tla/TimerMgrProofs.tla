---------------------------- MODULE TimerMgrProofs ----------------------------
(***************************************************************************)
(* Proofs about TimerMgr for any number of loop timers and messages.       *)
(*                                                                         *)
(* What has to be found is where a removal may be: a request is only made  *)
(* for the await that is being resumed, so while an await still waits none *)
(* names its timer, and none ever names a loop timer.  That a timer whose  *)
(* callback is about to start it again is a loop timer excludes the one    *)
(* case in which cancel_timer would come too late to stop it.              *)
(***************************************************************************)
EXTENDS TimerMgr, TLAPS

\* Where removal requests may point.
RemovalInv ==
  /\ \A i \in remove_bus \cup remove_queue : i \notin LoopTimer
  /\ Unresumed => timer_id_ \notin LoopTimer \cup remove_bus \cup remove_queue

\* Timers that will run again are known, and only loop timers start again.
AsioInv ==
  \A i \in DOMAIN asio :
    /\ asio[i] \in {"armed", "rearm"} => i \in timers
    /\ asio[i] = "rearm" => i \in LoopTimer

TimerInv == TypeOK /\ OwnTimerKept /\ RemovalTracked /\ RemovalInv /\ AsioInv

-------------------------------------------------------------------------------
\* Every initial state of the timers satisfies the invariant.
LEMMA TimerInvInit ==
  ASSUME Init
  PROVE  TimerInv
BY TimerAssumption
DEF Init, TimerInv, TypeOK, OwnTimerKept, RemovalTracked, RemovalInv, AsioInv,
    Unresumed, LoopTimer, AsioState, CoPc

\* Producers and the high-priority side touch nothing the invariant relates.
LEMMA ProducerStep ==
  ASSUME TimerInv,
         PushMqtt \/ PushNotify \/ DispatchTick \/ TickResume \/ TickSuspend
  PROVE  TimerInv'
<1> USE DEF TimerInv, OwnTimerKept, RemovalTracked, RemovalInv, AsioInv,
            Unresumed, timerVars, busVars, coVars, removeVars, tickVars
<1>1. CASE PushMqtt
  BY <1>1 DEF PushMqtt, TypeOK
<1>2. CASE PushNotify
  BY <1>2 DEF PushNotify, TypeOK
<1>3. CASE DispatchTick
  BY <1>3 DEF DispatchTick, TypeOK
<1>4. CASE TickResume
  BY <1>4 DEF TickResume, TypeOK
<1>5. CASE TickSuspend
  BY <1>5 DEF TickSuspend, TypeOK
<1>6. QED
  BY <1>1, <1>2, <1>3, <1>4, <1>5

\* The io_context thread.
LEMMA IoContextStep ==
  ASSUME TimerInv, NEW i \in DOMAIN asio,
         \/ Expire(i) \/ TimeoutCallback(i) \/ LoopCallback(i) \/ Rearm(i)
         \/ AbortedCallback(i)
  PROVE  TimerInv'
<1> USE DEF TimerInv, OwnTimerKept, RemovalTracked, RemovalInv, AsioInv,
            Unresumed, timerVars, busVars, coVars, removeVars, tickVars
<1>0. i \in 1..sid_
  BY DEF TypeOK
<1>1. CASE Expire(i)
  BY <1>0, <1>1 DEF Expire, TypeOK, AsioState
<1>2. CASE TimeoutCallback(i)
  BY <1>0, <1>2 DEF TimeoutCallback, TypeOK, AsioState
<1>3. CASE LoopCallback(i)
  BY <1>0, <1>3 DEF LoopCallback, TypeOK, AsioState
<1>4. CASE Rearm(i)
  BY <1>0, <1>4 DEF Rearm, TypeOK, AsioState
<1>5. CASE AbortedCallback(i)
  BY <1>0, <1>5 DEF AbortedCallback, TypeOK, AsioState
<1>6. QED
  BY <1>1, <1>2, <1>3, <1>4, <1>5

\* set_await_timeout: the new id is larger than every id in use, so no removal
\* on its way can name it.
LEMMA SetAwaitTimeoutStep ==
  ASSUME TimerInv, SetAwaitTimeout
  PROVE  TimerInv'
<1> USE TimerAssumption DEF TimerInv, SetAwaitTimeout, Step, Unresumed, LoopTimer,
        timerVars, busVars, coVars, removeVars, tickVars
<1>1. TypeOK'
  BY DEF TypeOK, AsioState, CoPc
<1>2. \A j \in remove_bus \cup remove_queue \cup LoopTimer : j # sid_ + 1
  BY DEF TypeOK
<1>3. OwnTimerKept' /\ RemovalInv'
  BY <1>2 DEF OwnTimerKept, RemovalInv
<1>4. RemovalTracked'
  BY DEF RemovalTracked
<1>5. AsioInv'
  BY DEF AsioInv, TypeOK
<1>6. QED
  BY <1>1, <1>3, <1>4, <1>5

\* The other steps of handle_mqtt_test_topic.
LEMMA SchedulerStep ==
  ASSUME TimerInv, Scheduler \/ \E a \in {"mqtt", "notify"} : SetAwait(a)
  PROVE  TimerInv'
<1> USE DEF TimerInv, OwnTimerKept, RemovalTracked, RemovalInv, AsioInv,
            Unresumed, timerVars, busVars, coVars, removeVars, tickVars
<1>1. CASE MqttReady
  BY <1>1 DEF MqttReady, Step, TypeOK, CoPc
<1>2. CASE MqttSuspend
  BY <1>2 DEF MqttSuspend, Suspend, Step, TypeOK, CoPc
<1>3. CASE MqttResume
  BY <1>3 DEF MqttResume, Step, TypeOK, CoPc
<1>4. CASE Build
  BY <1>4 DEF Build, Step, TypeOK, CoPc
<1>5. CASE SetAwaitTimeout
  BY <1>5, SetAwaitTimeoutStep
<1>6. CASE NotifySuspend
  BY <1>6 DEF NotifySuspend, Suspend, Step, TypeOK, CoPc
<1>7. CASE NotifyResume
  BY <1>7 DEF NotifyResume, Step, TypeOK, CoPc
<1>8. CASE Destroy
  BY <1>8 DEF Destroy, Step, TypeOK, CoPc
<1>9. ASSUME NEW a \in {"mqtt", "notify"}, SetAwait(a)
      PROVE  TimerInv'
  BY <1>9 DEF SetAwait, TypeOK
<1>10. QED
  BY <1>1, <1>2, <1>3, <1>4, <1>5, <1>6, <1>7, <1>8, <1>9 DEF Scheduler

\* ResumeNotify gives the timer of a resumed await to the removal, or does
\* nothing.
LEMMA ResumeNotifyFacts ==
  ASSUME TimerInv, ResumeNotify, UNCHANGED <<timerVars, timer_id_, remove_queue, stray>>
  PROVE  /\ pc' \in CoPc /\ remove_bus' \in SUBSET (1..sid_)
         /\ OwnTimerKept' /\ RemovalTracked' /\ RemovalInv' /\ AsioInv'
<1> USE DEF TimerInv, ResumeNotify, Unresumed, timerVars
<1>1. CASE pc = "notify_wait" /\ await_ = "notify"
  <2>1. timer_id_ \in 1..sid_
    BY <1>1 DEF OwnTimerKept, TypeOK
  <2>2. QED
    BY <1>1, <2>1 DEF TypeOK, CoPc, OwnTimerKept, RemovalTracked, RemovalInv, AsioInv
<1>2. CASE ~(pc = "notify_wait" /\ await_ = "notify")
  BY <1>2 DEF TypeOK, CoPc, OwnTimerKept, RemovalTracked, RemovalInv, AsioInv
<1>3. QED
  BY <1>1, <1>2

\* The steps of the dispatch threads preserve the invariant.
LEMMA DispatchStep ==
  ASSUME TimerInv, Dispatch
  PROVE  TimerInv'
<1> USE DEF TimerInv, timerVars, busVars, coVars, removeVars, tickVars
<1>1. CASE DispatchMqtt
  BY <1>1 DEF DispatchMqtt, TypeOK, OwnTimerKept, RemovalTracked, RemovalInv,
              AsioInv, Unresumed
<1>2. CASE DispatchMqttTest
  <2>1. pc = "notify_wait" => timer_id_ \in 1..sid_
    BY DEF OwnTimerKept, Unresumed, TypeOK
  <2>2. TypeOK'
    BY <1>2, <2>1 DEF DispatchMqttTest, TypeOK, CoPc
  <2>3. OwnTimerKept' /\ RemovalTracked' /\ RemovalInv' /\ AsioInv'
    BY <1>2 DEF DispatchMqttTest, OwnTimerKept, RemovalTracked, RemovalInv,
                AsioInv, Unresumed
  <2>4. QED
    BY <2>2, <2>3
<1>3. CASE DispatchNotify
  BY <1>3, ResumeNotifyFacts DEF DispatchNotify, TypeOK
<1>4. CASE DispatchTimeout
  BY <1>4, ResumeNotifyFacts DEF DispatchTimeout, TypeOK
<1>5. CASE DispatchRemove
  BY <1>5 DEF DispatchRemove, TypeOK, OwnTimerKept, RemovalTracked, RemovalInv,
              AsioInv, Unresumed
<1>6. CASE DispatchRemoveTest
  BY <1>6 DEF DispatchRemoveTest, TypeOK, OwnTimerKept, RemovalTracked,
              RemovalInv, AsioInv, Unresumed
<1>7. QED
  BY <1>1, <1>2, <1>3, <1>4, <1>5, <1>6 DEF Dispatch

\* co_handle_remove_timer: the timer that is cancelled belongs to no await that
\* still waits, and it is not about to be started again.
LEMMA RemoveStep ==
  ASSUME TimerInv, HandleRemoveTimer
  PROVE  TimerInv'
<1> USE DEF TimerInv, timerVars, busVars, coVars, removeVars, tickVars
<1>1. ASSUME NEW i \in remove_queue, HandleRemove,
             remove_queue' = remove_queue \ {i}, CancelTimer(i)
      PROVE  TimerInv'
  <2> USE <1>1 DEF HandleRemove, CancelTimer
  <2>1. i \in 1..sid_ /\ i \notin LoopTimer /\ (Unresumed => i # timer_id_)
    BY DEF TypeOK, RemovalInv
  <2>2. TypeOK'
    BY <2>1 DEF TypeOK, AsioState
  <2>3. OwnTimerKept' /\ RemovalInv'
    BY <2>1 DEF OwnTimerKept, RemovalInv, Unresumed
  <2>4. RemovalTracked'
    BY DEF RemovalTracked, Unresumed
  <2>5. AsioInv'
    BY <2>1 DEF AsioInv, TypeOK
  <2>6. QED
    BY <2>2, <2>3, <2>4, <2>5
<1>2. CASE RemoveReadyFalse
  BY <1>2 DEF RemoveReadyFalse, TypeOK, OwnTimerKept, RemovalTracked, RemovalInv,
              AsioInv, Unresumed
<1>3. CASE RemoveSuspend
  BY <1>3 DEF RemoveSuspend, TypeOK, OwnTimerKept, RemovalTracked, RemovalInv,
              AsioInv, Unresumed
<1>4. QED
  BY <1>1, <1>2, <1>3 DEF HandleRemoveTimer, HandleRemove

\* TimerInv is an invariant of the timers and their clients.
THEOREM TimerInvariance == Spec => []TimerInv
<1>1. Init => TimerInv
  BY TimerInvInit
<1>2. TimerInv /\ [Next]_vars => TimerInv'
  <2> SUFFICES ASSUME TimerInv, [Next]_vars
               PROVE  TimerInv'
    OBVIOUS
  <2>1. CASE Next
    BY <2>1, ProducerStep, IoContextStep, SchedulerStep, DispatchStep, RemoveStep
    DEF Next, IoContext
  <2>2. CASE UNCHANGED vars
    BY <2>2 DEF TimerInv, TypeOK, OwnTimerKept, RemovalTracked, RemovalInv,
                AsioInv, Unresumed, vars, timerVars, busVars, coVars,
                removeVars, tickVars
  <2>3. QED
    BY <2>1, <2>2
<1>3. QED
  BY <1>1, <1>2, PTL DEF Spec

\* Types: every id in a message, a queue or the map was handed out by get_id.
THEOREM TimerTypeCorrect == Spec => []TypeOK
BY TimerInvariance, PTL DEF TimerInv

\* A removal on its way never reaches the timer of the await that waits now,
\* nor a loop timer.
THEOREM OwnTimerSurvives == Spec => []OwnTimerKept
BY TimerInvariance, PTL DEF TimerInv

\* No timer stays in TimerMgr's map unless it is in use, its removal is under
\* way, or its await was resumed without a message.
THEOREM TimersNotLeaked == Spec => []RemovalTracked
BY TimerInvariance, PTL DEF TimerInv

\* A timer that is going to expire is in the map, where cancel_timer finds it.
THEOREM ArmedTimersKnown == Spec => []ArmedTimerKnown
<1>1. TimerInv => ArmedTimerKnown
  BY DEF TimerInv, AsioInv, ArmedTimerKnown
<1>2. QED
  BY <1>1, TimerInvariance, PTL

\* All of it together, for any number of timers and messages.
THEOREM TimersAreTracked == Spec => []TimersTracked
  BY TimerTypeCorrect, TimersNotLeaked, ArmedTimersKnown, PTL DEF TimersTracked
===============================================================================
