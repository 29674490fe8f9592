------------------------------- MODULE TimerMgr -------------------------------
(***************************************************************************)
(* Timers and the awaits that depend on them: include/data_proxy/          *)
(* timer_mgr.h, src/timer_mgr.cpp, and their two kinds of client.          *)
(*                                                                         *)
(*   SchedulerLogic::handle_mqtt_test_topic waits, in a loop, for an MQTT  *)
(*   message and then for a "platform/notify" with a timeout.  The timeout *)
(*   is a message addressed to that name; when the await is resumed it     *)
(*   sends "__RemoveTimer" to TimerMgr's own coroutine, which cancels the  *)
(*   timer.                                                                *)
(*   Test::generate_msg3 waits for the ticks of a loop timer, which come   *)
(*   through the high-priority queue.                                      *)
(*                                                                         *)
(* The hand-over between dispatcher and coroutine is that of AwaitProtocol *)
(* at a coarser grain.  Once a dispatcher has read StopState nobody else   *)
(* changes it (AwaitProofs, DispatchInv), so the reads and the resume are  *)
(* one step; what precedes them (the enqueue of a MessageAwait) and the    *)
(* two stores of await_suspend are steps of their own.                     *)
(***************************************************************************)
EXTENDS Naturals

CONSTANTS
  Loops,      \* loop timers started during init(), ids 1..Loops
  MaxMqtt,    \* bound: "platform/mqtt_test_topic" messages
  MaxNotify,  \* bound: "platform/notify" messages that pass the filter
  MaxTick     \* bound: ticks waiting in the high-priority queue

ASSUME TimerAssumption ==
  /\ Loops \in Nat \ {0} /\ MaxTick \in Nat \ {0}
  /\ MaxMqtt \in Nat /\ MaxNotify \in Nat

\* The loop timer of generate_msg3 is the last.  The ones before it, such as the
\* keep-alive timer of TimerMgr's constructor, push nothing.
LoopTimer == 1..Loops
Ticker == Loops

VARIABLES
  sid_, timers,      \* TimerMgr: last id, ids in the map
  asio,              \* asio[i]: the pending wait of timer i
  mqtt, notify,      \* messages of these names pushed so far
  mqtt_bus, notify_bus, timeout_bus, remove_bus,  \* what the bus holds of each
  disp,              \* dispatch thread: between the two halves of a push_message
  pc, await_, tails, \* handle_mqtt_test_topic, its promise.await, late stores
  mqtt_queue,        \* queue_ of its MessageAwait
  timer_id_,         \* timer_id_ of its temp await, 0 before set_await_timeout
  remove_pc, remove_queue,  \* co_handle_remove_timer and its await's queue_
  tick_bus, tick_pc, \* high-priority queue; generate_msg3
  stray              \* history: timers of awaits resumed without a message

timerVars == <<sid_, timers, asio>>
busVars == <<mqtt, notify, mqtt_bus, notify_bus, timeout_bus, remove_bus, disp>>
coVars == <<pc, await_, tails, mqtt_queue, timer_id_>>
removeVars == <<remove_pc, remove_queue>>
tickVars == <<tick_bus, tick_pc>>
vars == <<timerVars, busVars, coVars, removeVars, tickVars, stray>>

\* Timers: "armed", "expired" (handler queued, cancel() comes too late),
\* "aborted" (handler queued with an error), "rearm" (func() returned true),
\* "done" (no wait pending).
AsioState == {"armed", "expired", "aborted", "rearm", "done"}

CoPc == {"mqtt_ready", "mqtt_susp", "mqtt_wait", "mqtt_queued", "build", "timeout",
         "notify_susp", "notify_wait", "notify_queued", "destroy"}

\* After init(): TimerMgr's constructor and create_time_await have started
\* the loop timers and every coroutine waits at its first co_await.
Init ==
  /\ sid_ = Loops /\ timers = LoopTimer
  /\ asio = [i \in LoopTimer |-> "armed"]
  /\ mqtt = 0 /\ notify = 0 /\ mqtt_bus = 0 /\ notify_bus = 0
  /\ timeout_bus = {} /\ remove_bus = {} /\ disp = "idle"
  /\ pc = "mqtt_wait" /\ await_ = "mqtt"
  /\ tails = [a \in {"mqtt", "notify"} |-> 0]
  /\ mqtt_queue = 0 /\ timer_id_ = 0
  /\ remove_pc = "wait" /\ remove_queue = {}
  /\ tick_bus = 0 /\ tick_pc = "wait"
  /\ stray = {}
(***************************************************************************)
(* Producers: the mosquitto thread.  A notify that the filter refuses      *)
(* changes nothing and is left out.                                        *)
(***************************************************************************)
PushMqtt ==
  /\ mqtt < MaxMqtt
  /\ mqtt' = mqtt + 1 /\ mqtt_bus' = mqtt_bus + 1
  /\ UNCHANGED <<timerVars, notify, notify_bus, timeout_bus, remove_bus, disp,
                 coVars, removeVars, tickVars, stray>>

PushNotify ==
  /\ notify < MaxNotify
  /\ notify' = notify + 1 /\ notify_bus' = notify_bus + 1
  /\ UNCHANGED <<timerVars, mqtt, mqtt_bus, timeout_bus, remove_bus, disp,
                 coVars, removeVars, tickVars, stray>>

(***************************************************************************)
(* The io_context thread: asio's timers (external) and timer_callback.     *)
(***************************************************************************)
\* The time of timer i has come: its handler is queued.
Expire(i) ==
  /\ asio[i] = "armed"
  /\ asio' = [asio EXCEPT ![i] = "expired"]
  /\ UNCHANGED <<sid_, timers, busVars, coVars, removeVars, tickVars, stray>>

\* timer_callback of a timer of set_await_timeout: the timeout message; the
\* function returns false, so the timer is not started again.
TimeoutCallback(i) ==
  /\ asio[i] = "expired" /\ i \notin LoopTimer
  /\ asio' = [asio EXCEPT ![i] = "done"]
  /\ timeout_bus' = timeout_bus \cup {i}
  /\ UNCHANGED <<sid_, timers, mqtt, notify, mqtt_bus, notify_bus, remove_bus,
                 disp, coVars, removeVars, tickVars, stray>>

\* Fault: a loop timer is not started again.
LoopCallbackOnce(i) ==
  /\ asio[i] = "expired" /\ i \in LoopTimer
  /\ i = Ticker => tick_bus < MaxTick
  /\ asio' = [asio EXCEPT ![i] = "done"]
  /\ tick_bus' = IF i = Ticker THEN tick_bus + 1 ELSE tick_bus
  /\ UNCHANGED <<sid_, timers, busVars, coVars, removeVars, tick_pc, stray>>

\* timer_callback of a loop timer: func() pushes a tick (the keep-alive timer
\* pushes nothing) and returns true ...
LoopCallback(i) ==
  /\ asio[i] = "expired" /\ i \in LoopTimer
  /\ i = Ticker => tick_bus < MaxTick
  /\ asio' = [asio EXCEPT ![i] = "rearm"]
  /\ tick_bus' = IF i = Ticker THEN tick_bus + 1 ELSE tick_bus
  /\ UNCHANGED <<sid_, timers, busVars, coVars, removeVars, tick_pc, stray>>

\* ... then expires_at and async_wait.
Rearm(i) ==
  /\ asio[i] = "rearm"
  /\ asio' = [asio EXCEPT ![i] = "armed"]
  /\ UNCHANGED <<sid_, timers, busVars, coVars, removeVars, tickVars, stray>>

\* timer_callback with an error code returns at once.
AbortedCallback(i) ==
  /\ asio[i] = "aborted"
  /\ asio' = [asio EXCEPT ![i] = "done"]
  /\ UNCHANGED <<sid_, timers, busVars, coVars, removeVars, tickVars, stray>>

IoContext ==
  \E i \in DOMAIN asio :
    TimeoutCallback(i) \/ LoopCallback(i) \/ Rearm(i) \/ AbortedCallback(i)

(***************************************************************************)
(* handle_mqtt_test_topic.                                                 *)
(***************************************************************************)
\* A step of the coroutine from p to q that keeps its awaits' words.
Step(p, q) ==
  /\ pc = p /\ pc' = q
  /\ UNCHANGED <<busVars, await_, removeVars, tickVars, stray>>

\* co_await on the MQTT await: await_ready.
MqttReady ==
  /\ Step("mqtt_ready", IF mqtt_queue > 0 THEN "build" ELSE "mqtt_susp")
  /\ mqtt_queue' = IF mqtt_queue > 0 THEN mqtt_queue - 1 ELSE 0
  /\ UNCHANGED <<timerVars, tails, timer_id_>>

\* await_suspend: state_ = StopState; the store of promise.await comes later.
Suspend(p, q, a) ==
  /\ Step(p, q)
  /\ tails' = [tails EXCEPT ![a] = @ + 1]
  /\ UNCHANGED <<timerVars, mqtt_queue, timer_id_>>

MqttSuspend == Suspend("mqtt_susp", "mqtt_wait", "mqtt")

NotifySuspend == Suspend("notify_susp", "notify_wait", "notify")

\* await_suspend: promise.await = this, by the worker that suspended.
SetAwait(a) ==
  /\ tails[a] > 0
  /\ tails' = [tails EXCEPT ![a] = @ - 1]
  /\ await_' = a
  /\ UNCHANGED <<timerVars, busVars, pc, mqtt_queue, timer_id_, removeVars,
                 tickVars, stray>>

\* await_resume of the MQTT await spins until there is a message.
MqttResume ==
  /\ Step("mqtt_queued", "build")
  /\ mqtt_queue > 0 /\ mqtt_queue' = mqtt_queue - 1
  /\ UNCHANGED <<timerVars, tails, timer_id_>>

\* temp_message_await: the await is registered, without handle_ and timer.
Build ==
  /\ Step("build", "timeout")
  /\ timer_id_' = 0
  /\ UNCHANGED <<timerVars, tails, mqtt_queue>>

\* Fault: get_id does not store the incremented id.
SetAwaitTimeoutSameId ==
  /\ Step("timeout", "notify_susp")
  /\ sid_' = Loops + 1
  /\ timers' = timers \cup {Loops + 1}
  /\ asio' = [i \in 1..(Loops + 1) |-> IF i = Loops + 1 THEN "armed" ELSE asio[i]]
  /\ timer_id_' = Loops + 1
  /\ UNCHANGED <<tails, mqtt_queue>>

\* set_await_timeout: create_timer, then timer_id_.
SetAwaitTimeout ==
  /\ Step("timeout", "notify_susp")
  /\ sid_' = sid_ + 1
  /\ timers' = timers \cup {sid_ + 1}
  /\ asio' = [i \in 1..(sid_ + 1) |-> IF i = sid_ + 1 THEN "armed" ELSE asio[i]]
  /\ timer_id_' = sid_ + 1
  /\ UNCHANGED <<tails, mqtt_queue>>

\* await_resume of the temp await, whatever data_ holds.
NotifyResume ==
  /\ Step("notify_queued", "destroy")
  /\ UNCHANGED <<timerVars, tails, mqtt_queue, timer_id_>>

\* End of the iteration: ~TempMessageAwait.  The name is not a timer's, so
\* the destructor does not ask for a removal.
Destroy ==
  /\ Step("destroy", "mqtt_ready")
  /\ UNCHANGED <<timerVars, tails, mqtt_queue, timer_id_>>

Scheduler ==
  \/ MqttReady \/ MqttSuspend \/ MqttResume \/ Build \/ SetAwaitTimeout
  \/ NotifySuspend \/ NotifyResume \/ Destroy

(***************************************************************************)
(* dispatch_thread_.                                                       *)
(***************************************************************************)
\* A message for the MQTT await: enqueue ...
DispatchMqtt ==
  /\ disp = "idle" /\ mqtt_bus > 0
  /\ mqtt_bus' = mqtt_bus - 1
  /\ mqtt_queue' = mqtt_queue + 1
  /\ disp' = "mqtt"
  /\ UNCHANGED <<timerVars, mqtt, notify, notify_bus, timeout_bus, remove_bus,
                 pc, await_, tails, timer_id_, removeVars, tickVars, stray>>

\* ... then resume the coroutine if it is stopped and promise.await is this
\* await.  It may in fact be suspended on the temp await, whose store of
\* promise.await is still to come: it is then resumed without a message.
DispatchMqttTest ==
  /\ disp = "mqtt" /\ disp' = "idle"
  /\ pc' = CASE pc = "mqtt_wait" /\ await_ = "mqtt" -> "mqtt_queued"
             [] pc = "notify_wait" /\ await_ = "mqtt" -> "notify_queued"
             [] OTHER -> pc
  /\ stray' = IF pc = "notify_wait" /\ await_ = "mqtt"
              THEN stray \cup {timer_id_} ELSE stray
  /\ UNCHANGED <<timerVars, mqtt, notify, mqtt_bus, notify_bus, timeout_bus,
                 remove_bus, await_, tails, mqtt_queue, timer_id_, removeVars,
                 tickVars>>

\* Fault: remove_timer() is forgotten.
ResumeNotifyNoRemove ==
  /\ pc' = IF pc = "notify_wait" /\ await_ = "notify" THEN "notify_queued" ELSE pc
  /\ UNCHANGED remove_bus

\* TempMessageAwait::push_message with a message that passes: resume the
\* coroutine and ask for the timer's removal, or drop the message.
ResumeNotify ==
  IF pc = "notify_wait" /\ await_ = "notify"
  THEN pc' = "notify_queued" /\ remove_bus' = remove_bus \cup {timer_id_}
  ELSE UNCHANGED <<pc, remove_bus>>

\* Fault: the result of try_dequeue is ignored.
DispatchNotifyUnchecked ==
  /\ disp = "idle"
  /\ notify_bus' = notify_bus - 1
  /\ ResumeNotify
  /\ UNCHANGED <<timerVars, mqtt, notify, mqtt_bus, timeout_bus, disp, await_,
                 tails, mqtt_queue, timer_id_, removeVars, tickVars, stray>>

\* A "platform/notify" message.
DispatchNotify ==
  /\ disp = "idle" /\ notify_bus > 0
  /\ notify_bus' = notify_bus - 1
  /\ ResumeNotify
  /\ UNCHANGED <<timerVars, mqtt, notify, mqtt_bus, timeout_bus, disp, await_,
                 tails, mqtt_queue, timer_id_, removeVars, tickVars, stray>>

\* Fault: a timeout has to pass the filter too.
DispatchTimeoutFiltered ==
  \E i \in timeout_bus :
    /\ disp = "idle"
    /\ timeout_bus' = timeout_bus \ {i}
    /\ UNCHANGED <<timerVars, mqtt, notify, mqtt_bus, notify_bus, remove_bus,
                   disp, coVars, removeVars, tickVars, stray>>

\* A timeout, of this await's timer or of an earlier one's.
DispatchTimeout ==
  \E i \in timeout_bus :
    /\ disp = "idle"
    /\ timeout_bus' = timeout_bus \ {i}
    /\ ResumeNotify
    /\ UNCHANGED <<timerVars, mqtt, notify, mqtt_bus, notify_bus, disp, await_,
                   tails, mqtt_queue, timer_id_, removeVars, tickVars, stray>>

\* "__RemoveTimer" for co_handle_remove_timer, in the same two halves.
DispatchRemove ==
  \E i \in remove_bus :
    /\ disp = "idle" /\ disp' = "remove"
    /\ remove_bus' = remove_bus \ {i}
    /\ remove_queue' = remove_queue \cup {i}
    /\ UNCHANGED <<timerVars, mqtt, notify, mqtt_bus, notify_bus, timeout_bus,
                   coVars, remove_pc, tickVars, stray>>

DispatchRemoveTest ==
  /\ disp = "remove" /\ disp' = "idle"
  /\ remove_pc' = IF remove_pc = "wait" THEN "queued" ELSE remove_pc
  /\ UNCHANGED <<timerVars, mqtt, notify, mqtt_bus, notify_bus, timeout_bus,
                 remove_bus, coVars, remove_queue, tickVars, stray>>

Dispatch ==
  \/ DispatchMqtt \/ DispatchMqttTest \/ DispatchNotify \/ DispatchTimeout
  \/ DispatchRemove \/ DispatchRemoveTest

(***************************************************************************)
(* co_handle_remove_timer.                                                 *)
(***************************************************************************)
\* Fault: the pending wait is not cancelled.
CancelTimerEraseOnly(i) ==
  /\ timers' = timers \ {i}
  /\ UNCHANGED asio

\* cancel_timer(i), under timers_mutex_.
CancelTimer(i) ==
  /\ timers' = timers \ {i}
  /\ asio' = IF i \in timers /\ asio[i] = "armed"
             THEN [asio EXCEPT ![i] = "aborted"] ELSE asio

\* A message is there, found by await_ready or after a suspension (which
\* spins until there is one).
HandleRemove ==
  /\ remove_pc \in {"ready", "queued"}
  /\ \E i \in remove_queue :
       remove_queue' = remove_queue \ {i} /\ CancelTimer(i)
  /\ remove_pc' = "ready"
  /\ UNCHANGED <<sid_, busVars, coVars, tickVars, stray>>

\* await_ready is false ...
RemoveReadyFalse ==
  /\ remove_pc = "ready" /\ remove_queue = {}
  /\ remove_pc' = "susp"
  /\ UNCHANGED <<timerVars, busVars, coVars, remove_queue, tickVars, stray>>

\* ... and state_ = StopState; promise.await never changes here.
RemoveSuspend ==
  /\ remove_pc = "susp"
  /\ remove_pc' = "wait"
  /\ UNCHANGED <<timerVars, busVars, coVars, remove_queue, tickVars, stray>>

HandleRemoveTimer == HandleRemove \/ RemoveReadyFalse \/ RemoveSuspend

(***************************************************************************)
(* generate_msg3 and the high-priority dispatch thread.                    *)
(***************************************************************************)
\* A tick resumes a waiting coroutine; a tick that finds it running is lost.
DispatchTick ==
  /\ tick_bus > 0
  /\ tick_bus' = tick_bus - 1
  /\ tick_pc' = IF tick_pc = "wait" THEN "queued" ELSE tick_pc
  /\ UNCHANGED <<timerVars, busVars, coVars, removeVars, stray>>

\* The coroutine runs and suspends again.
TickResume ==
  /\ tick_pc = "queued" /\ tick_pc' = "run"
  /\ UNCHANGED <<timerVars, busVars, coVars, removeVars, tick_bus, stray>>

TickSuspend ==
  /\ tick_pc = "run" /\ tick_pc' = "wait"
  /\ UNCHANGED <<timerVars, busVars, coVars, removeVars, tick_bus, stray>>

Next ==
  \/ PushMqtt \/ PushNotify
  \/ \E i \in DOMAIN asio : Expire(i)
  \/ IoContext
  \/ Scheduler
  \/ \E a \in {"mqtt", "notify"} : SetAwait(a)
  \/ Dispatch
  \/ HandleRemoveTimer
  \/ DispatchTick \/ TickResume \/ TickSuspend

Spec == Init /\ [][Next]_vars

(***************************************************************************)
(* Fairness.  Time passes, so an armed timer expires; the io_context       *)
(* thread, both dispatch threads and the workers run.  The handlers of     *)
(* different timers are served in the order they were queued, so none      *)
(* waits for ever.  Producers need not push.                               *)
(***************************************************************************)
Fairness ==
  /\ \A i \in 1..(Loops + MaxMqtt) :
       /\ WF_vars(i \in DOMAIN asio /\ Expire(i))
       /\ WF_vars(i \in DOMAIN asio /\ (TimeoutCallback(i) \/ LoopCallback(i)
                                          \/ Rearm(i) \/ AbortedCallback(i)))
  /\ WF_vars(Scheduler)
  /\ \A a \in {"mqtt", "notify"} : WF_vars(SetAwait(a))
  /\ WF_vars(Dispatch) /\ WF_vars(HandleRemoveTimer)
  /\ WF_vars(DispatchTick) /\ WF_vars(TickResume) /\ WF_vars(TickSuspend)

FairSpec == Spec /\ Fairness
-------------------------------------------------------------------------------
\* What each variable holds; ids in use are ids that get_id has handed out.
TypeOK ==
  /\ sid_ \in Nat /\ sid_ >= Loops
  /\ timers \in SUBSET (1..sid_) /\ asio \in [1..sid_ -> AsioState]
  /\ mqtt \in Nat /\ notify \in Nat /\ mqtt_bus \in Nat /\ notify_bus \in Nat
  /\ timeout_bus \in SUBSET (1..sid_) /\ remove_bus \in SUBSET (1..sid_)
  /\ disp \in {"idle", "mqtt", "remove"}
  /\ pc \in CoPc /\ await_ \in {"mqtt", "notify"}
  /\ tails \in [{"mqtt", "notify"} -> Nat]
  /\ mqtt_queue \in Nat /\ timer_id_ \in 0..sid_
  /\ remove_pc \in {"ready", "susp", "wait", "queued"}
  /\ remove_queue \in SUBSET (1..sid_)
  /\ tick_bus \in Nat /\ tick_pc \in {"wait", "queued", "run"}
  /\ stray \in SUBSET (1..sid_)

\* The iteration has an await that no message has resumed yet.
Unresumed == pc \in {"notify_susp", "notify_wait"}

\* A removal requested for an earlier await, delivered however late, never
\* cancels the timer of the await that waits now, nor a loop timer (without
\* the keep-alive timer io_context_.run() could return).
OwnTimerKept ==
  /\ LoopTimer \subseteq timers
  /\ Unresumed => timer_id_ \in timers

\* Timers are not leaked: one that is still in the map belongs to the await
\* that waits now, or its removal is on its way to cancel_timer, or its await
\* was resumed without a message (push_message, which asks for the removal,
\* did not run).
RemovalTracked ==
  \A i \in timers \ LoopTimer :
    \/ Unresumed /\ i = timer_id_
    \/ i \in remove_bus \cup remove_queue
    \/ i \in stray

\* A timer that is going to expire is in the map, where its removal finds it:
\* a timeout can end a later wait only if its timer had already expired when
\* cancel_timer came.
ArmedTimerKnown ==
  \A i \in DOMAIN asio : asio[i] = "armed" => i \in timers

\* A timed wait ends: once the coroutine waits with promise.await in place and
\* its timer running, the timeout or a notify resumes it, whatever earlier
\* timeouts, removals and late stores are still under way.  (A timer that
\* expires before that is another matter: push_message drops its timeout.)
TimedWaitEnds ==
  \A i \in (Loops + 1)..(Loops + MaxMqtt) :
    /\ pc = "notify_wait" /\ timer_id_ = i /\ await_ = "notify"
    /\ i \in DOMAIN asio /\ asio[i] = "armed"
    ~> timer_id_ # i \/ ~Unresumed

\* The ticks of a loop timer keep resuming generate_msg3, although ticks that
\* find it running are dropped.
TicksKeepComing == []<>(tick_pc = "run")

\* The map of timers: types, no timer leaked while its await ended by a message,
\* and no timer going to expire that cancel_timer would not find.
TimersTracked == TypeOK /\ RemovalTracked /\ ArmedTimerKnown
===============================================================================
