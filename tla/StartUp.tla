-------------------------------- MODULE StartUp --------------------------------
(***************************************************************************)
(* The start of the program and its two channels: LogicMgr, MqttChannel    *)
(* and Ros2Channel.  They share no variable, so instead of their product   *)
(* each behaviour runs one of them, named by the variable part, and leaves *)
(* the other two in their initial states.                                  *)
(***************************************************************************)
EXTENDS Naturals

CONSTANTS
  MqttTopic,   \* topics SchedulerLogic::init subscribes to over MQTT
  MaxLosses,
  Caller, Ros2Topic, Nobody, MayThrow, MaxCalls,
  Logic, Handler, LogicOf, NameOf, Shared, Source, MaxPush

VARIABLES
  part,
  main, current, inited, running, armed, stage, pending, pushed, waitingFor, lost,
  user, todo, refused, call, mqttTopic, subscribe_topics_, disconnected_, loop,
  visit, torn, link, asked, granted, losses,
  publishers, publishers_mutex_, subscribers, subscribers_mutex_,
  madePublishers, madeSubscriptions, pc, topic, calls

start == <<main, current, inited, running, armed, stage, pending, pushed,
           waitingFor, lost>>
mqtt == <<user, todo, refused, call, mqttTopic, subscribe_topics_,
          disconnected_, loop, visit, torn, link, asked, granted, losses>>
ros2 == <<publishers, publishers_mutex_, subscribers, subscribers_mutex_,
          madePublishers, madeSubscriptions, pc, topic, calls>>
vars == <<part, start, mqtt, ros2>>

Start == INSTANCE LogicMgr

Mqtt == INSTANCE MqttChannel WITH
  Topic <- MqttTopic, main <- user, topic <- mqttTopic

Ros2 == INSTANCE Ros2Channel WITH Topic <- Ros2Topic

ASSUME Instances ==
  Start!StartAssumption /\ Mqtt!MqttAssumption /\ Ros2!Ros2Assumption

Init ==
  /\ part \in {"start", "mqtt", "ros2"}
  /\ Start!Init /\ Mqtt!Init /\ Ros2!Init

\* A step of one part.
OfStart(A) == part = "start" /\ A /\ UNCHANGED <<part, mqtt, ros2>>
OfMqtt(A) == part = "mqtt" /\ A /\ UNCHANGED <<part, start, ros2>>
OfRos2(A) == part = "ros2" /\ A /\ UNCHANGED <<part, start, mqtt>>

Next == OfStart(Start!Next) \/ OfMqtt(Mqtt!Next) \/ OfRos2(Ros2!Next)

\* The main thread and the dispatch threads run.
StartFairness ==
  /\ WF_vars(OfStart(Start!Main))
  /\ \A n \in Start!Name : WF_vars(OfStart(Start!Dispatch(n)))

\* Both threads run, loop_forever keeps its promise to reconnect, and a broker
\* that is connected answers.
MqttFairness ==
  /\ WF_vars(OfMqtt(Mqtt!Connect \/ Mqtt!StartLoop \/ Mqtt!NextSubscribe))
  /\ \A th \in {"main", "loop"} :
       WF_vars(OfMqtt(Mqtt!Contains(th) \/ Mqtt!Ask(th) \/ Mqtt!Insert(th)))
  /\ WF_vars(OfMqtt(Mqtt!OnConnect)) /\ WF_vars(OfMqtt(Mqtt!Iterate))
  /\ WF_vars(OfMqtt(Mqtt!OnDisconnect)) /\ WF_vars(OfMqtt(Mqtt!Reconnect))
  /\ \A t \in MqttTopic : WF_vars(OfMqtt(Mqtt!Grant(t)))

\* The executor threads run.  Nothing is assumed of the fairness of std::mutex:
\* a caller makes finitely many calls, so each mutex is free in the end.
Ros2Fairness == \A c \in Caller : WF_vars(OfRos2(Ros2!Step(c)))

Spec == Init /\ [][Next]_vars
FairSpec == Spec /\ StartFairness /\ MqttFairness /\ Ros2Fairness
-------------------------------------------------------------------------------
\* Channels, timers and generators push while the logics are initialised; no
\* message passes a handler that does not listen yet, because LogicMgr::start
\* starts message_bus_ last.  For the same reason the first co_await of a handler
\* suspends, so await_resume never dereferences a null handle_.
HandlersReady ==
  Start!TypeOK /\ Start!NothingPassesAHandler /\ Start!FirstAwaitSuspends

\* Until a connection is lost, subscribe() remembers a topic only when its
\* SUBSCRIBE was handed to the library, and the unlocked subscribe_topics_ is not
\* iterated by on_connect while subscribe() inserts into it.
FirstSession ==
  Mqtt!TypeOK /\ Mqtt!RaceNeedsReconnect /\ Mqtt!FirstSessionComplete

\* However will_pulish, publish and subscribe interleave, a topic gets one
\* publisher and one subscription, and an exception leaves a mutex locked in
\* publish only, and only publishers_mutex_.
Ros2Consistent == Ros2!TypeOK /\ Ros2!OnePerTopic /\ Ros2!OnlyPublishAbandons

\* Messages accepted before the dispatch threads exist are dispatched too.  Every
\* topic of SchedulerLogic::init ends up subscribed at the broker, unless a
\* subscribe() failed or a connection was lost: nothing retries.  Every call of
\* Ros2Channel returns or throws, unless a publish threw before; subscribe
\* returns even then.
NothingWaitsForEver ==
  /\ Start!EarlyMessagesDispatched
  /\ <>(part # "mqtt" \/ Mqtt!Heard)
  /\ Ros2!CallsReturn
===============================================================================
