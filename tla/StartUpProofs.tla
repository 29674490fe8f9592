----------------------------- MODULE StartUpProofs -----------------------------
(***************************************************************************)
(* Proofs about StartUp, for any set of logics and handlers, any topics    *)
(* and callers and any bounds.  Each of the three parts has an inductive   *)
(* invariant of its own; a step of one part leaves the variables of the    *)
(* others alone.                                                           *)
(***************************************************************************)
EXTENDS StartUp, TLAPS

USE Instances

(***************************************************************************)
(* Ros2Channel                                                             *)
(***************************************************************************)
\* The callers that hold publishers_mutex_, and those about to create.
HoldsPublishers == {"will-in", "will-create", "publish-in", "publish-create",
                    "send", "abandoned"}
Creates == {"will-create", "publish-create"}

\* Being between lock() and unlock() and holding the mutex are the same, so a
\* topic found missing from the map is still missing when its publisher is
\* created.
Ros2Inv ==
  /\ Ros2!TypeOK
  /\ \A c \in Caller :
       /\ pc[c] \in HoldsPublishers <=> publishers_mutex_ = c
       /\ pc[c] = "subscribe-in" <=> subscribers_mutex_ = c
       /\ pc[c] \in Creates => topic[c] \notin publishers
  /\ Ros2!OnePerTopic

\* Ros2Inv holds in the initial states.
LEMMA Ros2Start == Init => Ros2Inv
<1> SUFFICES ASSUME Init PROVE Ros2Inv
  OBVIOUS
<1> USE DEF Init, Ros2!Init
<1>1. (CHOOSE t \in Ros2Topic : TRUE) \in Ros2Topic
  BY DEF Ros2!Ros2Assumption
<1>2. Ros2!TypeOK
  BY <1>1 DEF Ros2!TypeOK, Ros2!PC, Ros2!Ros2Assumption
<1>3. \A c \in Caller : pc[c] = "idle" /\ publishers_mutex_ # c /\ subscribers_mutex_ # c
  BY DEF Ros2!Ros2Assumption
<1>4. Ros2!OnePerTopic
  BY DEF Ros2!OnePerTopic
<1> QED
  BY <1>2, <1>3, <1>4 DEF Ros2Inv, HoldsPublishers, Creates

\* Every step of Ros2Channel preserves it, and the steps of the other parts do not touch
\* its variables.
LEMMA Ros2Step == Ros2Inv /\ [Next]_vars => Ros2Inv'
<1> SUFFICES ASSUME Ros2Inv, [Next]_vars PROVE Ros2Inv'
  OBVIOUS
<1> USE DEF Ros2Inv, Ros2!TypeOK, Ros2!OnePerTopic, Ros2!PC, Ros2!pubs,
            Ros2!subs, HoldsPublishers, Creates, Ros2!Ros2Assumption
<1>1. CASE UNCHANGED ros2
  BY <1>1 DEF ros2
<1>2. ASSUME NEW c \in Caller, Ros2!Call(c) PROVE Ros2Inv'
  BY <1>2 DEF Ros2!Call
<1>3. ASSUME NEW c \in Caller, Ros2!LockPublishers(c) PROVE Ros2Inv'
  BY <1>3 DEF Ros2!LockPublishers
<1>4. ASSUME NEW c \in Caller, Ros2!Contains(c) PROVE Ros2Inv'
  BY <1>4 DEF Ros2!Contains
<1>5. ASSUME NEW c \in Caller, Ros2!CreatePublisher(c) PROVE Ros2Inv'
  BY <1>5 DEF Ros2!CreatePublisher
<1>6. ASSUME NEW c \in Caller, Ros2!CreateThrows(c) PROVE Ros2Inv'
  BY <1>6 DEF Ros2!CreateThrows
<1>7. ASSUME NEW c \in Caller, Ros2!Send(c) PROVE Ros2Inv'
  BY <1>7 DEF Ros2!Send
<1>8. ASSUME NEW c \in Caller, Ros2!LockSubscribers(c) PROVE Ros2Inv'
  BY <1>8 DEF Ros2!LockSubscribers
<1>9. ASSUME NEW c \in Caller, Ros2!Subscribe(c) PROVE Ros2Inv'
  BY <1>9 DEF Ros2!Subscribe
<1> HIDE DEF Ros2Inv
<1> QED
  BY <1>1, <1>2, <1>3, <1>4, <1>5, <1>6, <1>7, <1>8, <1>9
     DEF Next, OfStart, OfMqtt, OfRos2, vars, Ros2!Next, Ros2!Step

\* However will_pulish, publish and subscribe interleave, each topic has one
\* publisher and one subscription, and only publish can leave a mutex locked.
THEOREM Ros2Safe == Spec => []Ros2Consistent
<1>1. Ros2Inv => Ros2Consistent
  BY DEF Ros2Inv, Ros2Consistent, Ros2!OnlyPublishAbandons, HoldsPublishers
<1> QED
  BY <1>1, Ros2Start, Ros2Step, PTL DEF Spec

(***************************************************************************)
(* MqttChannel                                                             *)
(***************************************************************************)
\* The flag disconnected_ is set by the first loss and guards the iteration, so
\* before a loss nothing iterates, and what a subscribe() call has handed to
\* the library is still known to the library or the broker when it is inserted.
MqttInv ==
  /\ Mqtt!TypeOK
  /\ user \in {"init", "start"} => loop = "unborn"
  /\ loop = "iterate" => disconnected_
  /\ torn => disconnected_
  /\ link = "broken" \/ disconnected_ => losses > 0
  /\ losses = 0 =>
       /\ subscribe_topics_ \subseteq asked \cup granted
       /\ \A th \in Mqtt!Thread :
            call[th] = "insert" => mqttTopic[th] \in asked \cup granted

\* MqttInv holds in the initial states.
LEMMA MqttStart == Init => MqttInv
<1> SUFFICES ASSUME Init PROVE MqttInv
  OBVIOUS
<1>1. (CHOOSE t \in MqttTopic : TRUE) \in MqttTopic
  BY DEF Mqtt!MqttAssumption
<1>2. mqttTopic \in [Mqtt!Thread -> MqttTopic]
  BY <1>1 DEF Init, Mqtt!Init
<1>3. call \in [Mqtt!Thread -> {"out", "test", "ask", "insert"}] /\ call["loop"] = "out"
  BY DEF Init, Mqtt!Init, Mqtt!Thread
<1>4. losses \in 0..MaxLosses
  BY DEF Init, Mqtt!Init, Mqtt!MqttAssumption
<1>5. Mqtt!TypeOK
  BY <1>2, <1>3, <1>4 DEF Init, Mqtt!Init, Mqtt!TypeOK, Mqtt!Link
<1> QED
  BY <1>5 DEF Init, Mqtt!Init, MqttInv, Mqtt!Thread

\* Every step of MqttChannel preserves it, and the steps of the other parts do not touch
\* its variables.
LEMMA MqttStep == MqttInv /\ [Next]_vars => MqttInv'
<1> SUFFICES ASSUME MqttInv, [Next]_vars PROVE MqttInv'
  OBVIOUS
<1> USE DEF MqttInv, Mqtt!TypeOK, Mqtt!Thread, Mqtt!Link, Mqtt!chan,
            Mqtt!user, Mqtt!net, Mqtt!MqttAssumption
<1>1. CASE UNCHANGED mqtt
  BY <1>1 DEF mqtt
<1>2. CASE Mqtt!Connect
  BY <1>2 DEF Mqtt!Connect
<1>3. CASE Mqtt!StartLoop
  BY <1>3 DEF Mqtt!StartLoop
<1>4. CASE Mqtt!NextSubscribe
  BY <1>4 DEF Mqtt!NextSubscribe
<1>5. ASSUME NEW th \in Mqtt!Thread, Mqtt!Contains(th) PROVE MqttInv'
  BY <1>5 DEF Mqtt!Contains
<1>6. ASSUME NEW th \in Mqtt!Thread, Mqtt!Ask(th) PROVE MqttInv'
  BY <1>6 DEF Mqtt!Ask
<1>7. ASSUME NEW th \in Mqtt!Thread, Mqtt!Insert(th) PROVE MqttInv'
  BY <1>7 DEF Mqtt!Insert
<1>8. CASE Mqtt!OnConnect
  BY <1>8 DEF Mqtt!OnConnect, Mqtt!Connack
<1>9. CASE Mqtt!Iterate
  BY <1>9 DEF Mqtt!Iterate
<1>10. CASE Mqtt!OnDisconnect
  BY <1>10 DEF Mqtt!OnDisconnect
<1>11. CASE Mqtt!Reconnect
  BY <1>11 DEF Mqtt!Reconnect
<1>12. ASSUME NEW t \in MqttTopic, Mqtt!Grant(t) PROVE MqttInv'
  BY <1>12 DEF Mqtt!Grant
<1>13. CASE Mqtt!Lose
  BY <1>13 DEF Mqtt!Lose
<1>14. CASE Mqtt!Done
  BY <1>14 DEF Mqtt!Done, Mqtt!vars
<1> HIDE DEF MqttInv
<1> QED
  BY <1>1, <1>2, <1>3, <1>4, <1>5, <1>6, <1>7, <1>8, <1>9, <1>10, <1>11,
     <1>12, <1>13, <1>14
     DEF Next, OfStart, OfMqtt, OfRos2, vars, Mqtt!Next

\* Until a connection is lost, subscribe_topics_ holds only topics whose
\* SUBSCRIBE was handed to the library, and on_connect does not iterate it
\* while subscribe() inserts.
THEOREM FirstSessionSafe == Spec => []FirstSession
<1>1. MqttInv => FirstSession
  BY DEF MqttInv, FirstSession, Mqtt!RaceNeedsReconnect, Mqtt!FirstSessionComplete
<1> QED
  BY <1>1, MqttStart, MqttStep, PTL DEF Spec

(***************************************************************************)
(* LogicMgr                                                                *)
(***************************************************************************)
\* A dispatch thread exists only once start() has reached join(); by then every
\* init() has returned, and a handler of a logic whose init() has returned is
\* suspended.  Only dispatch threads fill the queues of the shared awaits.
StartInv ==
  /\ Start!TypeOK
  /\ current # Start!None => main = "logic.init"
  /\ running \cap Start!Dispatcher # {} => main = "join"
  /\ main \in {"message_bus.start", "join"} => inited = Logic
  /\ \A h \in Handler : LogicOf[h] \in inited => stage[h] = "ready"
  /\ \A n \in Start!Name :
       /\ waitingFor[n] > 0 => main = "join"
       /\ waitingFor[n] + pending[n] <= pushed[n]
  /\ Start!NothingPassesAHandler
  /\ Start!FirstAwaitSuspends

\* StartInv holds in the initial states.
LEMMA StartStart == Init => StartInv
  BY DEF Init, Start!Init, StartInv, Start!TypeOK, Start!None, Start!Stage,
         Start!Dispatcher, Start!NothingPassesAHandler,
         Start!FirstAwaitSuspends, Start!StartAssumption

\* Every step of LogicMgr preserves it, and the steps of the other parts do not touch
\* its variables.
LEMMA StartStep == StartInv /\ [Next]_vars => StartInv'
<1> SUFFICES ASSUME StartInv, [Next]_vars PROVE StartInv'
  OBVIOUS
<1> USE DEF StartInv, Start!TypeOK, Start!None, Start!Stage, Start!Task,
            Start!Dispatcher, Start!NothingPassesAHandler,
            Start!FirstAwaitSuspends, Start!StartAssumption
<1>1. CASE UNCHANGED start
  BY <1>1 DEF start
<1>2. CASE Start!StartRos2 \/ Start!InitMqtt \/ Start!StartMqtt
           \/ Start!StartExecutor \/ Start!StartTimer
  BY <1>2 DEF Start!StartRos2, Start!InitMqtt, Start!StartMqtt,
              Start!StartExecutor, Start!StartTimer, Start!Step
<1>3. CASE Start!StartBus
  BY <1>3 DEF Start!StartBus, Start!Step
<1>4. ASSUME NEW l \in Logic, Start!BeginInit(l) PROVE StartInv'
  BY <1>4 DEF Start!BeginInit
<1>5. ASSUME NEW l \in Logic, Start!EndInit(l) PROVE StartInv'
  BY <1>5 DEF Start!EndInit, Start!HandlersOf
<1>6. ASSUME NEW h \in Handler, Start!CreateAwait(h) PROVE StartInv'
  BY <1>6 DEF Start!CreateAwait, Start!Name
<1>7. ASSUME NEW h \in Handler, Start!FirstAwait(h) PROVE StartInv'
  BY <1>7 DEF Start!FirstAwait, Start!Name
<1>8. CASE Start!Joined
  BY <1>8 DEF Start!Joined, Start!vars
<1>9. ASSUME NEW n \in Start!Name, Start!Subscribe(n) PROVE StartInv'
  BY <1>9 DEF Start!Subscribe
<1>10. ASSUME NEW n \in Start!Name, Start!Push(n) PROVE StartInv'
  BY <1>10 DEF Start!Push
<1>11. ASSUME NEW n \in Start!Name, Start!Dispatch(n) PROVE StartInv'
  BY <1>11 DEF Start!Dispatch, Start!DispatcherOf, Start!Awaiting
<1>12. ASSUME NEW n \in Start!Name, Start!TakeQueued(n) PROVE StartInv'
  BY <1>12 DEF Start!TakeQueued
<1> HIDE DEF StartInv
<1> QED
  BY <1>1, <1>2, <1>3, <1>4, <1>5, <1>6, <1>7, <1>8, <1>9, <1>10, <1>11,
     <1>12
     DEF Next, OfStart, OfMqtt, OfRos2, vars, Start!Next, Start!Main

\* message_bus_ is started last: no message passes a handler that does not
\* listen yet, and the first co_await of every handler suspends, whatever the
\* logics, their handlers and the order in which they are initialised.
THEOREM HandlersAreReady == Spec => []HandlersReady
<1>1. StartInv => HandlersReady
  BY DEF StartInv, HandlersReady
<1> QED
  BY <1>1, StartStart, StartStep, PTL DEF Spec
================================================================================
