------------------------------- MODULE LogicMgr -------------------------------
(***************************************************************************)
(* The start of the program: main, LogicMgr::start, ThreadTask::start and  *)
(* the init() functions of the logics.  It composes the parts the other    *)
(* modules detail: channel, timer and generator threads push messages as   *)
(* soon as they run, the dispatch threads hand them to the awaits that     *)
(* exist at that moment, and a handler has a usable await only once its    *)
(* coroutine has been created and has suspended for the first time.        *)
(*                                                                         *)
(* A handler is a coroutine that an init() starts and that waits for one   *)
(* name with a shared await or with one of its own (normal or temporary);  *)
(* what it does with a message is the subject of AwaitProtocol.  start()   *)
(* never returns: its last call joins the dispatch threads, which only     *)
(* ~MessageBus would stop.                                                 *)
(***************************************************************************)
EXTENDS Naturals, FiniteSets

CONSTANTS
  Logic,         \* the logics main adds
  Handler,       \* their handlers
  LogicOf,       \* Handler -> Logic
  NameOf,        \* Handler -> Name, the message it awaits
  Shared,        \* handlers with a shared await; the others have their own
  Source,        \* Name -> the thread that pushes it: see Thread
  MaxPush        \* bound: messages pushed per name

Name == {NameOf[h] : h \in Handler}

\* Threads of the tasks, and one per logic for its generator threads.
Task == {"ros2", "mqtt", "co_executor", "timer_mgr"}
Dispatcher == {"dispatch", "high_priority"}

None == "none"

StartAssumption ==
  /\ LogicOf \in [Handler -> Logic] /\ Shared \subseteq Handler
  /\ Source \in [Name -> {"ros2", "mqtt", "timer_mgr"} \cup Logic]
  /\ MaxPush \in Nat /\ IsFiniteSet(Handler)
  /\ Logic \cap (Task \cup Dispatcher \cup {None}) = {}

VARIABLES
  main,        \* how far LogicMgr::start has got: the call it makes next
  current,     \* the logic whose init() runs; None in between
  inited,      \* logics whose init() has returned
  running,     \* threads that exist
  armed,       \* names that are subscribed or whose timer is set
  stage,       \* per handler: see Stage
  pending,     \* per name: messages in the bus's queue
  pushed,      \* per name: messages pushed so far
  waitingFor,  \* per name: messages in the shared awaits' own queue
  lost         \* history: handlers past which a message was dispatched

vars == <<main, current, inited, running, armed, stage, pending, pushed,
          waitingFor, lost>>

\* "none": not created; "created": its await is in the map, handle_ is null;
\* "ready": it suspended once, handle_ is set; "null": await_ready found a
\* message first, and await_resume used the null handle_.
Stage == {"none", "created", "ready", "null"}

HandlersOf(l) == {h \in Handler : LogicOf[h] = l}
Awaiting(n) == {h \in Handler : NameOf[h] = n}

Init ==
  /\ main = "ros2.start" /\ current = None /\ inited = {}
  /\ running = {} /\ armed = {}
  /\ stage = [h \in Handler |-> "none"]
  /\ pending = [n \in Name |-> 0] /\ pushed = [n \in Name |-> 0]
  /\ waitingFor = [n \in Name |-> 0] /\ lost = {}

(***************************************************************************)
(* LogicMgr::start                                                         *)
(***************************************************************************)
\* A call of main that starts the threads ths, or none, and returns.
Step(from, to, ths) ==
  /\ main = from /\ main' = to
  /\ running' = running \cup ths
  /\ UNCHANGED <<current, inited, armed, stage, pending, pushed, waitingFor,
                 lost>>

StartRos2 == Step("ros2.start", "mqtt.init", {"ros2"})
InitMqtt == Step("mqtt.init", "mqtt.start", {})
StartMqtt == Step("mqtt.start", "co_executor.start", {"mqtt"})
StartExecutor == Step("co_executor.start", "timer_mgr.start", {"co_executor"})

\* Fault: the bus is started with the other threads, before the logics.
StartTimerAndBus ==
  Step("timer_mgr.start", "logic.init", {"timer_mgr"} \cup Dispatcher)

StartTimer == Step("timer_mgr.start", "logic.init", {"timer_mgr"})

\* Fault: one of the two dispatch threads is not started.
StartBusOne == Step("message_bus.start", "join", {"high_priority"})

\* message_bus_.start(): both dispatch threads, then join() for ever.
StartBus == Step("message_bus.start", "join", Dispatcher)

\* `for (auto& [_, logic] : all_logic_) logic->init()`, in the order of an
\* unordered_map.
BeginInit(l) ==
  /\ main = "logic.init" /\ current = None /\ l \notin inited
  /\ current' = l
  /\ UNCHANGED <<main, inited, running, armed, stage, pending, pushed,
                 waitingFor, lost>>

\* SchedulerLogic::init: the channel starts to deliver a topic; the result is
\* ignored, so a topic may stay unsubscribed.
Subscribe(n) ==
  /\ current # None /\ n \notin armed
  /\ Source[n] \in {"ros2", "mqtt"}
  /\ HandlersOf(current) \cap Awaiting(n) # {}
  /\ \A h \in HandlersOf(current) : stage[h] = "none"
  /\ armed' = armed \cup {n}
  /\ UNCHANGED <<main, current, inited, running, stage, pending, pushed,
                 waitingFor, lost>>

\* A handler is called: it creates its await (and its timer), which puts it in
\* the bus's map with no handle.
CreateAwait(h) ==
  /\ current = LogicOf[h] /\ stage[h] = "none"
  /\ \A g \in Handler : stage[g] # "created"
  /\ stage' = [stage EXCEPT ![h] = "created"]
  /\ armed' = IF Source[NameOf[h]] = "timer_mgr" THEN armed \cup {NameOf[h]}
              ELSE armed
  /\ UNCHANGED <<main, current, inited, running, pending, pushed, waitingFor,
                 lost>>

\* Its first co_await.  await_ready of a shared await may find a message that
\* was queued for the name; await_resume then runs with handle_ null.  The
\* other awaits accept no message until their handle_ is set.
FirstAwait(h) ==
  /\ current = LogicOf[h] /\ stage[h] = "created"
  /\ IF h \in Shared /\ waitingFor[NameOf[h]] > 0
     THEN /\ stage' = [stage EXCEPT ![h] = "null"]
          /\ waitingFor' = [waitingFor EXCEPT ![NameOf[h]] = @ - 1]
     ELSE /\ stage' = [stage EXCEPT ![h] = "ready"]
          /\ UNCHANGED waitingFor
  /\ UNCHANGED <<main, current, inited, running, armed, pending, pushed, lost>>

\* Every handler waits; Test::init starts its generator threads and returns.
EndInit(l) ==
  /\ current = l
  /\ \A h \in HandlersOf(l) : stage[h] \in {"ready", "null"}
  /\ current' = None /\ inited' = inited \cup {l}
  /\ running' = running \cup {l}
  /\ main' = IF inited' = Logic THEN "message_bus.start" ELSE main
  /\ UNCHANGED <<armed, stage, pending, pushed, waitingFor, lost>>

(***************************************************************************)
(* The other threads                                                       *)
(***************************************************************************)
\* Ros2Channel's callback, MqttChannel::on_message, a timer, a generator.
Push(n) ==
  /\ Source[n] \in running
  /\ Source[n] \in Logic \/ n \in armed
  /\ pushed[n] < MaxPush
  /\ pushed' = [pushed EXCEPT ![n] = @ + 1]
  /\ pending' = [pending EXCEPT ![n] = @ + 1]
  /\ UNCHANGED <<main, current, inited, running, armed, stage, waitingFor, lost>>

\* Timers push to high_priority_queue_, everyone else to queue_.
DispatcherOf(n) ==
  IF Source[n] = "timer_mgr" THEN "high_priority" ELSE "dispatch"

\* dispatch_message: for a shared name it resumes a handler that is suspended,
\* or queues the message when none is (those that are ready may be running);
\* the other awaits refuse a message while handle_ is null; with no await for
\* the name it is gone.
Dispatch(n) ==
  /\ DispatcherOf(n) \in running /\ pending[n] > 0
  /\ pending' = [pending EXCEPT ![n] = @ - 1]
  /\ LET shared == {h \in Awaiting(n) \cap Shared : stage[h] # "none"}
     IN /\ \/ /\ shared # {}
              /\ waitingFor' = [waitingFor EXCEPT ![n] = @ + 1]
           \/ /\ shared # {} => \E h \in shared : stage[h] = "ready"
              /\ UNCHANGED waitingFor
        /\ lost' = lost \cup
             {h \in Awaiting(n) :
                IF h \in Shared THEN shared = {}
                ELSE stage[h] \in {"none", "created"}}
  /\ UNCHANGED <<main, current, inited, running, armed, stage, pushed>>

\* A shared handler comes back to its co_await and finds a queued message.
TakeQueued(n) ==
  /\ waitingFor[n] > 0
  /\ \E h \in Awaiting(n) \cap Shared : stage[h] = "ready"
  /\ "co_executor" \in running
  /\ waitingFor' = [waitingFor EXCEPT ![n] = @ - 1]
  /\ UNCHANGED <<main, current, inited, running, armed, stage, pending, pushed,
                 lost>>

\* start() waits in join(); the program may be idle.
Joined == main = "join" /\ UNCHANGED vars

Main ==
  \/ StartRos2 \/ InitMqtt \/ StartMqtt \/ StartExecutor \/ StartTimer
  \/ StartBus
  \/ \E l \in Logic : BeginInit(l) \/ EndInit(l)
  \/ \E h \in Handler : CreateAwait(h) \/ FirstAwait(h)

Next ==
  \/ Main \/ Joined
  \/ \E n \in Name : Subscribe(n) \/ Push(n) \/ Dispatch(n) \/ TakeQueued(n)

Spec == Init /\ [][Next]_vars

(***************************************************************************)
(* Properties                                                              *)
(***************************************************************************)
\* Types.
TypeOK ==
  /\ main \in {"ros2.start", "mqtt.init", "mqtt.start", "co_executor.start",
               "timer_mgr.start", "logic.init", "message_bus.start", "join"}
  /\ current \in Logic \cup {None} /\ inited \in SUBSET Logic
  /\ running \in SUBSET (Task \cup Dispatcher \cup Logic)
  /\ armed \in SUBSET Name /\ stage \in [Handler -> Stage]
  /\ pending \in [Name -> 0..MaxPush] /\ pushed \in [Name -> 0..MaxPush]
  /\ waitingFor \in [Name -> 0..MaxPush] /\ lost \in SUBSET Handler
  /\ \A h \in Handler :
       stage[h] = "created" => current = LogicOf[h]

\* Channels, timers and generators push while the logics are still being
\* initialised, SchedulerLogic::init subscribes before it creates its awaits,
\* and a logic's generators may feed the handlers of the next logic: still no
\* message passes a handler that does not listen yet, because message_bus_ is
\* started last.
NothingPassesAHandler == lost = {}

\* The first co_await of a handler always suspends: no message is queued for a
\* shared await before its handlers have set handle_, so await_resume never
\* dereferences a null handle.
FirstAwaitSuspends == \A h \in Handler : stage[h] # "null"

\* Messages accepted before the dispatch threads exist are dispatched too.
EarlyMessagesDispatched ==
  \A n \in Name : pending[n] > 0 ~> pending[n] = 0
===============================================================================
