--------------------------- MODULE MCAwaitScheduler ---------------------------
(***************************************************************************)
(* AwaitProtocol on SchedulerLogic::handle_mqtt_test_topic, a coroutine    *)
(* that waits for "platform/mqtt_test_topic" with an await built before    *)
(* its loop and then, in each iteration, for "platform/notify" with a temp *)
(* await that is built and destroyed in the loop body, has a timeout, and  *)
(* whose filter refuses some messages; TimerMgr's co_handle_remove_timer,  *)
(* which receives the cancellations; and a coroutine on a                  *)
(* create_time_await (as Test::generate_msg3), whose messages come through *)
(* the high-priority queue and the second dispatch thread.                 *)
(***************************************************************************)
EXTENDS AwaitProtocol

CONSTANTS
  handle_mqtt_test_topic, generate_msg3, co_handle_remove_timer,  \* coroutines
  mqtt_await, notify_await, time_await, remove_await              \* awaits

SchedulerCo == {handle_mqtt_test_topic, generate_msg3, co_handle_remove_timer}
SchedulerAwait == {mqtt_await, notify_await, time_await, remove_await}
SchedulerName == {"mqtt_test_topic", "notify", "__T-1", "__RemoveTimer"}
SchedulerOwner ==
  [a \in SchedulerAwait |-> CASE a = time_await -> generate_msg3
                              [] a = remove_await -> co_handle_remove_timer
                              [] OTHER -> handle_mqtt_test_topic]
SchedulerKind ==
  [a \in SchedulerAwait |-> IF a \in {mqtt_await, remove_await} THEN "Normal" ELSE "Temp"]
SchedulerWaitName ==
  [a \in SchedulerAwait |-> CASE a = mqtt_await -> "mqtt_test_topic"
                              [] a = notify_await -> "notify"
                              [] a = time_await -> "__T-1"
                              [] a = remove_await -> "__RemoveTimer"]
\* The even messages named "notify" are timeouts or say "112"; the filter of
\* notify_await refuses the others.
SchedulerAccept ==
  [a \in SchedulerAwait |-> {i \in 1..MaxMsg : a = notify_await => i % 2 = 0}]
SchedulerProgram ==
  [c \in SchedulerCo |-> CASE c = generate_msg3 -> <<time_await>>
                           [] c = co_handle_remove_timer -> <<remove_await>>
                           [] OTHER -> <<mqtt_await, notify_await>>]
SchedulerDispatcherOf ==
  [n \in SchedulerName |-> IF n = "__T-1" THEN "high" ELSE "dispatch"]
===============================================================================
