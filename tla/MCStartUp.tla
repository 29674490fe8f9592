------------------------------- MODULE MCStartUp -------------------------------
(***************************************************************************)
(* StartUp for TLC: SchedulerLogic with a ROS 2 and an MQTT handler; Test  *)
(* with two shared handlers of the generated message msg1, one handler of  *)
(* its own for it and one of a timer's messages; and a third logic, such   *)
(* as add_logic allows, that shares msg1.                                  *)
(***************************************************************************)
EXTENDS StartUp

Logics == {"SchedulerLogic", "Test", "Third"}
SharedHandlers == {"shared1", "shared2", "shared3"}
OwnHandlers == {"ros2_test_topic", "mqtt_test_topic", "msg1", "timer"}
Handlers == OwnHandlers \cup SharedHandlers

LogicOfHandler == [h \in Handlers |->
  IF h \in {"ros2_test_topic", "mqtt_test_topic"} THEN "SchedulerLogic"
  ELSE IF h = "shared3" THEN "Third" ELSE "Test"]

NameOfHandler ==
  [h \in Handlers |-> IF h \in SharedHandlers THEN "msg1" ELSE h]

SourceOfName == [n \in OwnHandlers |->
  CASE n = "ros2_test_topic" -> "ros2"
    [] n = "mqtt_test_topic" -> "mqtt"
    [] n = "msg1" -> "Test"
    [] n = "timer" -> "timer_mgr"]
===============================================================================
