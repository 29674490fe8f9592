SPECIFICATION Spec
CONSTANTS
  handle_mqtt_test_topic = handle_mqtt_test_topic
  generate_msg3 = generate_msg3
  co_handle_remove_timer = co_handle_remove_timer
  mqtt_await = mqtt_await
  notify_await = notify_await
  time_await = time_await
  remove_await = remove_await
  Worker = {w1, w2}
  Dispatcher = {"dispatch", "high"}
  MaxMsg = 2
  Null = Null
  Scoped = {notify_await}
  Timed = {notify_await}
  TimeAwait = {time_await}
  RemoveTimer = "__RemoveTimer"
  Co <- SchedulerCo
  Await <- SchedulerAwait
  Name <- SchedulerName
  Owner <- SchedulerOwner
  Kind <- SchedulerKind
  WaitName <- SchedulerWaitName
  Accept <- SchedulerAccept
  Program <- SchedulerProgram
  DispatcherOf <- SchedulerDispatcherOf
INVARIANTS NoDoubleResume NormalInOrder OnlyLiveAwaits
CHECK_DEADLOCK FALSE
