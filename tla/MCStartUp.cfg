SPECIFICATION FairSpec
CONSTANTS
  Logic <- Logics
  Handler <- Handlers
  LogicOf <- LogicOfHandler
  NameOf <- NameOfHandler
  Shared <- SharedHandlers
  Source <- SourceOfName
  MaxPush = 2
  MqttTopic = {test_topic, notify}
  MaxLosses = 3
  Caller = {c1, c2}
  Ros2Topic = {mqtt2ros2, ros2_test_topic}
  Nobody = Nobody
  MayThrow = TRUE
  MaxCalls = 3
INVARIANTS HandlersReady FirstSession Ros2Consistent
PROPERTY NothingWaitsForEver
CHECK_DEADLOCK FALSE
