SPECIFICATION FairSpec
CONSTANTS
  Loops = 1
  MaxMqtt = 2
  MaxNotify = 1
  MaxTick = 1
INVARIANTS TimersTracked OwnTimerKept
PROPERTIES TimedWaitEnds TicksKeepComing
CHECK_DEADLOCK FALSE
