SPECIFICATION FairSpec
CONSTANTS
  Worker = {w1, w2, w3}
  Priority = {0, 10}
  MaxPush = 3
INVARIANT WakeUpsSound
PROPERTIES ImplementsService EveryResumeRuns StopEndsWorkers
CHECK_DEADLOCK FALSE
