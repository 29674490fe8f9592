SPECIFICATION FairSpec
CONSTANTS
  Queue = {queue_normal, queue_high}
  Producer = {p1, p2}
  MaxPush = 2
  Nobody = Nobody
INVARIANTS SleepSound NeverResumeFinished
PROPERTIES NextPushRescues StopEndsThread
CHECK_DEADLOCK FALSE
