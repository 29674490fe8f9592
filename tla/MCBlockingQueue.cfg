SPECIFICATION FairSpec
CONSTANTS
  Thread = {t1, t2, t3}
  MaxWait = 2
  MaxSignal = 2
INVARIANTS PermitsSound ElementsSound
PROPERTIES ImplementsSemaphore WaitersReturn
CHECK_DEADLOCK FALSE
