SPECIFICATION TestSpec
CONSTANTS
  SharedAwait = {s}
  NormalAwait = {m}
  OnlyShared = {o1, o2}
  Worker = {w1, w2}
  Dispatcher = {"dispatch"}
  MaxMsg = 4
  Null = Null
  Scoped = {}
  Co <- TestAwait
  Await <- TestAwait
  Name <- TestName
  RemoveTimer = "__RemoveTimer"
  Timed = {}
  TimeAwait = {}
  Owner <- TestOwner
  Kind <- TestKind
  WaitName <- TestWaitName
  Accept <- TestAccept
  Program <- TestProgram
  DispatcherOf <- TestDispatcherOf
INVARIANTS HandOverSound SharedConserved
PROPERTIES DataNotOverwritten NextMessageUnsticks NextMessageUnparks
CHECK_DEADLOCK FALSE
