SPECIFICATION Spec
CONSTANTS
  Threads = {t1, t2, t3}
  Opener = t1
  NoThread = nobody
  MaxCalls = 3
INVARIANTS
  NotSentIsTrue
  OkIsTheAnswer
PROPERTIES
  NothingSentAfterTheEnd
  CloseSettles
  RequestReturns
CHECK_DEADLOCK FALSE
