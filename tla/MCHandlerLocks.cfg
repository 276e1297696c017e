\* The handlers, step by step. Threads end.
SPECIFICATION FairSpec
CONSTANTS
  t1 = t1
  t2 = t2
  Tid <- TwoThreads
  Loc = {x, y}
  NoTid = NoTid
  MaxCalls <- TwiceAndOnce
INVARIANTS
  ScMutexHeld
  HandlersExclude
PROPERTIES
  HandlersAreAtomic
  SomeHandlerEnds
CHECK_DEADLOCK FALSE
