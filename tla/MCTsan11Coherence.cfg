\* Two workers and the main thread, two locations.
CONSTANTS
  main = main
  t1 = t1
  t2 = t2
  x = x
  y = y
  Tid = {main, t1, t2}
  NoTid = NoTid
  Main = main
  Loc = {x, y}
  Uses <- MessagePassing
  Fences <- NoFences
  UsesMutex = FALSE
  Creator <- MainCreatesT2
  KeepsHistory = TRUE
  kBuffMaxSize = 0
  kNumElems = 80
  MaxTicks = 5
SPECIFICATION Spec
INVARIANTS
  WriteReadCoherence
  ReadReadCoherence
  MovingLoadsAreAttached
  BufferIsBounded
CHECK_DEADLOCK FALSE
