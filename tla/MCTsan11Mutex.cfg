\* A mutex and relaxed accesses to one location.
CONSTANTS
  main = main
  t1 = t1
  t2 = t2
  x = x
  y = y
  Tid = {main, t1, t2}
  NoTid = NoTid
  Main = main
  Loc = {x}
  Uses <- Locked
  Fences <- NoFences
  UsesMutex = TRUE
  Creator <- NoCreator
  KeepsHistory = TRUE
  kBuffMaxSize = 1
  kNumElems = 80
  MaxTicks = 5
SPECIFICATION Spec
SYMMETRY Threads
INVARIANTS
  ReadReadCoherence
CHECK_DEADLOCK FALSE
