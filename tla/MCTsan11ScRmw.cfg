\* A seq_cst read-modify-write of a released store.
CONSTANTS
  main = main
  t1 = t1
  t2 = t2
  x = x
  y = y
  Tid = {main, t1, t2}
  NoTid = NoTid
  Main = main
  Loc = {x}
  Uses <- ScRmw
  Fences <- NoFences
  UsesMutex = FALSE
  Creator <- NoCreator
  KeepsHistory = TRUE
  kBuffMaxSize = 1
  kNumElems = 80
  MaxTicks = 4
SPECIFICATION Spec
INVARIANT
  ScLoadsSkipPast
CHECK_DEADLOCK FALSE
