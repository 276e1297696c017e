\* One location, seq_cst accesses and fences of three threads.
CONSTANTS
  main = main
  t1 = t1
  t2 = t2
  x = x
  y = y
  Tid = {main, t1, t2}
  NoTid = NoTid
  Main = main
  Loc = {x}
  Uses <- ScAccesses
  Fences <- ScFences
  UsesMutex = FALSE
  Creator <- NoCreator
  KeepsHistory = TRUE
  kBuffMaxSize = 1
  kNumElems = 80
  MaxTicks = 4
SPECIFICATION Spec
INVARIANTS
  ScFencesOrderReads
  ScLoadsReadLatest
  ScLoadsSkipPast
CHECK_DEADLOCK FALSE
