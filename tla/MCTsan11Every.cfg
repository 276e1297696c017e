\* One location and a mutex, every operation and order of two threads.
CONSTANTS
  main = main
  t1 = t1
  t2 = t2
  x = x
  y = y
  Tid = {main, t1}
  NoTid = NoTid
  Main = main
  Loc = {x}
  Uses <- Everything
  Fences <- AllFences
  UsesMutex = TRUE
  Creator <- NoCreator
  KeepsHistory = TRUE
  kBuffMaxSize = 0
  kNumElems = 80
  MaxTicks = 3
SPECIFICATION Spec
INVARIANTS
  TypeOK
  WriteReadCoherence
  KnowledgeIsTransitive
  ScLoadsReadLatest
CHECK_DEADLOCK FALSE
