SPECIFICATION LSpec
CONSTANTS
  Tid <- Threads
  NoTid = NoTid
  Main = 1
  Loc = {"x", "y", "z"}
  kNumElems = 8
  kBuffMaxSize = 8
  Uses <- Nothing
  Fences <- NoFences
  UsesMutex = FALSE
  Creator <- NoCreator
  KeepsHistory = FALSE
  MaxTicks = 14
  Tests <- All
INVARIANTS
  RacesAreReal
  RacesAreFound
  OutcomesAllowed
CHECK_DEADLOCK FALSE
