\* The benchmarks, on every schedule and coin.
SPECIFICATION BSpec
CONSTANTS
  Tid <- Threads
  NoTid = 0
  Main = 1
  Loc = {}
  kNumElems = 8
  kBuffMaxSize = 8
  Uses <- Nothing
  Fences <- NoFences
  UsesMutex = TRUE
  Creator <- NoCreator
  KeepsHistory = FALSE
  MaxTicks = 36
  Bench <- All
INVARIANTS
  SomeThreadCanGoOn
  BarrierPassesAll
  RacesHaveCauses
  LocksExclude
  DequeHandsOut
  DequeGives
  QueuesGive
CHECK_DEADLOCK FALSE
