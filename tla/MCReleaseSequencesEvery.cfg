\* Every operation and memory order of three threads.
CONSTANTS
  t1 = t1
  t2 = t2
  t3 = t3
  Tid = {t1, t2, t3}
  NoTid = NoTid
  kNumElems = 4
  MaxTicks = 3
  Uses <- Everything
SPECIFICATION Spec
SYMMETRY Threads
INVARIANTS
  TypeOK
  SyncWithinHeads
  OwnSequences
  NothingLost
  NoFutureEpoch
PROPERTIES
  LearnsOnlyCpp11
CHECK_DEADLOCK FALSE
