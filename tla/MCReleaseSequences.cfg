\* Stores, RMWs and acquire loads of three threads; the VVC may fill up.
CONSTANTS
  t1 = t1
  t2 = t2
  t3 = t3
  Tid = {t1, t2, t3}
  NoTid = NoTid
  kNumElems = 3
  MaxTicks = 5
  Uses <- Sequences
SPECIFICATION Spec
SYMMETRY Threads
INVARIANTS
  SyncWithinHeads
  VvcUnderClock
  NothingLost
  DiesOnlyWhenCrowded
CHECK_DEADLOCK FALSE
