\* Relaxed accesses and acq_rel fences.
CONSTANTS
  t1 = t1
  t2 = t2
  t3 = t3
  Tid = {t1, t2}
  NoTid = NoTid
  kNumElems = 4
  MaxTicks = 3
  Uses <- AcqRelFences
SPECIFICATION Spec
SYMMETRY Threads
PROPERTIES
  AcqRelFenceAcquires
CHECK_DEADLOCK FALSE
