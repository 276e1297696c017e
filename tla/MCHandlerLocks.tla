--------------------------- MODULE MCHandlerLocks ---------------------------
\* Bounds for HandlerLocks: one thread calls twice, the other once.
EXTENDS HandlerLocks

CONSTANTS t1, t2
TwoThreads == {t1, t2}
TwiceAndOnce == [t \in TwoThreads |-> IF t = t1 THEN 2 ELSE 1]
=============================================================================
