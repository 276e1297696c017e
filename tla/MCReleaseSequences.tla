------------------------- MODULE MCReleaseSequences -------------------------
\* Model values and bounds for ReleaseSequences.
EXTENDS ReleaseSequences, TLC

CONSTANTS t1, t2, t3

\* No action names a thread: the threads are interchangeable.
Threads == Permutations(Tid)

\* Release sequences proper: stores, RMWs and acquire loads, no fences.
Sequences ==
  [load |-> {"acquire"}, store |-> {"relaxed", "release"},
   rmw |-> {"acquire", "release", "acq_rel"},
   cas |-> {}, casfail |-> {}, fence |-> {}]

\* Everything, with every order the handler accepts.
Everything ==
  [load |-> LoadOrder, store |-> StoreOrder, rmw |-> Order,
   cas |-> {"relaxed"}, casfail |-> LoadOrder, fence |-> Order]

\* Accesses that leave it to acq_rel fences to synchronise.
AcqRelFences ==
  [load |-> {"relaxed"}, store |-> {"relaxed"}, rmw |-> {}, cas |-> {},
   casfail |-> {}, fence |-> {"acq_rel"}]
=============================================================================
