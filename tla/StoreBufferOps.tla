--------------------------- MODULE StoreBufferOps ---------------------------
(***************************************************************************)
(* The StoreBuffer of an atomic location (tsan_relaxed.cc): the earlier    *)
(* stores a load may still read, and the loads that keep later ones from   *)
(* reading backwards. A store is named by its position in modification     *)
(* order, counted from 1 for the initial value.                            *)
(*                                                                         *)
(*   stores  the StoreElems by pos_; a window of consecutive positions     *)
(*   last    last_pos_; the latest store, whose value is in memory and not *)
(*           in the buffer, has position last + 1, the end                 *)
(*   prev    prev_tid_, prev_epoch_ and prev_is_sc_access_ of the latest   *)
(*   pos     pos_[t], the earliest position t may read                     *)
(*   loads   the LoadElems, each at the position its store_ has            *)
(*   active  loads_[t], the load of t that still moves; NoLoad is null     *)
(*                                                                         *)
(* th holds the fields of the calling thread's ThreadState: tid, epoch,    *)
(* clock, lastRelease, slimit, swrite and sread. data is what a StoreElem  *)
(* carries for its readers (value_ and clock_).                            *)
(***************************************************************************)
EXTENDS Clocks, FiniteSetsExt

CONSTANTS Main, kBuffMaxSize

ASSUME MainAssumption == Main \in Tid
ASSUME BuffAssumption == kBuffMaxSize \in Nat

NoLoad == [at |-> 0, epoch |-> 0]

\* StoreBuffer::Reset: the initial value counts as a store of thread 0 that
\* happened before everything.
EmptyBuffer ==
  [stores |-> [p \in {} |-> 0],
   last   |-> 0,
   prev   |-> [tid |-> Main, epoch |-> 0, sc |-> FALSE],
   pos    |-> [t \in Tid |-> 0],
   loads  |-> {},
   active |-> [t \in Tid |-> NoLoad]]

End(b) == b.last + 1

\* The load of t that moves when t loads again, as one of the loads.
ActiveLoad(b, t) == [at |-> b.active[t].at, tid |-> t, epoch |-> b.active[t].epoch]

\* Mutant of Commit: the load moves on after a release.
CommitNever(b, th) == b

\* A release of t on some object came after its active load: the load stays
\* where it is and moves no more.
Commit(b, th) ==
  IF b.active[th.tid] # NoLoad /\ th.lastRelease > b.active[th.tid].epoch
  THEN [b EXCEPT !.active[th.tid] = NoLoad]
  ELSE b

\* RemoveLoadFromList of the active load.
DropActive(b, t) ==
  [b EXCEPT !.loads = @ \ {ActiveLoad(b, t)}, !.active[t] = NoLoad]

\* AddLoadToList: the active load of th is now at position p.
PlaceLoad(b, th, p) ==
  [b EXCEPT !.loads = @ \cup {[at |-> p, tid |-> th.tid, epoch |-> th.epoch]},
            !.active[th.tid] = [at |-> p, epoch |-> th.epoch]]

\* Mutant of Evict: loads_ keeps pointing at the freed loads.
EvictLeavesActive(b) ==
  IF DOMAIN b.stores # {} /\ b.last - Min(DOMAIN b.stores) > kBuffMaxSize
  THEN LET front == Min(DOMAIN b.stores)
       IN  [b EXCEPT !.stores = [p \in (front + 1)..b.last |-> b.stores[p]],
                     !.loads = {l \in @ : l.at # front}]
  ELSE b

\* Mutant of Evict: the cap is never enforced.
EvictNever(b) == b

\* The buffer is over its cap: the front store and its loads fall off.
Evict(b) ==
  IF DOMAIN b.stores # {} /\ b.last - Min(DOMAIN b.stores) > kBuffMaxSize
  THEN LET front == Min(DOMAIN b.stores)
       IN  [b EXCEPT !.stores = [p \in (front + 1)..b.last |-> b.stores[p]],
                     !.loads = {l \in @ : l.at # front},
                     !.active = [t \in Tid |->
                                   IF b.active[t].at = front THEN NoLoad
                                                             ELSE b.active[t]]]
  ELSE b

\* Mutant of Marks: SC stores mark nothing.
MarksNothing(th, e, isSc) == FALSE

\* An SC store of th marks the buffered store e SC if it happens before it.
Marks(th, e, isSc) == isSc /\ th.clock[e.tid] >= e.epoch

\* The latest store enters the buffer, and th's store takes its place.
Push(b, th, data, isSc) ==
  LET elem == [tid |-> b.prev.tid, epoch |-> b.prev.epoch, sc |-> b.prev.sc,
               data |-> data]
      all  == [p \in DOMAIN b.stores \cup {End(b)} |->
                 IF p = End(b) THEN elem ELSE b.stores[p]]
      Marked(e) == [e EXCEPT !.sc = @ \/ Marks(th, e, isSc)]
  IN  [b EXCEPT !.stores = [p \in DOMAIN all |-> Marked(all[p])],
                !.last = @ + 1,
                !.prev = [tid |-> th.tid, epoch |-> th.epoch, sc |-> isSc],
                !.pos[th.tid] = End(b) + 1]

\* Mutant of BufferStore: th may go on reading what it read before.
BufferStoreKeepsPosition(b, th, data, isSc) ==
  [DropActive(Commit(Push(Evict(b), th, data, isSc), th), th.tid) EXCEPT !.pos = b.pos]

\* BufferStore: th is about to store. Its active load, if not committed, is
\* dropped: the store says more.
BufferStore(b, th, data, isSc) ==
  DropActive(Commit(Push(Evict(b), th, data, isSc), th), th.tid)

\* Mutant of Bounds: only SC fences bound.
BoundsByFencesOnly(th, e, isSc) ==
  \/ th.slimit[e.tid] >= e.epoch
  \/ e.sc /\ th.swrite[e.tid] >= e.epoch
  \/ isSc /\ th.sread[e.tid] >= e.epoch

\* Mutant of Bounds: SC stores before an SC fence are forgotten.
BoundsWithoutSwrite(th, e, isSc) ==
  \/ th.clock[e.tid] >= e.epoch
  \/ th.slimit[e.tid] >= e.epoch
  \/ isSc /\ th.sread[e.tid] >= e.epoch

\* A store e that th must not read past: it happens before th, or SC fences
\* order it before th's reads (or before its SC reads).
Bounds(th, e, isSc) ==
  \/ th.clock[e.tid] >= e.epoch
  \/ th.slimit[e.tid] >= e.epoch
  \/ e.sc /\ th.swrite[e.tid] >= e.epoch
  \/ isSc /\ th.sread[e.tid] >= e.epoch

\* A load that happens before th read the store at position p.
LoadBefore(b, th, p) ==
  \E l \in b.loads : l.at = p /\ th.clock[l.tid] > l.epoch

\* The earliest position th may read: the latest store that bounds it, or
\* where it read last.
Limit(b, th, isSc) ==
  LET window == {p \in DOMAIN b.stores : p >= b.pos[th.tid]}
      hard   == {p \in window : Bounds(th, b.stores[p], isSc) \/ LoadBefore(b, th, p)}
  IN  IF window = {} \/ Bounds(th, b.prev, isSc) \/ LoadBefore(b, th, End(b)) THEN End(b)
      ELSE IF hard # {} THEN Max(hard) ELSE Min(window)

\* Nothing but the latest store to read: no store is buffered, or the active
\* load already is at the end, where it stays until the next store.
AtEnd(b, t) == DOMAIN b.stores = {} \/ b.active[t].at = End(b)

\* The buffer as FetchStore scans it, the moving load taken out.
Scanned(b, th) == DropActive(Commit(b, th), th.tid)

\* Mutant of Skipped: the latest store is not looked at.
SkippedIgnoringEnd(b, window, p) ==
  LET sc == {q \in window : b.stores[q].sc}
  IN  p \in sc /\ p # Max(sc)

\* An SC load that may read the positions of window skips p: it is marked SC,
\* and a later SC store (perhaps the latest store of all) is in reach.
Skipped(b, window, p) ==
  LET sc == {q \in window : b.stores[q].sc}
  IN  p \in sc /\ (b.prev.sc \/ p # Max(sc))

\* The positions FetchStore may return (the end stands for "not buffered"):
\* from the limit on, each one the coin of rdtsc may stop at. An SC load
\* skips every store marked SC but the last.
Readable(b, th, isSc) ==
  IF AtEnd(b, th.tid)
  THEN {End(b)}
  ELSE LET window == Limit(Scanned(b, th), th, isSc)..b.last
       IN  {p \in window : ~(isSc /\ Skipped(b, window, p))} \cup {End(b)}

\* The buffer after FetchStore returned position p.
FetchStore(b, th, p) ==
  IF AtEnd(b, th.tid)
  THEN b
  ELSE PlaceLoad([Scanned(b, th) EXCEPT !.pos[th.tid] = p], th, p)

\* Mutant of AdvanceToEnd: one past the end.
AdvancePastEnd(b, th) == [b EXCEPT !.pos[th.tid] = End(b) + 1]

\* A failed CAS read the latest store.
AdvanceToEnd(b, th) ==
  LET e == [b EXCEPT !.pos[th.tid] = End(b)]
  IN  IF b.active[th.tid].at = End(b) THEN e
                                      ELSE PlaceLoad(Scanned(e, th), th, End(b))
=============================================================================
