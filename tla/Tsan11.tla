------------------------------- MODULE Tsan11 -------------------------------
(***************************************************************************)
(* The patched runtime at work: threads run the atomic handlers of         *)
(* tsan_interface_atomic.cc on a few locations, each with its SyncClock    *)
(* and its StoreBuffer, issue fences, and may synchronise through a mutex  *)
(* or by creating and joining threads. A handler runs under the lock of    *)
(* its location (and, when seq_cst, under ctx->Smtx), so each is one       *)
(* action; module HandlerLocks shows why. A store is known by its position *)
(* in the modification order of its location; values are left out.         *)
(***************************************************************************)
EXTENDS StoreBufferOps, SyncClockOps, MemoryOrders, Sequences

CONSTANTS
  Loc,       \* the atomic locations
  Uses,      \* the memory orders of each thread's operations on each location
  Fences,    \* the memory orders of each thread's fences
  UsesMutex, \* BOOLEAN: whether the program has a mutex
  Creator,   \* the thread that creates each thread; NoTid: runs from the start
  MaxTicks,  \* bound: how many ticks of the threads' epochs are explored
  KeepsHistory \* BOOLEAN: whether hist is recorded

ASSUME LocUsesAssumption ==
  Uses \in [Tid \X Loc -> [{"load", "store", "rmw", "cas", "casfail"} -> SUBSET Order]]
ASSUME FencesAssumption == Fences \in [Tid -> SUBSET Order] /\ UsesMutex \in BOOLEAN
ASSUME CreatorAssumption == Creator \in [Tid -> Tid \cup {NoTid}]
ASSUME TicksAssumption == MaxTicks \in Nat /\ KeepsHistory \in BOOLEAN

VARIABLES
  thr,   \* the ThreadStates
  ctx,   \* Sfence and Swrite of the Context
  loc,   \* the SyncVars: SyncClock and StoreBuffer
  mutex, \* the mutex: its clock and the thread that holds it
  ticks, \* how many times an epoch was incremented, for MaxTicks
  hist   \* history, see below

vars == <<thr, ctx, loc, mutex, ticks, hist>>

(***************************************************************************)
(* History, from which the properties are stated:                          *)
(*   view[t][x]    what t's past did at x: the latest store it read or     *)
(*                 wrote (seen) and the stores it made (wrote)             *)
(*   past[t][e]    t's view when it reached epoch e, and the clock it then *)
(*                 published: a clock that knows epoch e of t stands for   *)
(*                 knowing all of it                                       *)
(*   own[t][x]     the latest store of t itself to x                       *)
(*   fenced[x]     the latest store to x sequenced before some SC fence    *)
(*   floor[t][x]   the latest store to x that SC fences order before t     *)
(*   sc[x]         the SC stores to x                                      *)
(*   scPast[x]     the stores that happen before the latest of them        *)
(***************************************************************************)
FirstView == [x \in Loc |-> [seen |-> 1, wrote |-> {1}]]

\* status: a ThreadContext is created, runs, finishes and is joined.
FirstThread(t, status) ==
  [tid |-> t, status |-> status, epoch |-> 1, clock |-> [Zero EXCEPT ![t] = 1],
   lastRelease |-> 0, frel |-> Zero, facq |-> Zero,
   slimit |-> Zero, swrite |-> Zero, sread |-> Zero]

Recorded(h) == IF KeepsHistory THEN h ELSE hist

NoHistory ==
  [view |-> [t \in Tid |-> FirstView],
   past |-> [t \in Tid |-> << [view |-> FirstView, clock |-> [Zero EXCEPT ![t] = 1]] >>],
   own |-> [t \in Tid |-> [x \in Loc |-> 0]],
   fenced |-> [x \in Loc |-> 0],
   floor |-> [t \in Tid |-> [x \in Loc |-> 0]],
   sc |-> [x \in Loc |-> {}],
   scPast |-> [x \in Loc |-> {}]]

\* The program has the locations of S.
InitWith(S) ==
  /\ thr = [t \in Tid |-> FirstThread(t, IF Creator[t] = NoTid THEN "running" ELSE "invalid")]
  /\ ctx = [sfence |-> Zero, swrite |-> Zero]
  /\ loc = [x \in S |-> [sync |-> Reset, buf |-> EmptyBuffer]]
  /\ mutex = [clk |-> Zero, holder |-> NoTid]
  /\ ticks = 0
  /\ hist = IF KeepsHistory THEN NoHistory ELSE <<>>

Init == InitWith(Loc)

-----------------------------------------------------------------------------
(* What the handlers do to a ThreadState. *)

\* thr->fast_state.IncrementEpoch()
Ticked(th) == [th EXCEPT !.epoch = @ + 1]

\* thr->clock.set(thr->fast_state.epoch())
Stamped(th) == [th EXCEPT !.clock[th.tid] = th.epoch]

\* AcquireImpl and NonAcquireLoadImpl, from a clock c.
Acquire(th, c) == [Stamped(th) EXCEPT !.clock = Join(@, c)]
NonAcquireLoad(th, c) == [Stamped(th) EXCEPT !.facq = Join(@, c)]

SCRead(th) == [th EXCEPT !.sread = Join(@, ctx.sfence)]

\* last_release, once an operation with order mo is done.
Released(th, mo) == IF IsReleaseOrder(mo) THEN [th EXCEPT !.lastRelease = th.epoch]
                                          ELSE th

\* SCWrite sets ctx->Swrite to the epoch of the stamped thread.
ScWritten(th, mo) ==
  IF mo = "seq_cst" THEN [ctx EXCEPT !.swrite[th.tid] = th.epoch] ELSE ctx

-----------------------------------------------------------------------------
(* What the history records of them. *)

Tick == ticks < MaxTicks /\ ticks' = ticks + 1

Later(p, q) == IF p >= q THEN p ELSE q

\* What a thread with view v has in its past once its clock is c.
Learn(v, c) ==
  LET knows == {u \in Tid : c[u] \in DOMAIN hist.past[u]}
      Known(x) == {v[x]} \cup {hist.past[u][c[u]].view[x] : u \in knows}
  IN  [x \in Loc |-> [seen |-> Max({k.seen : k \in Known(x)}),
                      wrote |-> UNION {k.wrote : k \in Known(x)}]]

\* The thread th reached its epoch with view v, and publishes its clock.
Publish(h, th, v) ==
  [h EXCEPT !.view[th.tid] = v,
            !.past[th.tid] = Append(@, [view |-> v, clock |-> th.clock])]

\* The view of th once it read position p of x.
ReadView(th, x, p) ==
  [Learn(hist.view[th.tid], th.clock) EXCEPT ![x].seen = Later(@, p)]

\* th stored at position p of x.
HistStore(th, x, p, mo) ==
  LET v == Learn(hist.view[th.tid], th.clock)
      h == Publish(hist, th, [v EXCEPT ![x] = [seen |-> p, wrote |-> @.wrote \cup {p}]])
  IN  IF mo = "seq_cst"
      THEN [h EXCEPT !.own[th.tid][x] = p, !.sc[x] = @ \cup {p}, !.scPast[x] = v[x].wrote]
      ELSE [h EXCEPT !.own[th.tid][x] = p]

-----------------------------------------------------------------------------

\* The SC side of an order: what a load does first, under ctx->Smtx.
ScReads(th, mo) == IF mo = "seq_cst" THEN SCRead(th) ELSE th

\* What the next load of x by t, with order mo, may read.
NextReads(t, x, mo) == Readable(loc[x].buf, ScReads(thr[t], mo), mo = "seq_cst")

\* The clock that comes with position p of x: the copy in its StoreElem, or
\* the location's own.
ClockAt(x, p) == IF p = End(loc[x].buf) THEN loc[x].sync.clk ELSE loc[x].buf.stores[p].data

\* AtomicLoad, when FetchStore returns the store at position p.
LoadAt(t, x, mo, p) ==
  LET th == ScReads(thr[t], mo)
      done == IF IsAcquireOrder(mo) THEN Acquire(th, ClockAt(x, p))
                                    ELSE NonAcquireLoad(th, ClockAt(x, p))
  IN  /\ IsLoadOrder(mo)
      /\ p \in NextReads(t, x, mo)
      /\ thr' = [thr EXCEPT ![t] = done]
      /\ loc' = [loc EXCEPT ![x].buf = FetchStore(@, th, p)]
      /\ hist' = Recorded([hist EXCEPT !.view[t] = ReadView(done, x, p)])
      /\ UNCHANGED <<ctx, mutex, ticks>>

Load(t, x, mo) == \E p \in NextReads(t, x, mo) : LoadAt(t, x, mo, p)

\* The buffer of x once th stored to it with order mo.
Buffered(x, th, mo) == BufferStore(loc[x].buf, th, loc[x].sync.clk, mo = "seq_cst")

\* AtomicStore.
Store(t, x, mo) ==
  LET th == Stamped(Ticked(thr[t]))
      sync == IF IsReleaseOrder(mo)
              THEN ReleaseStore(t, th.clock)
              ELSE NonReleaseStore2(NonReleaseStore(loc[x].sync, t), t, th.frel)
  IN  /\ IsStoreOrder(mo)
      /\ Tick
      /\ thr' = [thr EXCEPT ![t] = Released(th, mo)]
      /\ ctx' = ScWritten(th, mo)
      /\ loc' = [loc EXCEPT ![x] = [sync |-> sync, buf |-> Buffered(x, th, mo)]]
      /\ hist' = Recorded(HistStore(th, x, End(loc[x].buf) + 1, mo))
      /\ UNCHANGED mutex

\* AtomicRMW, and AtomicCAS that succeeds with an order other than relaxed. A
\* full VVC ends the program here (module ReleaseSequences).
Rmw(t, x, mo, keep) ==
  LET th == ScReads(Stamped(Ticked(thr[t])), mo)
      sync == loc[x].sync
      done == IF IsAcquireOrder(mo) THEN Acquire(th, sync.clk) ELSE NonAcquireLoad(th, sync.clk)
  IN  /\ Tick
      /\ ~RmwDies(sync, t, IsReleaseOrder(mo))
      /\ thr' = [thr EXCEPT ![t] = Released(done, mo)]
      /\ ctx' = ScWritten(th, mo)
      /\ loc' = [loc EXCEPT ![x] =
                   [sync |-> RmwSync(sync, t, done.clock, th.frel, IsReleaseOrder(mo), keep),
                    buf |-> Buffered(x, th, mo)]]
      /\ hist' = Recorded(HistStore(done, x, End(loc[x].buf) + 1, mo))
      /\ UNCHANGED mutex

\* AtomicCAS that succeeds with mo_relaxed: RMWImpl is skipped, and with it
\* the stamp of t's clock.
CasRelaxed(t, x) ==
  LET th == Ticked(thr[t])
  IN  /\ Tick
      /\ thr' = [thr EXCEPT ![t] = th]
      /\ loc' = [loc EXCEPT ![x].buf = Buffered(x, th, "relaxed")]
      /\ hist' = Recorded(HistStore(th, x, End(loc[x].buf) + 1, "relaxed"))
      /\ UNCHANGED <<ctx, mutex>>

\* AtomicCAS that fails: t saw the latest store, with order fmo.
CasFail(t, x, fmo) ==
  LET th == ScReads(Ticked(thr[t]), fmo)
      done == IF IsAcquireOrder(fmo) THEN Acquire(th, loc[x].sync.clk) ELSE th
  IN  /\ Tick
      /\ thr' = [thr EXCEPT ![t] = done]
      /\ loc' = [loc EXCEPT ![x].buf = AdvanceToEnd(@, th)]
      /\ hist' = Recorded(Publish(hist, done, ReadView(done, x, End(loc[x].buf))))
      /\ UNCHANGED <<ctx, mutex>>

\* SCFence, in the thread and in the history.
SCFence(th, sfence) ==
  [th EXCEPT !.slimit = Join(@, sfence), !.swrite = Join(@, ctx.swrite)]

HistFence(h, t) ==
  LET fenced == [x \in Loc |-> Later(h.fenced[x], h.own[t][x])]
  IN  [h EXCEPT !.fenced = fenced,
                !.floor[t] = [x \in Loc |-> Max({@[x], fenced[x]} \cup h.sc[x])]]

\* AtomicFence: SCFence, then FenceImpl, the release side first.
Fence(t, mo) ==
  LET isSc == mo = "seq_cst"
      th == Released(Stamped(Ticked(thr[t])), mo)
      sfence == IF isSc THEN [ctx.sfence EXCEPT ![t] = th.epoch] ELSE ctx.sfence
      sc == IF isSc THEN SCFence(th, sfence) ELSE th
      rel == IF IsReleaseOrder(mo) THEN [sc EXCEPT !.frel = Join(@, sc.clock)] ELSE sc
      acq == IF IsLoadOrder(mo) THEN Acquire(rel, rel.facq) ELSE rel
      h == Publish(hist, th, hist.view[t])
  IN  /\ mo # "relaxed"
      /\ Tick
      /\ thr' = [thr EXCEPT ![t] = acq]
      /\ ctx' = [ctx EXCEPT !.sfence = sfence]
      /\ hist' = Recorded([IF isSc THEN HistFence(h, t) ELSE h
                             EXCEPT !.view[t] = Learn(@, acq.clock)])
      /\ UNCHANGED <<loc, mutex>>

\* MutexLock: t acquires the mutex's clock.
Lock(t) ==
  LET th == Acquire(Ticked(thr[t]), mutex.clk)
  IN  /\ UsesMutex /\ mutex.holder = NoTid
      /\ Tick
      /\ thr' = [thr EXCEPT ![t] = th]
      /\ mutex' = [mutex EXCEPT !.holder = t]
      /\ hist' = Recorded(Publish(hist, th, Learn(hist.view[t], th.clock)))
      /\ UNCHANGED <<ctx, loc>>

\* MutexUnlock: the mutex's clock becomes t's. last_release stays.
Unlock(t) ==
  LET th == Stamped(Ticked(thr[t]))
  IN  /\ mutex.holder = t
      /\ Tick
      /\ thr' = [thr EXCEPT ![t] = th]
      /\ mutex' = [clk |-> th.clock, holder |-> NoTid]
      /\ hist' = Recorded(Publish(hist, th, hist.view[t]))
      /\ UNCHANGED <<ctx, loc>>

\* OnCreated, where t releases to u's ThreadContext, and OnStarted, where u
\* acquires into a new ThreadState. Neither is a release to the buffers.
Create(t, u) ==
  LET th == Stamped(Ticked(thr[t]))
      new == Acquire(FirstThread(u, "running"), th.clock)
      h == Publish(hist, th, hist.view[t])
  IN  /\ Creator[u] = t /\ thr[u].status = "invalid"
      /\ Tick
      /\ thr' = [thr EXCEPT ![t] = th, ![u] = new]
      /\ hist' = Recorded([h EXCEPT !.view[u] = h.view[t],
                                    !.past[u] = << [view |-> h.view[t], clock |-> new.clock] >>])
      /\ UNCHANGED <<ctx, loc, mutex>>

\* OnFinished: t releases to its ThreadContext for the last time.
Finish(t) ==
  LET th == [Stamped(Ticked(thr[t])) EXCEPT !.status = "finished"]
  IN  /\ mutex.holder # t
      /\ Tick
      /\ thr' = [thr EXCEPT ![t] = th]
      /\ hist' = Recorded(Publish(hist, th, hist.view[t]))
      /\ UNCHANGED <<ctx, loc, mutex>>

\* OnJoined: t acquires what u released when it finished.
ThreadJoin(t, u) ==
  LET th == Acquire(thr[t], thr[u].clock)
  IN  /\ thr[u].status = "finished"
      /\ thr' = [thr EXCEPT ![t] = th, ![u].status = "dead"]
      /\ hist' = Recorded([hist EXCEPT !.view[t] = Learn(@, th.clock)])
      /\ UNCHANGED <<ctx, loc, mutex, ticks>>

Running == {t \in Tid : thr[t].status = "running"}

Next ==
  \E t \in Running :
    \/ \E x \in Loc :
         \/ \E mo \in Uses[<<t, x>>].load : Load(t, x, mo)
         \/ \E mo \in Uses[<<t, x>>].store : Store(t, x, mo)
         \/ \E mo \in Uses[<<t, x>>].rmw, keep \in BOOLEAN : Rmw(t, x, mo, keep)
         \/ \E mo \in Uses[<<t, x>>].cas : mo = "relaxed" /\ CasRelaxed(t, x)
         \/ \E mo \in Uses[<<t, x>>].casfail : CasFail(t, x, mo)
    \/ \E mo \in Fences[t] : Fence(t, mo)
    \/ Lock(t)
    \/ Unlock(t)
    \/ \E u \in Tid : Create(t, u) \/ ThreadJoin(t, u)
    \/ Creator[t] # NoTid /\ Finish(t)

Spec == Init /\ [][Next]_vars

-----------------------------------------------------------------------------

\* Types of the state: clocks everywhere, loads and stores at positions of
\* the window that the buffer still holds.
TypeOK ==
  /\ \A t \in Tid :
       /\ thr[t].tid = t
       /\ thr[t].status \in {"invalid", "running", "finished", "dead"}
       /\ {thr[t].epoch, thr[t].lastRelease} \subseteq Nat
       /\ {thr[t].clock, thr[t].frel, thr[t].facq,
           thr[t].slimit, thr[t].swrite, thr[t].sread} \subseteq Clock
  /\ {ctx.sfence, ctx.swrite, mutex.clk} \subseteq Clock
  /\ mutex.holder \in Tid \cup {NoTid}
  /\ \A x \in Loc : LET b == loc[x].buf IN
       /\ IsSyncClock(loc[x].sync)
       /\ b.last \in Nat
       /\ DOMAIN b.stores = (b.last + 1 - Cardinality(DOMAIN b.stores))..b.last
       /\ \A p \in DOMAIN b.stores :
            /\ b.stores[p].data \in Clock
            /\ b.stores[p].tid \in Tid /\ b.stores[p].sc \in BOOLEAN
       /\ b.pos \in [Tid -> 0..End(b)]
       /\ \A l \in b.loads : l.at \in DOMAIN b.stores \cup {End(b)}

\* The next load of each thread, location and order, and what it may read.
NextLoads ==
  UNION {{[tid |-> t, loc |-> x, mo |-> mo, reads |-> NextReads(t, x, mo)] :
            mo \in Uses[<<t, x>>].load} : t \in Tid, x \in Loc}

\* CoWR: no load reads a store that precedes one its past made, however the
\* thread came to know of it (limit and pos_ in FetchStore).
WriteReadCoherence ==
  \A l \in NextLoads : \A p \in l.reads, w \in hist.view[l.tid][l.loc].wrote : p >= w

\* CoRR: no load reads a store that precedes one its past read or made: the
\* LoadElems, moved, frozen, committed and dropped, bound every thread the
\* reader released to.
ReadReadCoherence ==
  \A l \in NextLoads : \A p \in l.reads : p >= hist.view[l.tid][l.loc].seen

\* What a clock knows of a thread's epoch comes with all the thread knew when
\* it published that epoch. Each of copying, joining, overwriting and
\* collapsing a SyncClock, a fence's clock or a StoreElem's copy keeps that.
KnowledgeIsTransitive ==
  LET Closed(c) == \A u \in Tid : c[u] \in DOMAIN hist.past[u]
                                     => Leq(hist.past[u][c[u]].clock, c)
  IN  /\ \A t \in Tid : Closed(thr[t].clock) /\ Closed(thr[t].frel) /\ Closed(thr[t].facq)
      /\ \A x \in Loc :
           /\ Closed(loc[x].sync.clk)
           /\ \A p \in DOMAIN loc[x].buf.stores : Closed(loc[x].buf.stores[p].data)

\* C++11 29.3p4-6: a load reads no store older than the ones SC fences order
\* before it (Slimit, and Swrite for SC stores), and an SC load none older
\* than a store that some SC fence follows (Sread).
ScFencesOrderReads ==
  \A l \in NextLoads : \A p \in l.reads :
    /\ p >= hist.floor[l.tid][l.loc]
    /\ l.mo = "seq_cst" => p >= hist.fenced[l.loc]

\* C++11 29.3p3: the only SC store an SC load may read is the latest one
\* (last_sc_store in FetchStore).
ScLoadsReadLatest ==
  \A l \in NextLoads : l.mo = "seq_cst" =>
    \A p \in l.reads \cap hist.sc[l.loc] : p = Max(hist.sc[l.loc])

\* C++11 29.3p3 again, and the comment in BufferStore: an SC load skips every
\* store that happens before the latest SC store, which BufferStore marked.
ScLoadsSkipPast ==
  \A l \in NextLoads : l.mo = "seq_cst" => l.reads \cap hist.scPast[l.loc] = {}

\* The pointers of loads_ are never stale: a load that still moves is on the
\* list of its store (RemoveLoadFromList would follow a freed one), and once
\* at the end its thread's position is the end (the CHECK_EQ of FetchStore).
MovingLoadsAreAttached ==
  \A x \in Loc, t \in Tid :
    LET b == loc[x].buf IN
    b.active[t] # NoLoad =>
      /\ ActiveLoad(b, t) \in b.loads
      /\ b.pos[t] = b.active[t].at

\* However long the program runs, a buffer holds kBuffMaxSize + 2 stores at
\* most: BufferStore tests before it adds, and measures positions.
BufferIsBounded ==
  \A x \in Loc : Cardinality(DOMAIN loc[x].buf.stores) <= kBuffMaxSize + 2
=============================================================================
