-------------------------- MODULE ReleaseSequences --------------------------
(***************************************************************************)
(* Release sequences and fences on one atomic location: what the handlers  *)
(* of tsan_interface_atomic.cc do to the clocks of the calling thread and  *)
(* to the location's SyncClock. Each action is one handler, which runs     *)
(* under the location's lock. Reads see the last store; the store buffer,  *)
(* which may let them see an earlier one, is StoreBufferOps and Tsan11.    *)
(***************************************************************************)
EXTENDS SyncClockOps, MemoryOrders

CONSTANTS
  Uses,     \* the memory orders the program uses in each kind of operation
  MaxTicks  \* bound: how many ticks of the threads' epochs are explored

ASSUME UsesAssumption ==
  Uses \in [{"load", "store", "rmw", "cas", "casfail", "fence"} -> SUBSET Order]
ASSUME TicksAssumption == MaxTicks \in Nat

VARIABLES
  epoch,   \* thr->fast_state.epoch()
  clock,   \* thr->clock
  frel,    \* thr->Frel_clock
  facq,    \* thr->Facq_clock
  sync,    \* s->clock
  dead,    \* Die() was called
  ticks,   \* how many times an epoch was incremented, for MaxTicks
  heads,   \* history: the release sequences the last store belongs to
  blurred  \* history: the SyncClock stopped telling the sequences apart

vars == <<epoch, clock, frel, facq, sync, dead, ticks, heads, blurred>>

\* thr->fast_state.IncrementEpoch()
Tick(t) ==
  /\ ticks < MaxTicks
  /\ ticks' = ticks + 1
  /\ epoch' = [epoch EXCEPT ![t] = @ + 1]

\* Mutant of Stamped: an epoch ahead.
StampedAhead(t) == [clock[t] EXCEPT ![t] = epoch'[t] + 1]

\* thr->clock.set(thr->fast_state.epoch())
Stamped(t) == [clock[t] EXCEPT ![t] = epoch'[t]]

\* What a store or RMW of t whose clock is c publishes: c itself if it is a
\* release, its release fences' clock if it is not.
Published(t, c, mo) == IF IsReleaseOrder(mo) THEN c ELSE frel[t]

Init ==
  /\ epoch = [t \in Tid |-> 1]
  /\ clock = [t \in Tid |-> [Zero EXCEPT ![t] = 1]]
  /\ frel = [t \in Tid |-> Zero]
  /\ facq = [t \in Tid |-> Zero]
  /\ sync = Reset
  /\ dead = FALSE
  /\ ticks = 0
  /\ heads = [t \in Tid |-> Zero]
  /\ blurred = FALSE

-----------------------------------------------------------------------------

\* AtomicLoad, with AcquireImpl or NonAcquireLoadImpl.
Load(t, mo) ==
  /\ ~dead /\ IsLoadOrder(mo)
  /\ epoch' = epoch
  /\ IF IsAcquireOrder(mo)
     THEN /\ clock' = [clock EXCEPT ![t] = Join(Stamped(t), sync.clk)]
          /\ facq' = facq
     ELSE /\ clock' = [clock EXCEPT ![t] = Stamped(t)]
          /\ facq' = [facq EXCEPT ![t] = Join(@, sync.clk)]
  /\ UNCHANGED <<frel, sync, dead, ticks, heads, blurred>>

\* AtomicStore, with ReleaseStoreImpl or NonReleaseStoreImpl.
Store(t, mo) ==
  /\ ~dead /\ IsStoreOrder(mo)
  /\ Tick(t)
  /\ clock' = [clock EXCEPT ![t] = Stamped(t)]
  /\ sync' = IF IsReleaseOrder(mo)
             THEN ReleaseStore(t, Stamped(t))
             ELSE NonReleaseStore2(NonReleaseStore(sync, t), t, frel[t])
  /\ heads' = [u \in Tid |->
                 IF u = t THEN Join(heads[t], Published(t, Stamped(t), mo))
                          ELSE Zero]
  /\ blurred' = (blurred /\ ~IsReleaseOrder(mo))
  /\ UNCHANGED <<frel, facq, dead>>

\* RMW gives up telling the sequences apart: a release takes the table from
\* its owner, or a fence's clock is joined onto another thread's sequence.
Blurs(t, mo, keep) ==
  /\ ~VvcInUse(sync) /\ ~IsEmpty(sync)
  /\ IF IsReleaseOrder(mo) THEN sync.owner = t /\ ~keep
                           ELSE sync.owner # t /\ frel[t] # Zero

\* AtomicRMW, and AtomicCAS that finds the value it expects (RmwImpl).
Rmw(t, mo, keep) ==
  /\ ~dead
  /\ Tick(t)
  /\ ~RmwDies(sync, t, IsReleaseOrder(mo))
  /\ LET c == IF IsAcquireOrder(mo) THEN Join(Stamped(t), sync.clk) ELSE Stamped(t)
     IN  /\ clock' = [clock EXCEPT ![t] = c]
         /\ sync' = RmwSync(sync, t, c, frel[t], IsReleaseOrder(mo), keep)
         /\ heads' = [heads EXCEPT ![t] = Join(@, Published(t, c, mo))]
  /\ facq' = IF IsAcquireOrder(mo) THEN facq
             ELSE [facq EXCEPT ![t] = Join(@, sync.clk)]
  /\ blurred' = (blurred \/ Blurs(t, mo, keep))
  /\ UNCHANGED <<frel, dead>>

\* The VVC is full: RMW calls Die().
RmwDie(t, mo) ==
  /\ ~dead
  /\ ticks < MaxTicks
  /\ RmwDies(sync, t, IsReleaseOrder(mo))
  /\ dead' = TRUE
  /\ UNCHANGED <<epoch, clock, frel, facq, sync, ticks, heads, blurred>>

\* AtomicCAS that succeeds with mo_relaxed: RMWImpl is skipped, so neither
\* t's clock nor its fences meet the location's.
CasRelaxed(t) ==
  /\ ~dead
  /\ Tick(t)
  /\ heads' = [heads EXCEPT ![t] = Join(@, frel[t])]
  /\ blurred' = (blurred \/ frel[t] # Zero)
  /\ UNCHANGED <<clock, frel, facq, sync, dead>>

\* AtomicCAS that does not find the value: a load with order fmo that ticks,
\* and leaves the fences alone when fmo is not an acquire order.
CasFail(t, fmo) ==
  /\ ~dead
  /\ Tick(t)
  /\ clock' = IF IsAcquireOrder(fmo)
              THEN [clock EXCEPT ![t] = Join(Stamped(t), sync.clk)]
              ELSE clock
  /\ UNCHANGED <<frel, facq, sync, dead, heads, blurred>>

\* AtomicFence and FenceImpl: the release side comes first.
Fence(t, mo) ==
  /\ ~dead /\ mo # "relaxed"
  /\ Tick(t)
  /\ frel' = IF IsReleaseOrder(mo)
             THEN [frel EXCEPT ![t] = Join(@, Stamped(t))] ELSE frel
  /\ clock' = [clock EXCEPT ![t] = IF IsLoadOrder(mo)
                                   THEN Join(Stamped(t), facq[t])
                                   ELSE Stamped(t)]
  /\ UNCHANGED <<facq, sync, dead, heads, blurred>>

Next ==
  \E t \in Tid :
    \/ \E mo \in Uses.load : Load(t, mo)
    \/ \E mo \in Uses.store : Store(t, mo)
    \/ \E mo \in Uses.rmw, keep \in BOOLEAN : Rmw(t, mo, keep)
    \/ \E mo \in Uses.rmw : RmwDie(t, mo)
    \/ \E mo \in Uses.cas : mo = "relaxed" /\ CasRelaxed(t)
    \/ \E mo \in Uses.casfail : CasFail(t, mo)
    \/ \E mo \in Uses.fence : Fence(t, mo)

Spec == Init /\ [][Next]_vars

-----------------------------------------------------------------------------

\* Types of the state: clocks for every thread, one SyncClock record.
TypeOK ==
  /\ epoch \in [Tid -> Nat]
  /\ clock \in [Tid -> Clock]
  /\ frel \in [Tid -> Clock]
  /\ facq \in [Tid -> Clock]
  /\ IsSyncClock(sync)
  /\ dead \in BOOLEAN
  /\ ticks \in Nat
  /\ heads \in [Tid -> Clock]
  /\ blurred \in BOOLEAN

\* The SyncClock holds nothing that is not in a release sequence the last
\* store belongs to: a stale clock left by a store that should have ended
\* its sequence (NonReleaseStore, ReleaseStore over a VVC) would hide a race.
SyncWithinHeads == CoveredBy(sync.clk, {heads[u] : u \in Tid})

\* What a later store of t would continue is t's own: the table when t owns
\* it, and t's VVC entry. The next plain store of t keeps exactly this.
OwnSequences ==
  \A t \in Tid :
    /\ sync.owner = t => Leq(sync.clk, heads[t])
    /\ t \in DOMAIN sync.vvc => Leq(sync.vvc[t], heads[t])

\* The main clock covers every entry of the VVC (RMW merges before it adds
\* an entry), so an acquire meets every sequence, and nobody owns the table.
VvcUnderClock ==
  VvcInUse(sync) => /\ sync.owner = NoTid
                    /\ \A e \in DOMAIN sync.vvc : Leq(sync.vvc[e], sync.clk)

\* Unless RMW had to blur the sequences, an acquire learns all of them: no
\* collapse, migration, or relaxed RMW over a VVC loses a release (the claim
\* of the comment in ThreadClock::RMW).
NothingLost == ~blurred => \A t \in Tid : Leq(heads[t], sync.clk)

\* Nobody knows an epoch of a thread that the thread has not reached: not a
\* thread, a fence, the location or an entry of its VVC.
NoFutureEpoch ==
  /\ \A t \in Tid : Leq(clock[t], epoch) /\ Leq(frel[t], epoch) /\ Leq(facq[t], epoch)
  /\ Leq(sync.clk, epoch)
  /\ \A e \in DOMAIN sync.vvc : Leq(sync.vvc[e], epoch)

\* RMW gives up on a full VVC only when as many threads as it has entries,
\* but for one, head sequences: an entry made for a table nobody owns may
\* stand for a thread that gets a second one.
DiesOnlyWhenCrowded ==
  dead => Cardinality({t \in Tid : heads[t] # Zero}) >= kNumElems - 1

\* Promise of the component: threads learn only what C++11 lets them learn.
Cpp11 == INSTANCE ReleaseSequenceSpec
LearnsOnlyCpp11 == Cpp11!Spec

\* What the comment in AtomicFence says of an acq_rel fence ("Acquire and
\* release"): it takes what earlier reads brought.
AcqRelFenceAcquires ==
  [][\A t \in Tid : Fence(t, "acq_rel") => Leq(facq[t], clock'[t])]_vars
=============================================================================
