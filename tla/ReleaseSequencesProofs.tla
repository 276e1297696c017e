----------------------- MODULE ReleaseSequencesProofs -----------------------
(***************************************************************************)
(* Proofs about release sequences: types, the soundness of the SyncClock,  *)
(* and that the runtime implements ReleaseSequenceSpec, for any set of     *)
(* threads, any capacity of the VVC and any use of memory orders.          *)
(***************************************************************************)
EXTENDS ReleaseSequences, ClockProofs

\* The SyncClocks: IsSyncClock as a set.
SyncClock == [clk : Clock, owner : Entry,
              vvc : UNION {[S -> Clock] : S \in SUBSET Entry}]

\* Adding or replacing an entry of a VVC gives a VVC with that entry.
LEMMA SetEntryType ==
  \A d \in SyncClock : \A e \in Entry : \A c \in Clock :
    /\ SetEntry(d.vvc, e, c) \in UNION {[S -> Clock] : S \in SUBSET Entry}
    /\ DOMAIN SetEntry(d.vvc, e, c) = DOMAIN d.vvc \cup {e}
    /\ \A x \in DOMAIN SetEntry(d.vvc, e, c) :
         SetEntry(d.vvc, e, c)[x] = IF x = e THEN c ELSE d.vvc[x]
<1> TAKE d \in SyncClock
<1> TAKE e \in Entry
<1> TAKE c \in Clock
<1>1. PICK S \in SUBSET Entry : d.vvc \in [S -> Clock]
  BY DEF SyncClock
<1>2. S \cup {e} \in SUBSET Entry
  OBVIOUS
<1>3. SetEntry(d.vvc, e, c) \in [S \cup {e} -> Clock]
  BY <1>1 DEF SetEntry
<1> QED
  BY <1>1, <1>2, <1>3 DEF SetEntry

\* The VVC without entries.
LEMMA NoEntriesFacts ==
  /\ NoEntries \in UNION {[S -> Clock] : S \in SUBSET Entry}
  /\ DOMAIN NoEntries = {}
<1>1. NoEntries \in [{} -> Clock] /\ {} \in SUBSET Entry
  BY DEF NoEntries
<1> QED
  BY <1>1 DEF NoEntries

-----------------------------------------------------------------------------

Headings == [Tid -> Clock]

\* SyncWithinHeads and OwnSequences of a SyncClock d and heads h.
Sound(d, h) ==
  /\ CoveredBy(d.clk, {h[u] : u \in Tid})
  /\ \A t \in Tid : /\ d.owner = t => Leq(d.clk, h[t])
                    /\ t \in DOMAIN d.vvc => Leq(d.vvc[t], h[t])

\* What the parts of a SyncClock are, for the provers.
LEMMA SyncClockParts ==
  ASSUME NEW d \in SyncClock
  PROVE  /\ d = [clk |-> d.clk, owner |-> d.owner, vvc |-> d.vvc]
         /\ d.clk \in Clock
         /\ d.owner \in Entry
         /\ d.vvc \in UNION {[S -> Clock] : S \in SUBSET Entry}
         /\ \A e \in DOMAIN d.vvc : e \in Entry /\ d.vvc[e] \in Clock
BY DEF SyncClock

\* A clock below one of the heads is covered by the heads.
LEMMA LeqCovered ==
  ASSUME NEW h \in Headings, NEW t \in Tid, NEW c, Leq(c, h[t])
  PROVE  CoveredBy(c, {h[u] : u \in Tid})
BY DEF CoveredBy, Leq

\* An empty SyncClock is sound.
LEMMA ResetSound ==
  ASSUME NEW h \in Headings
  PROVE  Reset \in SyncClock /\ Sound(Reset, h)
<1>1. \A t \in Tid : Leq(Zero, h[t])
  BY ZeroLeast DEF Headings
<1>2. CoveredBy(Zero, {h[u] : u \in Tid})
  BY <1>1 DEF CoveredBy, Leq
<1> QED
  BY <1>2, NoEntriesFacts, ClockFacts, NoTidAssumption DEF Sound, Reset, SyncClock, Entry

\* A table that t owns is sound when it is below t's heads.
LEMMA ReleaseStoreSound ==
  ASSUME NEW h \in Headings, NEW t \in Tid, NEW c \in Clock, Leq(c, h[t])
  PROVE  ReleaseStore(t, c) \in SyncClock /\ Sound(ReleaseStore(t, c), h)
<1>1. CoveredBy(c, {h[u] : u \in Tid})
  BY LeqCovered
<1> QED
  BY <1>1, NoEntriesFacts DEF ReleaseStore, Sound, SyncClock, Entry

\* Soundness survives the heads growing.
LEMMA SoundGrows ==
  ASSUME NEW d \in SyncClock, NEW h \in Headings, NEW g \in Headings,
         \A u \in Tid : Leq(h[u], g[u]), Sound(d, h)
  PROVE  Sound(d, g)
<1>1. CoveredBy(d.clk, {g[u] : u \in Tid})
  <2>1. SUFFICES ASSUME NEW t \in Tid
                 PROVE  \E u \in Tid : d.clk[t] <= g[u][t]
    BY DEF CoveredBy
  <2>2. PICK u \in Tid : d.clk[t] <= h[u][t]
    BY DEF Sound, CoveredBy
  <2>3. d.clk[t] \in Nat /\ h[u][t] \in Nat /\ g[u][t] \in Nat
    BY SyncClockParts DEF Clock, Headings
  <2>4. h[u][t] <= g[u][t]
    BY DEF Leq
  <2> QED
    BY <2>2, <2>3, <2>4
<1>2. ASSUME NEW t \in Tid
      PROVE  /\ d.owner = t => Leq(d.clk, g[t])
             /\ t \in DOMAIN d.vvc => Leq(d.vvc[t], g[t])
  <2>1. h[t] \in Clock /\ g[t] \in Clock /\ Leq(h[t], g[t])
    BY DEF Headings
  <2>2. CASE d.owner = t
    BY <2>1, <2>2, SyncClockParts, LeqTransitive DEF Sound
  <2>3. CASE t \in DOMAIN d.vvc
    BY <2>1, <2>3, SyncClockParts, LeqTransitive DEF Sound
  <2> QED
    BY <2>1, <2>2, <2>3, SyncClockParts, LeqTransitive DEF Sound
<1> QED
  BY <1>1, <1>2 DEF Sound

\* Joining a covered clock with one below a head is covered.
LEMMA JoinCovered ==
  ASSUME NEW h \in Headings, NEW t \in Tid, NEW a \in Clock, NEW c \in Clock,
         CoveredBy(a, {h[u] : u \in Tid}), Leq(c, h[t])
  PROVE  CoveredBy(Join(a, c), {h[u] : u \in Tid})
BY DEF CoveredBy, Join, Leq

\* JoinClock leaves a table nobody owns.
LEMMA JoinClockSound ==
  ASSUME NEW d \in SyncClock, NEW h \in Headings, NEW t \in Tid,
         NEW c \in Clock, Leq(c, h[t]), Sound(d, h)
  PROVE  JoinClock(d, c) \in SyncClock /\ Sound(JoinClock(d, c), h)
<1>1. JoinClock(d, c) = [clk |-> Join(d.clk, c), owner |-> NoTid, vvc |-> d.vvc]
  BY DEF JoinClock
<1>2. Join(d.clk, c) \in Clock
  BY SyncClockParts, ClockFacts
<1>3. CoveredBy(Join(d.clk, c), {h[u] : u \in Tid})
  BY SyncClockParts, JoinCovered DEF Sound
<1> QED
  BY <1>1, <1>2, <1>3, SyncClockParts, NoTidAssumption DEF Sound, SyncClock, Entry

\* release keeps the table sound, whoever stays its owner.
LEMMA ReleaseSound ==
  ASSUME NEW d \in SyncClock, NEW h \in Headings, NEW t \in Tid,
         NEW c \in Clock, NEW keep \in BOOLEAN, Leq(c, h[t]), Sound(d, h)
  PROVE  Release(d, t, c, keep) \in SyncClock /\ Sound(Release(d, t, c, keep), h)
<1>1. CASE IsEmpty(d)
  BY <1>1, ReleaseStoreSound DEF Release
<1>2. CASE ~IsEmpty(d)
  <2> DEFINE o == IF keep /\ d.owner = t THEN t ELSE NoTid
  <2>1. Release(d, t, c, keep) = [clk |-> Join(d.clk, c), owner |-> o, vvc |-> d.vvc]
    BY <1>2 DEF Release
  <2>2. Join(d.clk, c) \in Clock /\ o \in Entry
    BY SyncClockParts, ClockFacts DEF Entry
  <2>3. CoveredBy(Join(d.clk, c), {h[u] : u \in Tid})
    BY SyncClockParts, JoinCovered DEF Sound
  <2>4. ASSUME NEW u \in Tid, o = u
        PROVE  Leq(Join(d.clk, c), h[u])
    <3>1. u = t /\ d.owner = t
      BY <2>4, NoTidAssumption
    <3>2. Leq(d.clk, h[t]) /\ h[t] \in Clock
      BY <3>1 DEF Sound, Headings
    <3> QED
      BY <3>1, <3>2, JoinLeast, SyncClockParts
  <2> HIDE DEF o
  <2> QED
    BY <2>1, <2>2, <2>3, <2>4, SyncClockParts DEF Sound, SyncClock
<1> QED
  BY <1>1, <1>2

\* Moving the table into the VVC keeps it sound.
LEMMA MigrateSound ==
  ASSUME NEW d \in SyncClock, NEW h \in Headings, Sound(d, h)
  PROVE  MigrateToVvc(d) \in SyncClock /\ Sound(MigrateToVvc(d), h)
<1>1. CASE VvcInUse(d)
  BY <1>1 DEF MigrateToVvc
<1>2. CASE ~VvcInUse(d)
  <2> DEFINE v == SetEntry(d.vvc, d.owner, d.clk)
  <2>1. MigrateToVvc(d) = [clk |-> d.clk, owner |-> d.owner, vvc |-> v]
    BY <1>2 DEF MigrateToVvc
  <2>2. d.owner \in Entry /\ d.clk \in Clock
    BY SyncClockParts
  <2>3. /\ v \in UNION {[S -> Clock] : S \in SUBSET Entry}
        /\ DOMAIN v = DOMAIN d.vvc \cup {d.owner}
        /\ \A x \in DOMAIN v : v[x] = IF x = d.owner THEN d.clk ELSE d.vvc[x]
    <3>1. v \in UNION {[S -> Clock] : S \in SUBSET Entry}
      BY <2>2, SetEntryType, Zenon
    <3>2. DOMAIN v = DOMAIN d.vvc \cup {d.owner}
      BY DEF SetEntry
    <3>3. \A x \in DOMAIN v : v[x] = IF x = d.owner THEN d.clk ELSE d.vvc[x]
      BY DEF SetEntry
    <3> QED
      BY <3>1, <3>2, <3>3, Zenon
  <2>4. DOMAIN d.vvc = {}
    BY <1>2 DEF VvcInUse
  <2> HIDE DEF v
  <2> QED
    BY <2>1, <2>2, <2>3, <2>4 DEF Sound, SyncClock
<1> QED
  BY <1>1, <1>2

\* A new entry of t is sound when it is below t's heads.
LEMMA SetEntrySound ==
  ASSUME NEW d \in SyncClock, NEW h \in Headings, NEW t \in Tid,
         NEW c \in Clock, Leq(c, h[t]), Sound(d, h),
         NEW r, r = [clk |-> d.clk, owner |-> d.owner, vvc |-> SetEntry(d.vvc, t, c)]
  PROVE  r \in SyncClock /\ Sound(r, h)
<1> DEFINE v == SetEntry(d.vvc, t, c)
<1>0. t \in Entry
  BY DEF Entry
<1>1. /\ v \in UNION {[S -> Clock] : S \in SUBSET Entry}
      /\ DOMAIN v = DOMAIN d.vvc \cup {t}
      /\ \A x \in DOMAIN v : v[x] = IF x = t THEN c ELSE d.vvc[x]
  <2>1. v \in UNION {[S -> Clock] : S \in SUBSET Entry}
    BY <1>0, SetEntryType, Zenon
  <2>2. DOMAIN v = DOMAIN d.vvc \cup {t}
    BY DEF SetEntry
  <2>3. \A x \in DOMAIN v : v[x] = IF x = t THEN c ELSE d.vvc[x]
    BY DEF SetEntry
  <2> QED
    BY <2>1, <2>2, <2>3, Zenon
<1>2. d.clk \in Clock /\ d.owner \in Entry
  BY SyncClockParts
<1> HIDE DEF v
<1>3. r = [clk |-> d.clk, owner |-> d.owner, vvc |-> v]
  BY DEF v
<1> QED
  BY <1>1, <1>2, <1>3 DEF Sound, SyncClock

\* A plain store of t keeps only what is below t's heads.
LEMMA NonReleaseStoreSound ==
  ASSUME NEW d \in SyncClock, NEW h \in Headings, NEW g \in Headings,
         NEW t \in Tid, Sound(d, h), Leq(h[t], g[t])
  PROVE  NonReleaseStore(d, t) \in SyncClock /\ Sound(NonReleaseStore(d, t), g)
<1>1. h[t] \in Clock /\ g[t] \in Clock
  BY DEF Headings
<1>2. CASE VvcInUse(d) /\ t \in DOMAIN d.vvc
  <2>1. d.vvc[t] \in Clock /\ Leq(d.vvc[t], g[t])
    BY <1>1, <1>2, SyncClockParts, LeqTransitive DEF Sound
  <2> QED
    BY <1>2, <2>1, ReleaseStoreSound DEF NonReleaseStore
<1>3. CASE ~VvcInUse(d) /\ d.owner = t
  <2>1. d.clk \in Clock /\ Leq(d.clk, g[t])
    BY <1>1, <1>3, SyncClockParts, LeqTransitive DEF Sound
  <2>2. CoveredBy(d.clk, {g[u] : u \in Tid})
    BY <2>1, LeqCovered
  <2> QED
    BY <1>3, <2>1, <2>2 DEF NonReleaseStore, Sound, VvcInUse
<1>4. CASE NonReleaseStore(d, t) = Reset
  BY <1>4, ResetSound
<1> QED
  BY <1>2, <1>3, <1>4 DEF NonReleaseStore

\* NonReleaseStore2 leaves the table or replaces it by the fences' clock.
LEMMA NonReleaseStore2Sound ==
  ASSUME NEW d \in SyncClock, NEW h \in Headings, NEW t \in Tid,
         NEW f \in Clock, Leq(f, h[t]), Sound(d, h)
  PROVE  NonReleaseStore2(d, t, f) \in SyncClock /\ Sound(NonReleaseStore2(d, t, f), h)
BY ReleaseStoreSound DEF NonReleaseStore2

\* RMW keeps the SyncClock sound: c is below t's heads if the RMW is a
\* release, the fences' clock f if it is not.
LEMMA RmwSound ==
  ASSUME NEW d \in SyncClock, NEW h \in Headings, NEW t \in Tid,
         NEW c \in Clock, NEW f \in Clock, NEW rel \in BOOLEAN, NEW keep \in BOOLEAN,
         Sound(d, h), rel => Leq(c, h[t]), ~rel => Leq(f, h[t])
  PROVE  /\ RmwSync(d, t, c, f, rel, keep) \in SyncClock
         /\ Sound(RmwSync(d, t, c, f, rel, keep), h)
<1>1. CASE ~rel /\ f = Zero
  BY <1>1 DEF RmwSync
<1>2. CASE ~rel /\ f # Zero /\ IsSimple(d, t)
  BY <1>2, NonReleaseStore2Sound DEF RmwSync
<1>3. CASE ~rel /\ f # Zero /\ ~IsSimple(d, t)
  BY <1>3, JoinClockSound DEF RmwSync
<1>4. CASE rel /\ IsSimple(d, t)
  BY <1>4, ReleaseSound DEF RmwSync
<1>5. CASE rel /\ ~IsSimple(d, t)
  <2> DEFINE r == Release(MigrateToVvc(d), t, c, keep)
  <2>1. MigrateToVvc(d) \in SyncClock /\ Sound(MigrateToVvc(d), h)
    BY MigrateSound
  <2>2. r \in SyncClock /\ Sound(r, h)
    BY <1>5, <2>1, ReleaseSound
  <2>3. RmwSync(d, t, c, f, rel, keep)
          = [clk |-> r.clk, owner |-> r.owner, vvc |-> SetEntry(r.vvc, t, c)]
    BY <1>5 DEF RmwSync
  <2> HIDE DEF r
  <2> QED
    BY <1>5, <2>2, <2>3, SetEntrySound
<1> QED
  BY <1>1, <1>2, <1>3, <1>4, <1>5

\* Reset gives an empty SyncClock that nobody owns.
LEMMA ResetFacts ==
  /\ Reset \in SyncClock
  /\ Reset.clk = Zero /\ Reset.owner = NoTid /\ DOMAIN Reset.vvc = {}
BY NoEntriesFacts, ClockFacts DEF Reset, SyncClock, Entry

-----------------------------------------------------------------------------

\* The SyncClock part of NoFutureEpoch: all of d is below the epochs b.
Below(d, b) ==
  /\ Leq(d.clk, b)
  /\ \A e \in DOMAIN d.vvc : Leq(d.vvc[e], b)

\* An empty SyncClock and one table are below what bounds the table.
LEMMA ReleaseStoreBelow ==
  ASSUME NEW b \in Clock, NEW t \in Tid, NEW c \in Clock, Leq(c, b)
  PROVE  Below(Reset, b) /\ Below(ReleaseStore(t, c), b)
<1>1. Leq(Zero, b)
  BY ZeroLeast
<1> QED
  BY <1>1, NoEntriesFacts DEF Below, Reset, ReleaseStore

\* release stays below.
LEMMA ReleaseBelow ==
  ASSUME NEW d \in SyncClock, NEW b \in Clock, NEW t \in Tid, NEW c \in Clock,
         NEW keep \in BOOLEAN, Leq(c, b), Below(d, b)
  PROVE  Below(Release(d, t, c, keep), b)
<1>1. Leq(Join(d.clk, c), b)
  BY JoinLeast, SyncClockParts DEF Below
<1> QED
  BY <1>1, ReleaseStoreBelow DEF Release, Below

\* An entry below keeps the VVC below.
LEMMA SetEntryBelow ==
  ASSUME NEW d \in SyncClock, NEW b \in Clock, NEW x \in Entry, NEW c \in Clock,
         Leq(c, b), Below(d, b)
  PROVE  \A e \in DOMAIN SetEntry(d.vvc, x, c) : Leq(SetEntry(d.vvc, x, c)[e], b)
BY DEF SetEntry, Below

\* A plain store leaves the SyncClock below.
LEMMA NonReleaseStoreBelow ==
  ASSUME NEW d \in SyncClock, NEW b \in Clock, NEW t \in Tid, NEW f \in Clock,
         Leq(f, b), Below(d, b)
  PROVE  /\ Below(NonReleaseStore(d, t), b)
         /\ Below(NonReleaseStore2(d, t, f), b)
<1>1. t \in DOMAIN d.vvc => d.vvc[t] \in Clock /\ Leq(d.vvc[t], b)
  BY SyncClockParts DEF Below
<1>2. Below(NonReleaseStore(d, t), b)
  BY <1>1, ReleaseStoreBelow DEF NonReleaseStore
<1> QED
  BY <1>2, ReleaseStoreBelow DEF NonReleaseStore2

\* RMW leaves the SyncClock below.
LEMMA RmwBelow ==
  ASSUME NEW d \in SyncClock, NEW b \in Clock, NEW t \in Tid, NEW c \in Clock,
         NEW f \in Clock, NEW rel \in BOOLEAN, NEW keep \in BOOLEAN,
         Leq(c, b), Leq(f, b), Below(d, b),
         MigrateToVvc(d) \in SyncClock, Release(MigrateToVvc(d), t, c, keep) \in SyncClock
  PROVE  Below(RmwSync(d, t, c, f, rel, keep), b)
<1>1. CASE ~rel
  <2>1. Leq(Join(d.clk, f), b)
    BY JoinLeast, SyncClockParts DEF Below
  <2>2. Below(JoinClock(d, f), b)
    BY <2>1 DEF JoinClock, Below
  <2>3. Below(NonReleaseStore2(d, t, f), b)
    BY NonReleaseStoreBelow
  <2>4. RmwSync(d, t, c, f, rel, keep) \in
          {d, JoinClock(d, f), NonReleaseStore2(d, t, f)}
    BY <1>1 DEF RmwSync
  <2> QED
    BY <2>2, <2>3, <2>4
<1>2. CASE rel /\ IsSimple(d, t)
  BY <1>2, ReleaseBelow DEF RmwSync
<1>3. CASE rel /\ ~IsSimple(d, t)
  <2> DEFINE m == MigrateToVvc(d)
             r == Release(m, t, c, keep)
  <2>1. Below(m, b)
    BY SetEntryBelow, SyncClockParts DEF MigrateToVvc, Below
  <2>2. Below(r, b)
    BY <2>1, ReleaseBelow
  <2>3. RmwSync(d, t, c, f, rel, keep)
          = [clk |-> r.clk, owner |-> r.owner, vvc |-> SetEntry(r.vvc, t, c)]
    BY <1>3 DEF RmwSync
  <2>4. r \in SyncClock /\ t \in Entry
    BY DEF Entry
  <2> HIDE DEF r
  <2>5. \A e \in DOMAIN SetEntry(r.vvc, t, c) : Leq(SetEntry(r.vvc, t, c)[e], b)
    BY <2>2, <2>4, SetEntryBelow
  <2> QED
    BY <2>2, <2>3, <2>5 DEF Below
<1> QED
  BY <1>1, <1>2, <1>3

-----------------------------------------------------------------------------

\* TypeOK, with the type of sync as a set.
Types ==
  /\ epoch \in [Tid -> Nat]
  /\ clock \in [Tid -> Clock]
  /\ frel \in [Tid -> Clock]
  /\ facq \in [Tid -> Clock]
  /\ sync \in SyncClock
  /\ dead \in BOOLEAN
  /\ ticks \in Nat
  /\ heads \in [Tid -> Clock]
  /\ blurred \in BOOLEAN

\* The inductive invariant. OwnSequences (in Sound) is what a collapse of
\* the SyncClock relies on; NoFutureEpoch makes stamping a clock monotone.
IInv ==
  /\ Types
  /\ Sound(sync, heads)
  /\ NoFutureEpoch

\* The named invariants are parts of the inductive one.
LEMMA InvParts ==
  IInv => /\ TypeOK /\ SyncWithinHeads /\ OwnSequences /\ NoFutureEpoch
          /\ Below(sync, epoch)
<1>1. Types => TypeOK
  BY DEF Types, TypeOK, SyncClock, IsSyncClock
<1> QED
  BY <1>1 DEF IInv, Sound, SyncWithinHeads, OwnSequences, NoFutureEpoch, Below

\* The initial states satisfy the inductive invariant.
LEMMA InitInv == Init => IInv
<1> SUFFICES ASSUME Init PROVE IInv
  OBVIOUS
<1>1. heads \in Headings /\ sync = Reset
  BY ClockFacts DEF Init, Headings
<1>2. sync \in SyncClock /\ Sound(sync, heads)
  BY <1>1, ResetSound
<1>3. epoch \in [Tid -> Nat] /\ epoch \in Clock
  BY DEF Init, Clock
<1>4. clock \in [Tid -> Clock]
  BY DEF Init, Clock, Zero
<1>5. Types
  BY <1>1, <1>2, <1>3, <1>4, ClockFacts DEF Init, Types, Headings
<1>6. Leq(Zero, epoch)
  BY <1>3, ZeroLeast
<1>7. ASSUME NEW t \in Tid PROVE Leq(clock[t], epoch)
  <2>1. SUFFICES ASSUME NEW u \in Tid PROVE clock[t][u] <= epoch[u]
    BY DEF Leq
  <2>2. epoch[u] = 1 /\ clock[t][u] \in {0, 1}
    BY DEF Init, Zero
  <2> QED
    BY <2>2
<1>8. \A t \in Tid : frel[t] = Zero /\ facq[t] = Zero
  BY DEF Init
<1>9. sync.clk = Zero /\ DOMAIN sync.vvc = {}
  BY <1>1, ResetFacts
<1>10. NoFutureEpoch
  BY <1>6, <1>7, <1>8, <1>9 DEF NoFutureEpoch
<1> QED
  BY <1>2, <1>5, <1>10 DEF IInv

\* The clock of a thread, stamped with an epoch it has reached: it is above
\* the thread's clock, differs from it in its own entry only, and no entry
\* is from the future.
LEMMA StampedFacts ==
  ASSUME IInv, NEW t \in Tid, epoch' \in Clock, Leq(epoch, epoch')
  PROVE  /\ Stamped(t) \in Clock
         /\ Leq(clock[t], Stamped(t))
         /\ Leq(Stamped(t), epoch')
         /\ \A u \in Tid \ {t} : Stamped(t)[u] = clock[t][u]
<1>1. clock[t] \in Clock /\ epoch \in Clock /\ Leq(clock[t], epoch)
  BY DEF IInv, Types, NoFutureEpoch, Clock
<1>2. Leq(clock[t], epoch')
  BY <1>1, LeqTransitive
<1>3. epoch'[t] \in Nat /\ clock[t][t] <= epoch'[t]
  BY <1>2 DEF Clock, Leq
<1> QED
  BY <1>1, <1>2, <1>3 DEF Stamped, Clock, Leq

\* A tick moves one epoch forward.
LEMMA TickFacts ==
  ASSUME IInv, NEW t \in Tid, Tick(t)
  PROVE  epoch' \in Clock /\ Leq(epoch, epoch') /\ ticks' \in Nat
BY DEF IInv, Types, Tick, Clock, Leq

\* NoFutureEpoch of what an action leaves alone survives epochs growing.
LEMMA FutureGrows ==
  ASSUME IInv, epoch' \in Clock, Leq(epoch, epoch')
  PROVE  /\ \A t \in Tid : /\ Leq(clock[t], epoch')
                           /\ Leq(frel[t], epoch')
                           /\ Leq(facq[t], epoch')
         /\ Below(sync, epoch')
<1>1. epoch \in Clock
  BY DEF IInv, Types, Clock
<1>2. \A t \in Tid : clock[t] \in Clock /\ frel[t] \in Clock /\ facq[t] \in Clock
  BY DEF IInv, Types
<1>3. sync.clk \in Clock /\ \A e \in DOMAIN sync.vvc : sync.vvc[e] \in Clock
  BY SyncClockParts DEF IInv, Types
<1> QED
  BY <1>1, <1>2, <1>3, LeqTransitive, InvParts DEF NoFutureEpoch, Below

\* The invariant of a state whose parts are known.
LEMMA InvFromParts ==
  ASSUME epoch' \in Clock, clock' \in [Tid -> Clock], frel' \in [Tid -> Clock],
         facq' \in [Tid -> Clock], sync' \in SyncClock, dead' \in BOOLEAN,
         ticks' \in Nat, heads' \in Headings, blurred' \in BOOLEAN,
         Sound(sync', heads'), Below(sync', epoch'),
         \A u \in Tid : /\ Leq(clock'[u], epoch')
                        /\ Leq(frel'[u], epoch')
                        /\ Leq(facq'[u], epoch')
  PROVE  IInv'
BY DEF IInv, Types, NoFutureEpoch, Below, Headings, Clock

\* The operators of the abstract specification are those of Clocks.
LEMMA SpecOperators ==
  /\ Cpp11!Clock = Clock
  /\ Cpp11!Zero = Zero
  /\ \A a, b \in Clock : Cpp11!Join(a, b) = Join(a, b)
  /\ \A a, b : Cpp11!Leq(a, b) <=> Leq(a, b)
BY DEF Cpp11!Clock, Clock, Cpp11!Zero, Zero, Cpp11!Join, Join, Cpp11!Leq, Leq

\* A thread that advances its own entry and takes others' from S.
LEMMA LearnFromParts ==
  ASSUME NEW t \in Tid, NEW S, NEW c \in Clock, clock \in [Tid -> Clock],
         clock' = [clock EXCEPT ![t] = c], Leq(clock[t], c),
         \A u \in Tid \ {t} : \E s \in S \cup {clock[t]} : c[u] <= s[u]
  PROVE  Cpp11!MayLearn(t, S) /\ clock'[t] = c /\ clock' \in [Tid -> Clock]
<1>1. clock'[t] = c /\ clock' \in [Tid -> Clock]
  OBVIOUS
<1> QED
  BY <1>1, SpecOperators DEF Cpp11!MayLearn

\* AtomicStore keeps the invariant and is a store of the abstract machine.
LEMMA StoreStep ==
  ASSUME IInv, NEW t \in Tid, NEW mo \in Order, Store(t, mo)
  PROVE  IInv' /\ Cpp11!Store(t)
<1> DEFINE c == Stamped(t)
           own == Published(t, c, mo)
<1>1. epoch' \in Clock /\ Leq(epoch, epoch') /\ ticks' \in Nat
  BY TickFacts DEF Store
<1>2. /\ c \in Clock /\ Leq(clock[t], c) /\ Leq(c, epoch')
      /\ \A u \in Tid \ {t} : c[u] = clock[t][u]
  BY <1>1, StampedFacts
<1>3. /\ heads \in Headings /\ frel[t] \in Clock /\ sync \in SyncClock
      /\ clock \in [Tid -> Clock] /\ frel \in [Tid -> Clock]
      /\ facq \in [Tid -> Clock] /\ Sound(sync, heads)
  BY DEF IInv, Types, Headings
<1>4. own \in Clock /\ own \in {c, frel[t]}
  BY <1>2, <1>3 DEF Published
<1>5. heads' = [u \in Tid |-> IF u = t THEN Join(heads[t], own) ELSE Zero]
  BY DEF Store
<1>6. /\ heads' \in Headings /\ heads'[t] = Join(heads[t], own)
      /\ Leq(heads[t], heads'[t]) /\ Leq(own, heads'[t])
  <2>1. heads[t] \in Clock
    BY <1>3 DEF Headings
  <2>2. /\ Join(heads[t], own) \in Clock /\ Leq(heads[t], Join(heads[t], own))
        /\ Leq(own, Join(heads[t], own))
    BY <1>4, <2>1, ClockFacts
  <2> HIDE DEF own
  <2> QED
    BY <1>5, <2>2, ClockFacts DEF Headings
<1>7. /\ \A u \in Tid : /\ Leq(clock[u], epoch') /\ Leq(frel[u], epoch')
                        /\ Leq(facq[u], epoch')
      /\ Below(sync, epoch')
  BY <1>1, FutureGrows
<1>8. sync' \in SyncClock /\ Sound(sync', heads') /\ Below(sync', epoch')
  <2>1. CASE IsReleaseOrder(mo)
    <3>1. sync' = ReleaseStore(t, c) /\ own = c
      BY <2>1 DEF Store, Published
    <3> QED
      BY <1>1, <1>2, <1>6, <3>1, ReleaseStoreSound, ReleaseStoreBelow
  <2>2. CASE ~IsReleaseOrder(mo)
    <3> DEFINE d == NonReleaseStore(sync, t)
    <3>1. sync' = NonReleaseStore2(d, t, frel[t]) /\ own = frel[t]
      BY <2>2 DEF Store, Published
    <3>2. d \in SyncClock /\ Sound(d, heads')
      BY <1>3, <1>6, NonReleaseStoreSound
    <3>3. Below(d, epoch')
      BY <1>1, <1>3, <1>7, NonReleaseStoreBelow
    <3> HIDE DEF d
    <3> QED
      BY <1>1, <1>3, <1>6, <1>7, <3>1, <3>2, <3>3,
         NonReleaseStore2Sound, NonReleaseStoreBelow
  <2> QED
    BY <2>1, <2>2
<1>9. /\ clock' = [clock EXCEPT ![t] = c]
      /\ frel' = frel /\ facq' = facq /\ dead' = dead
      /\ blurred' = (blurred /\ ~IsReleaseOrder(mo))
  BY DEF Store
<1>10. dead' \in BOOLEAN /\ blurred' \in BOOLEAN
  BY <1>9 DEF IInv, Types, Store
<1> HIDE DEF c
<1>11. /\ Cpp11!MayLearn(t, {}) /\ clock'[t] = c /\ clock' \in [Tid -> Clock]
  <2>1. \A u \in Tid \ {t} : c[u] <= clock[t][u]
    BY <1>2, <1>3 DEF Clock
  <2> QED
    BY <1>2, <1>3, <1>9, <2>1, LearnFromParts
<1>12. \A u \in Tid : Leq(clock'[u], epoch')
  BY <1>2, <1>3, <1>7, <1>9
<1>13. IInv'
  BY <1>1, <1>3, <1>6, <1>7, <1>8, <1>9, <1>10, <1>11, <1>12, InvFromParts
<1>14. Cpp11!Store(t)
  <2>1. own \in Cpp11!Own(t)
    BY <1>4, <1>11 DEF Cpp11!Own
  <2>2. heads' = [u \in Tid |-> IF u = t THEN Cpp11!Join(heads[t], own) ELSE Cpp11!Zero]
    <3>1. heads[t] \in Clock
      BY <1>3 DEF Headings
    <3> HIDE DEF own
    <3> QED
      BY <1>4, <1>5, <3>1, SpecOperators
  <2> HIDE DEF own
  <2> QED
    BY <1>9, <1>11, <2>1, <2>2 DEF Cpp11!Store
<1> QED
  BY <1>13, <1>14

\* What loads, RMWs and failed CASs share: the last store's clock joined
\* onto the thread's clock or its acquire fences' clock, or onto neither.
LEMMA ReadStep ==
  ASSUME IInv, NEW t \in Tid, epoch' \in Clock, Leq(epoch, epoch'),
         NEW c \in {clock[t], Stamped(t), Join(Stamped(t), sync.clk)},
         NEW f \in {facq[t], Join(facq[t], sync.clk)},
         clock' = [clock EXCEPT ![t] = c],
         facq' = [facq EXCEPT ![t] = f],
         frel' = frel
  PROVE  /\ c \in Clock /\ Leq(c, epoch')
         /\ clock' \in [Tid -> Clock] /\ clock'[t] = c
         /\ facq' \in [Tid -> Clock] /\ frel' \in [Tid -> Clock]
         /\ \A u \in Tid : /\ Leq(clock'[u], epoch')
                           /\ Leq(frel'[u], epoch')
                           /\ Leq(facq'[u], epoch')
         /\ Below(sync, epoch')
         /\ Cpp11!ReadsLast(t)
<1> DEFINE s == Stamped(t)
<1>1. /\ s \in Clock /\ Leq(clock[t], s) /\ Leq(s, epoch')
      /\ \A u \in Tid \ {t} : s[u] = clock[t][u]
  BY StampedFacts
<1>2. /\ clock \in [Tid -> Clock] /\ facq \in [Tid -> Clock]
      /\ frel \in [Tid -> Clock] /\ heads \in Headings
      /\ sync \in SyncClock /\ sync.clk \in Clock
      /\ CoveredBy(sync.clk, {heads[u] : u \in Tid})
  BY SyncClockParts DEF IInv, Types, Sound, Headings
<1>3. /\ \A u \in Tid : /\ Leq(clock[u], epoch') /\ Leq(frel[u], epoch')
                        /\ Leq(facq[u], epoch')
      /\ Below(sync, epoch') /\ Leq(sync.clk, epoch')
  BY FutureGrows DEF Below
<1> HIDE DEF s
<1>4. /\ Join(s, sync.clk) \in Clock /\ Leq(s, Join(s, sync.clk))
      /\ Leq(Join(s, sync.clk), epoch')
  BY <1>1, <1>2, <1>3, ClockFacts, JoinLeast
<1>5. /\ Join(facq[t], sync.clk) \in Clock
      /\ Leq(Join(facq[t], sync.clk), epoch')
  BY <1>2, <1>3, ClockFacts, JoinLeast
<1>6. c \in {clock[t], s, Join(s, sync.clk)}
  BY DEF s
<1>7. Leq(clock[t], c) /\ c \in Clock /\ Leq(c, epoch')
  <2>1. Leq(clock[t], clock[t])
    BY <1>2 DEF Leq, Clock
  <2>2. Leq(clock[t], Join(s, sync.clk))
    BY <1>1, <1>2, <1>4, LeqTransitive
  <2> QED
    BY <1>1, <1>2, <1>3, <1>4, <1>6, <2>1, <2>2
<1>8. f \in Clock /\ Leq(f, epoch')
  BY <1>2, <1>3, <1>5
<1>9. \A u \in Tid \ {t} : \E x \in Cpp11!Heads \cup {clock[t]} : c[u] <= x[u]
  <2>1. SUFFICES ASSUME NEW u \in Tid \ {t}
                 PROVE  \E x \in Cpp11!Heads \cup {clock[t]} : c[u] <= x[u]
    OBVIOUS
  <2>2. clock[t][u] \in Nat /\ s[u] = clock[t][u] /\ sync.clk[u] \in Nat
    BY <1>1, <1>2 DEF Clock
  <2>3. PICK x \in Cpp11!Heads : sync.clk[u] <= x[u]
    BY <1>2 DEF CoveredBy, Cpp11!Heads
  <2>4. Join(s, sync.clk)[u] \in {s[u], sync.clk[u]}
    BY DEF Join
  <2> QED
    BY <1>6, <2>2, <2>3, <2>4
<1>10. Cpp11!MayLearn(t, Cpp11!Heads) /\ clock'[t] = c /\ clock' \in [Tid -> Clock]
  BY <1>2, <1>7, <1>9, LearnFromParts
<1>11. CoveredBy(f, Cpp11!Heads \cup {facq[t]})
  <2>1. SUFFICES ASSUME NEW u \in Tid
                 PROVE  \E x \in Cpp11!Heads \cup {facq[t]} : f[u] <= x[u]
    BY DEF CoveredBy
  <2>2. facq[t][u] \in Nat /\ sync.clk[u] \in Nat
    BY <1>2 DEF Clock
  <2>3. PICK x \in Cpp11!Heads : sync.clk[u] <= x[u]
    BY <1>2 DEF CoveredBy, Cpp11!Heads
  <2>4. f[u] \in {facq[t][u], sync.clk[u]}
    BY DEF Join
  <2> QED
    BY <2>2, <2>3, <2>4
<1>12. facq'[t] = f /\ facq' \in [Tid -> Clock]
  BY <1>2, <1>8
<1>13. Cpp11!ReadsLast(t)
  <2>1. Cpp11!CoveredBy(f, Cpp11!Heads \cup {facq[t]})
    BY <1>11 DEF CoveredBy, Cpp11!CoveredBy
  <2> QED
    BY <1>8, <1>10, <1>12, <2>1, SpecOperators DEF Cpp11!ReadsLast
<1>14. \A u \in Tid : /\ Leq(clock'[u], epoch') /\ Leq(frel'[u], epoch')
                      /\ Leq(facq'[u], epoch')
  BY <1>2, <1>3, <1>7, <1>8
<1> QED
  BY <1>2, <1>3, <1>7, <1>10, <1>12, <1>13, <1>14

\* AtomicLoad.
LEMMA LoadStep ==
  ASSUME IInv, NEW t \in Tid, NEW mo \in Order, Load(t, mo)
  PROVE  IInv' /\ Cpp11!Load(t)
<1>1. epoch' \in Clock /\ Leq(epoch, epoch')
  BY DEF Load, IInv, Types, Clock, Leq
<1>2. /\ clock \in [Tid -> Clock] /\ facq \in [Tid -> Clock]
      /\ sync \in SyncClock /\ heads \in Headings /\ Sound(sync, heads)
  BY DEF IInv, Types, Headings
<1>3. PICK c \in {Stamped(t), Join(Stamped(t), sync.clk)} :
        clock' = [clock EXCEPT ![t] = c]
  BY DEF Load
<1>4. PICK f \in {facq[t], Join(facq[t], sync.clk)} :
        facq' = [facq EXCEPT ![t] = f]
  <2>1. facq = [facq EXCEPT ![t] = facq[t]]
    BY <1>2
  <2> QED
    BY <2>1 DEF Load
<1>5. UNCHANGED <<frel, sync, dead, ticks, heads, blurred>>
  BY DEF Load
<1>6. /\ clock' \in [Tid -> Clock] /\ facq' \in [Tid -> Clock]
      /\ frel' \in [Tid -> Clock]
      /\ \A u \in Tid : /\ Leq(clock'[u], epoch')
                        /\ Leq(frel'[u], epoch')
                        /\ Leq(facq'[u], epoch')
      /\ Below(sync, epoch')
      /\ Cpp11!ReadsLast(t)
  BY <1>1, <1>3, <1>4, <1>5, ReadStep
<1>7. dead' \in BOOLEAN /\ ticks' \in Nat /\ blurred' \in BOOLEAN
  BY <1>5 DEF IInv, Types
<1>8. IInv'
  BY <1>1, <1>2, <1>5, <1>6, <1>7, InvFromParts
<1> QED
  BY <1>5, <1>6, <1>8 DEF Cpp11!Load

\* Publishing a clock on top of the heads.
LEMMA PublishFacts ==
  ASSUME heads \in Headings, NEW t \in Tid, NEW own \in Clock,
         heads' = [heads EXCEPT ![t] = Join(@, own)]
  PROVE  /\ heads' \in Headings /\ Leq(own, heads'[t])
         /\ \A u \in Tid : Leq(heads[u], heads'[u])
<1>1. heads[t] \in Clock
  BY DEF Headings
<1>2. /\ Join(heads[t], own) \in Clock
      /\ Leq(heads[t], Join(heads[t], own))
      /\ Leq(own, Join(heads[t], own))
  BY <1>1, ClockFacts
<1>3. \A u \in Tid : heads[u] \in Clock /\ Leq(heads[u], heads[u])
  BY DEF Headings, Clock, Leq
<1>4. heads'[t] = Join(heads[t], own) /\ \A u \in Tid \ {t} : heads'[u] = heads[u]
  BY DEF Headings
<1> QED
  BY <1>2, <1>3, <1>4 DEF Headings

\* AtomicRMW and a successful AtomicCAS.
LEMMA RmwStep ==
  ASSUME IInv, NEW t \in Tid, NEW mo \in Order, NEW keep \in BOOLEAN, Rmw(t, mo, keep)
  PROVE  IInv' /\ Cpp11!Rmw(t)
<1> DEFINE c == IF IsAcquireOrder(mo) THEN Join(Stamped(t), sync.clk) ELSE Stamped(t)
           own == Published(t, c, mo)
           rel == IsReleaseOrder(mo)
<1>1. epoch' \in Clock /\ Leq(epoch, epoch') /\ ticks' \in Nat
  BY TickFacts DEF Rmw
<1>2. /\ frel[t] \in Clock /\ facq \in [Tid -> Clock]
      /\ sync \in SyncClock /\ heads \in Headings /\ Sound(sync, heads)
  BY DEF IInv, Types, Headings
<1>3. /\ clock' = [clock EXCEPT ![t] = c]
      /\ sync' = RmwSync(sync, t, c, frel[t], rel, keep)
      /\ heads' = [heads EXCEPT ![t] = Join(@, own)]
      /\ blurred' = (blurred \/ Blurs(t, mo, keep))
      /\ UNCHANGED <<frel, dead>>
  BY DEF Rmw
<1>4. PICK f \in {facq[t], Join(facq[t], sync.clk)} :
        facq' = [facq EXCEPT ![t] = f]
  <2>1. facq = [facq EXCEPT ![t] = facq[t]]
    BY <1>2
  <2> QED
    BY <2>1 DEF Rmw
<1>5. c \in {Stamped(t), Join(Stamped(t), sync.clk)}
  OBVIOUS
<1>6. own = IF rel THEN c ELSE frel[t]
  BY DEF Published
<1>7. dead' \in BOOLEAN /\ blurred' \in BOOLEAN /\ rel \in BOOLEAN
  BY <1>3 DEF IInv, Types, Blurs, IsReleaseOrder
<1> HIDE DEF c, own, rel
<1>8. /\ c \in Clock /\ Leq(c, epoch')
      /\ clock' \in [Tid -> Clock] /\ clock'[t] = c /\ facq' \in [Tid -> Clock]
      /\ frel' \in [Tid -> Clock]
      /\ \A u \in Tid : /\ Leq(clock'[u], epoch')
                        /\ Leq(frel'[u], epoch')
                        /\ Leq(facq'[u], epoch')
      /\ Below(sync, epoch')
      /\ Cpp11!ReadsLast(t)
  BY <1>1, <1>3, <1>4, <1>5, ReadStep
<1>9. own \in Clock /\ own \in {c, frel[t]}
  BY <1>2, <1>6, <1>8
<1>10. /\ heads' \in Headings /\ Leq(own, heads'[t])
       /\ \A u \in Tid : Leq(heads[u], heads'[u])
  BY <1>2, <1>3, <1>9, PublishFacts
<1>11. Sound(sync, heads')
  BY <1>2, <1>10, SoundGrows
<1>12. sync' \in SyncClock /\ Sound(sync', heads')
  BY <1>2, <1>3, <1>6, <1>7, <1>8, <1>10, <1>11, RmwSound
<1>13. Below(sync', epoch')
  <2>1. Leq(frel[t], epoch')
    BY <1>1, FutureGrows
  <2>2. MigrateToVvc(sync) \in SyncClock /\ Sound(MigrateToVvc(sync), heads)
    BY <1>2, MigrateSound
  <2>3. Release(MigrateToVvc(sync), t, c, keep) \in SyncClock
    <3>1. CASE IsEmpty(MigrateToVvc(sync))
      BY <1>8, <3>1, NoEntriesFacts DEF Release, ReleaseStore, SyncClock, Entry
    <3>2. CASE ~IsEmpty(MigrateToVvc(sync))
      <4>1. Join(MigrateToVvc(sync).clk, c) \in Clock
        BY <1>8, <2>2, SyncClockParts, ClockFacts
      <4> QED
        BY <2>2, <3>2, <4>1, SyncClockParts DEF Release, SyncClock, Entry
    <3> QED
      BY <3>1, <3>2
  <2> QED
    BY <1>1, <1>2, <1>3, <1>7, <1>8, <2>1, <2>2, <2>3, RmwBelow
<1>14. IInv'
  BY <1>1, <1>7, <1>8, <1>10, <1>12, <1>13, InvFromParts
<1>15. Cpp11!Rmw(t)
  <2>1. own \in Cpp11!Own(t)
    BY <1>8, <1>9 DEF Cpp11!Own
  <2>2. heads' = [heads EXCEPT ![t] = Cpp11!Join(heads[t], own)]
    <3>1. heads[t] \in Clock
      BY <1>2 DEF Headings
    <3> QED
      BY <1>3, <1>9, <3>1, SpecOperators
  <2> QED
    BY <1>8, <2>1, <2>2 DEF Cpp11!Rmw
<1> QED
  BY <1>14, <1>15

\* AtomicCAS that succeeds with mo_relaxed: an RMW that learns nothing.
LEMMA CasRelaxedStep ==
  ASSUME IInv, NEW t \in Tid, CasRelaxed(t)
  PROVE  IInv' /\ Cpp11!Rmw(t)
<1>1. epoch' \in Clock /\ Leq(epoch, epoch') /\ ticks' \in Nat
  BY TickFacts DEF CasRelaxed
<1>2. /\ clock \in [Tid -> Clock] /\ frel[t] \in Clock /\ facq \in [Tid -> Clock]
      /\ sync \in SyncClock /\ heads \in Headings /\ Sound(sync, heads)
  BY DEF IInv, Types, Headings
<1>3. /\ clock' = [clock EXCEPT ![t] = clock[t]]
      /\ facq' = [facq EXCEPT ![t] = facq[t]]
      /\ heads' = [heads EXCEPT ![t] = Join(@, frel[t])]
      /\ blurred' = (blurred \/ frel[t] # Zero)
      /\ UNCHANGED <<frel, sync, dead>>
  BY <1>2 DEF CasRelaxed
<1>4. /\ clock' \in [Tid -> Clock] /\ facq' \in [Tid -> Clock]
      /\ frel' \in [Tid -> Clock]
      /\ \A u \in Tid : /\ Leq(clock'[u], epoch')
                        /\ Leq(frel'[u], epoch')
                        /\ Leq(facq'[u], epoch')
      /\ Below(sync, epoch')
      /\ Cpp11!ReadsLast(t)
  BY <1>1, <1>3, ReadStep
<1>5. /\ heads' \in Headings /\ \A u \in Tid : Leq(heads[u], heads'[u])
  BY <1>2, <1>3, PublishFacts
<1>6. Sound(sync', heads')
  BY <1>2, <1>3, <1>5, SoundGrows
<1>7. dead' \in BOOLEAN /\ blurred' \in BOOLEAN
  BY <1>3 DEF IInv, Types
<1>8. IInv'
  BY <1>1, <1>2, <1>3, <1>4, <1>5, <1>6, <1>7, InvFromParts
<1>9. heads' = [heads EXCEPT ![t] = Cpp11!Join(heads[t], frel[t])]
  <2>1. heads[t] \in Clock
    BY <1>2 DEF Headings
  <2> QED
    BY <1>2, <1>3, <2>1, SpecOperators
<1> QED
  BY <1>4, <1>8, <1>9 DEF Cpp11!Rmw, Cpp11!Own

\* AtomicCAS that fails: a load of the last store.
LEMMA CasFailStep ==
  ASSUME IInv, NEW t \in Tid, NEW fmo \in Order, CasFail(t, fmo)
  PROVE  IInv' /\ Cpp11!Load(t)
<1>1. epoch' \in Clock /\ Leq(epoch, epoch') /\ ticks' \in Nat
  BY TickFacts DEF CasFail
<1>2. /\ clock \in [Tid -> Clock] /\ facq \in [Tid -> Clock]
      /\ sync \in SyncClock /\ heads \in Headings /\ Sound(sync, heads)
  BY DEF IInv, Types, Headings
<1>3. PICK c \in {clock[t], Join(Stamped(t), sync.clk)} :
        clock' = [clock EXCEPT ![t] = c]
  <2>1. clock = [clock EXCEPT ![t] = clock[t]]
    BY <1>2
  <2> QED
    BY <2>1 DEF CasFail
<1>4. /\ facq' = [facq EXCEPT ![t] = facq[t]]
      /\ UNCHANGED <<frel, sync, dead, heads, blurred>>
  BY <1>2 DEF CasFail
<1>5. /\ clock' \in [Tid -> Clock] /\ facq' \in [Tid -> Clock]
      /\ frel' \in [Tid -> Clock]
      /\ \A u \in Tid : /\ Leq(clock'[u], epoch')
                        /\ Leq(frel'[u], epoch')
                        /\ Leq(facq'[u], epoch')
      /\ Below(sync, epoch')
      /\ Cpp11!ReadsLast(t)
  BY <1>1, <1>3, <1>4, ReadStep
<1>6. dead' \in BOOLEAN /\ blurred' \in BOOLEAN
  BY <1>4 DEF IInv, Types
<1>7. IInv'
  BY <1>1, <1>2, <1>4, <1>5, <1>6, InvFromParts
<1> QED
  BY <1>4, <1>5, <1>7 DEF Cpp11!Load

\* AtomicFence.
LEMMA FenceStep ==
  ASSUME IInv, NEW t \in Tid, NEW mo \in Order, Fence(t, mo)
  PROVE  IInv' /\ Cpp11!Fence(t)
<1> DEFINE s == Stamped(t)
           c == IF IsLoadOrder(mo) THEN Join(s, facq[t]) ELSE s
           f == IF IsReleaseOrder(mo) THEN Join(frel[t], s) ELSE frel[t]
<1>1. epoch' \in Clock /\ Leq(epoch, epoch') /\ ticks' \in Nat
  BY TickFacts DEF Fence
<1>2. /\ clock \in [Tid -> Clock] /\ frel \in [Tid -> Clock]
      /\ facq \in [Tid -> Clock] /\ frel[t] \in Clock /\ facq[t] \in Clock
      /\ sync \in SyncClock /\ heads \in Headings /\ Sound(sync, heads)
  BY DEF IInv, Types, Headings
<1>3. /\ clock' = [clock EXCEPT ![t] = c]
      /\ frel' = [frel EXCEPT ![t] = f]
      /\ UNCHANGED <<facq, sync, dead, heads, blurred>>
  BY <1>2 DEF Fence
<1>4. /\ s \in Clock /\ Leq(clock[t], s) /\ Leq(s, epoch')
      /\ \A u \in Tid \ {t} : s[u] = clock[t][u]
  BY <1>1, StampedFacts
<1>5. /\ \A u \in Tid : /\ Leq(clock[u], epoch') /\ Leq(frel[u], epoch')
                        /\ Leq(facq[u], epoch')
      /\ Below(sync, epoch')
  BY <1>1, FutureGrows
<1> HIDE DEF s
<1>6. /\ Join(s, facq[t]) \in Clock /\ Leq(s, Join(s, facq[t]))
      /\ Leq(Join(s, facq[t]), epoch')
      /\ Join(frel[t], s) \in Clock /\ Leq(Join(frel[t], s), epoch')
  BY <1>1, <1>2, <1>4, <1>5, ClockFacts, JoinLeast
<1>7. c \in Clock /\ Leq(c, epoch') /\ Leq(s, c) /\ f \in Clock /\ Leq(f, epoch')
  <2>1. Leq(s, s)
    BY <1>4 DEF Leq, Clock
  <2> QED
    BY <1>2, <1>4, <1>5, <1>6, <2>1
<1>8. Leq(clock[t], c)
  BY <1>2, <1>4, <1>7, LeqTransitive
<1>9. \A u \in Tid \ {t} : \E x \in {facq[t]} \cup {clock[t]} : c[u] <= x[u]
  <2>1. SUFFICES ASSUME NEW u \in Tid \ {t}
                 PROVE  c[u] <= facq[t][u] \/ c[u] <= clock[t][u]
    OBVIOUS
  <2>2. clock[t][u] \in Nat /\ s[u] = clock[t][u] /\ facq[t][u] \in Nat
    BY <1>2, <1>4 DEF Clock
  <2>3. c[u] \in {s[u], facq[t][u]}
    BY DEF Join
  <2> QED
    BY <2>2, <2>3
<1>10. CoveredBy(f, {frel[t], c})
  <2>1. SUFFICES ASSUME NEW u \in Tid
                 PROVE  f[u] <= frel[t][u] \/ f[u] <= c[u]
    BY DEF CoveredBy
  <2>2. frel[t][u] \in Nat /\ s[u] \in Nat /\ s[u] <= c[u]
    BY <1>2, <1>4, <1>7 DEF Clock, Leq
  <2>3. f[u] \in {frel[t][u], s[u]}
    BY DEF Join
  <2> QED
    BY <2>2, <2>3
<1> HIDE DEF c, f
<1>11. Cpp11!MayLearn(t, {facq[t]}) /\ clock'[t] = c /\ clock' \in [Tid -> Clock]
  BY <1>2, <1>3, <1>7, <1>8, <1>9, LearnFromParts
<1>12. frel' \in [Tid -> Clock] /\ frel'[t] = f
  BY <1>2, <1>3, <1>7
<1>13. \A u \in Tid : /\ Leq(clock'[u], epoch') /\ Leq(frel'[u], epoch')
                      /\ Leq(facq'[u], epoch')
  BY <1>2, <1>3, <1>5, <1>7
<1>14. dead' \in BOOLEAN /\ blurred' \in BOOLEAN
  BY <1>3 DEF IInv, Types
<1>15. IInv'
  BY <1>1, <1>2, <1>3, <1>5, <1>11, <1>12, <1>13, <1>14, InvFromParts
<1>16. Cpp11!Fence(t)
  <2>1. Cpp11!CoveredBy(f, {frel[t], c})
    BY <1>10 DEF CoveredBy, Cpp11!CoveredBy
  <2> QED
    BY <1>3, <1>7, <1>11, <1>12, <2>1, SpecOperators DEF Cpp11!Fence
<1> QED
  BY <1>15, <1>16

\* A full VVC stops the process and changes nothing else.
LEMMA RmwDieStep ==
  ASSUME IInv, NEW t \in Tid, NEW mo \in Order, RmwDie(t, mo)
  PROVE  IInv' /\ UNCHANGED <<clock, heads, frel, facq>>
<1>1. dead' = TRUE /\ UNCHANGED <<epoch, clock, frel, facq, sync, ticks, heads, blurred>>
  BY DEF RmwDie
<1> QED
  BY <1>1 DEF IInv, Types, NoFutureEpoch

\* Every step keeps the invariant and is a step of the abstract machine.
LEMMA NextStep ==
  IInv /\ [Next]_vars => IInv' /\ [Cpp11!Next]_(Cpp11!vars)
<1> SUFFICES ASSUME IInv, [Next]_vars
             PROVE  IInv' /\ [Cpp11!Next]_(Cpp11!vars)
  OBVIOUS
<1>1. CASE UNCHANGED vars
  BY <1>1 DEF vars, IInv, Types, NoFutureEpoch, Cpp11!vars
<1>2. CASE Next
  <2>1. PICK t \in Tid :
          \/ \E mo \in Uses.load : Load(t, mo)
          \/ \E mo \in Uses.store : Store(t, mo)
          \/ \E mo \in Uses.rmw, keep \in BOOLEAN : Rmw(t, mo, keep)
          \/ \E mo \in Uses.rmw : RmwDie(t, mo)
          \/ \E mo \in Uses.cas : mo = "relaxed" /\ CasRelaxed(t)
          \/ \E mo \in Uses.casfail : CasFail(t, mo)
          \/ \E mo \in Uses.fence : Fence(t, mo)
    BY <1>2, Zenon DEF Next
  <2>2. /\ Uses.load \subseteq Order /\ Uses.store \subseteq Order
        /\ Uses.rmw \subseteq Order /\ Uses.casfail \subseteq Order
        /\ Uses.fence \subseteq Order
    BY UsesAssumption
  <2>3. CASE \E mo \in Uses.load : Load(t, mo)
    BY <2>2, <2>3, LoadStep DEF Cpp11!Next
  <2>4. CASE \E mo \in Uses.store : Store(t, mo)
    BY <2>2, <2>4, StoreStep DEF Cpp11!Next
  <2>5. CASE \E mo \in Uses.rmw, keep \in BOOLEAN : Rmw(t, mo, keep)
    BY <2>2, <2>5, RmwStep DEF Cpp11!Next
  <2>6. CASE \E mo \in Uses.rmw : RmwDie(t, mo)
    BY <2>2, <2>6, RmwDieStep DEF Cpp11!vars
  <2>7. CASE \E mo \in Uses.cas : mo = "relaxed" /\ CasRelaxed(t)
    BY <2>7, CasRelaxedStep DEF Cpp11!Next
  <2>8. CASE \E mo \in Uses.casfail : CasFail(t, mo)
    BY <2>2, <2>8, CasFailStep DEF Cpp11!Next
  <2>9. CASE \E mo \in Uses.fence : Fence(t, mo)
    BY <2>2, <2>9, FenceStep DEF Cpp11!Next
  <2> QED
    BY <2>1, <2>3, <2>4, <2>5, <2>6, <2>7, <2>8, <2>9
<1> QED
  BY <1>1, <1>2

\* Initial states are initial states of the abstract machine.
LEMMA InitSpec == Init => Cpp11!Init
<1> SUFFICES ASSUME Init PROVE Cpp11!Init
  OBVIOUS
<1>1. clock \in [Tid -> Clock] /\ \A t, u \in Tid : t # u => clock[t][u] = 0
  BY DEF Init, Zero, Clock
<1> QED
  BY <1>1, SpecOperators DEF Init, Cpp11!Init

\* The state keeps its types (the operations of tsan_clock.cc on SyncClocks
\* and thread clocks).
THEOREM TypeCorrect == Spec => []TypeOK
<1>1. Init => IInv
  BY InitInv
<1>2. IInv /\ [Next]_vars => IInv'
  BY NextStep
<1>3. IInv => TypeOK
  BY InvParts
<1> QED
  BY <1>1, <1>2, <1>3, PTL DEF Spec

\* A location's clock, and what the next plain store would keep of it, never
\* hold more than the release sequences of the last store
\* (ReleaseStore, NonReleaseStore, NonReleaseStore2 and RMW).
THEOREM SyncClockSound == Spec => []SyncWithinHeads
<1>1. Init => IInv
  BY InitInv
<1>2. IInv /\ [Next]_vars => IInv'
  BY NextStep
<1>3. IInv => SyncWithinHeads
  BY InvParts
<1> QED
  BY <1>1, <1>2, <1>3, PTL DEF Spec

\* No clock holds an epoch its thread has not reached (IncrementEpoch and
\* thr->clock.set in every handler).
THEOREM EpochsAreReal == Spec => []NoFutureEpoch
<1>1. Init => IInv
  BY InitInv
<1>2. IInv /\ [Next]_vars => IInv'
  BY NextStep
<1>3. IInv => NoFutureEpoch
  BY InvParts
<1> QED
  BY <1>1, <1>2, <1>3, PTL DEF Spec

\* The runtime's atomics on a location implement the abstract machine: no
\* thread learns an epoch C++11 would not let it learn, so no race is hidden.
THEOREM ImplementsCpp11 == Spec => LearnsOnlyCpp11
<1>1. Init => IInv /\ Cpp11!Init
  BY InitInv, InitSpec
<1>2. IInv /\ [Next]_vars => IInv' /\ [Cpp11!Next]_(Cpp11!vars)
  BY NextStep
<1> QED
  BY <1>1, <1>2, PTL DEF Spec, LearnsOnlyCpp11, Cpp11!Spec
=============================================================================
