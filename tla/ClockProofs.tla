---------------------------- MODULE ClockProofs ----------------------------
(***************************************************************************)
(* Facts about vector clocks and SyncClocks that the proofs share: clocks  *)
(* are a lattice, and the operations on a SyncClock stay within any set of *)
(* clocks that is one.                                                     *)
(***************************************************************************)
EXTENDS SyncClockOps, TLAPS

\* Zero is a clock, and a join of clocks is a clock above both.
LEMMA ClockFacts ==
  /\ Zero \in Clock
  /\ \A a, b \in Clock : /\ Join(a, b) \in Clock
                         /\ Leq(a, Join(a, b))
                         /\ Leq(b, Join(a, b))
BY DEF Clock, Zero, Join, Leq

\* Zero is the least clock.
LEMMA ZeroLeast ==
  ASSUME NEW a \in Clock
  PROVE  Leq(Zero, a)
<1>1. SUFFICES ASSUME NEW t \in Tid PROVE Zero[t] <= a[t]
  BY DEF Leq
<1>2. Zero[t] = 0 /\ a[t] \in Nat
  BY DEF Zero, Clock
<1> QED
  BY <1>2

\* A join is the least clock above both.
LEMMA JoinLeast ==
  ASSUME NEW a \in Clock, NEW b \in Clock, NEW c \in Clock, Leq(a, c), Leq(b, c)
  PROVE  Leq(Join(a, b), c)
BY DEF Clock, Join, Leq

\* Leq is transitive.
LEMMA LeqTransitive ==
  ASSUME NEW a \in Clock, NEW b \in Clock, NEW c \in Clock, Leq(a, b), Leq(b, c)
  PROVE  Leq(a, c)
<1>1. SUFFICES ASSUME NEW t \in Tid PROVE a[t] <= c[t]
  BY DEF Leq
<1>2. a[t] \in Nat /\ b[t] \in Nat /\ c[t] \in Nat
  BY DEF Clock
<1>3. a[t] <= b[t] /\ b[t] <= c[t]
  BY DEF Leq
<1> QED
  BY <1>2, <1>3

\* Every clock is below itself, and two clocks below each other are one.
LEMMA LeqOrder ==
  ASSUME NEW a \in Clock, NEW b \in Clock
  PROVE  Leq(a, a) /\ (Leq(a, b) /\ Leq(b, a) => a = b)
<1>1. ASSUME NEW t \in Tid PROVE a[t] \in Nat /\ b[t] \in Nat /\ a[t] <= a[t]
  <2>1. a[t] \in Nat /\ b[t] \in Nat
    BY DEF Clock
  <2> QED
    BY <2>1
<1>2. Leq(a, a)
  BY <1>1 DEF Leq
<1>3. ASSUME Leq(a, b), Leq(b, a) PROVE a = b
  <2>1. ASSUME NEW t \in Tid PROVE a[t] = b[t]
    <3>1. a[t] <= b[t] /\ b[t] <= a[t]
      BY <1>3 DEF Leq
    <3> QED
      BY <1>1, <3>1
  <2> QED
    BY <2>1 DEF Clock
<1> QED
  BY <1>2, <1>3

\* Only Zero is below Zero, and joining it changes nothing.
LEMMA ZeroFacts ==
  ASSUME NEW a \in Clock
  PROVE  (Leq(a, Zero) => a = Zero) /\ Join(a, Zero) = a
<1>1. Leq(a, Zero) => a = Zero
  BY ZeroLeast, LeqOrder, ClockFacts
<1>2. Join(a, Zero) = a
  BY DEF Join, Zero, Clock
<1> QED
  BY <1>1, <1>2

-----------------------------------------------------------------------------
(* SyncClocks whose clocks come from a set G. *)

\* G holds Zero and the joins of its members. Clock does, and so do the clocks
\* that have some property that joins keep.
Lattice(G) == G \subseteq Clock /\ Zero \in G /\ \A a, b \in G : Join(a, b) \in G

Vvcs(G) == UNION {[S -> G] : S \in SUBSET Entry}

SyncClocks(G) == [clk : G, owner : Entry, vvc : Vvcs(G)]

\* All clocks are a lattice.
LEMMA ClockLattice == Lattice(Clock)
BY ClockFacts DEF Lattice

\* The parts of a SyncClock.
LEMMA SyncClocksParts ==
  ASSUME NEW G, NEW d \in SyncClocks(G)
  PROVE  /\ d = [clk |-> d.clk, owner |-> d.owner, vvc |-> d.vvc]
         /\ d.clk \in G /\ d.owner \in Entry /\ d.vvc \in Vvcs(G)
         /\ \A e \in DOMAIN d.vvc : e \in Entry /\ d.vvc[e] \in G
BY DEF SyncClocks, Vvcs

\* The VVC without entries.
LEMMA NoEntriesIn ==
  ASSUME NEW G
  PROVE  NoEntries \in Vvcs(G)
<1>1. NoEntries \in [{} -> G] /\ {} \in SUBSET Entry
  BY DEF NoEntries
<1> QED
  BY <1>1 DEF Vvcs

\* A VVC with an entry added or replaced.
LEMMA SetEntryIn ==
  ASSUME NEW G, NEW v \in Vvcs(G), NEW e \in Entry, NEW c \in G
  PROVE  SetEntry(v, e, c) \in Vvcs(G)
<1>1. PICK S \in SUBSET Entry : v \in [S -> G]
  BY DEF Vvcs
<1>2. S \cup {e} \in SUBSET Entry
  OBVIOUS
<1>3. SetEntry(v, e, c) \in [S \cup {e} -> G]
  BY <1>1 DEF SetEntry
<1> QED
  BY <1>2, <1>3 DEF Vvcs

\* An empty SyncClock, and one that holds a clock of t.
LEMMA ReleaseStoreIn ==
  ASSUME NEW G, Lattice(G), NEW t \in Tid, NEW c \in G
  PROVE  Reset \in SyncClocks(G) /\ ReleaseStore(t, c) \in SyncClocks(G)
<1>1. NoEntries \in Vvcs(G) /\ NoTid \in Entry /\ t \in Entry
  BY NoEntriesIn DEF Entry
<1> QED
  BY <1>1 DEF Reset, ReleaseStore, SyncClocks, Lattice

\* A plain store (both halves).
LEMMA PlainStoreIn ==
  ASSUME NEW G, Lattice(G), NEW d \in SyncClocks(G), NEW t \in Tid, NEW f \in G
  PROVE  NonReleaseStore2(NonReleaseStore(d, t), t, f) \in SyncClocks(G)
<1>1. NonReleaseStore(d, t) \in SyncClocks(G)
  <2>1. CASE VvcInUse(d) /\ t \in DOMAIN d.vvc
    <3>1. d.vvc[t] \in G
      BY <2>1, SyncClocksParts
    <3> QED
      BY <2>1, <3>1, ReleaseStoreIn DEF NonReleaseStore
  <2>2. CASE NonReleaseStore(d, t) = d
    BY <2>2
  <2>3. CASE NonReleaseStore(d, t) = Reset
    BY <2>3, ReleaseStoreIn
  <2> QED
    BY <2>1, <2>2, <2>3 DEF NonReleaseStore
<1> QED
  BY <1>1, ReleaseStoreIn DEF NonReleaseStore2

\* release into a SyncClock.
LEMMA ReleaseIn ==
  ASSUME NEW G, Lattice(G), NEW d \in SyncClocks(G), NEW t \in Tid, NEW c \in G,
         NEW keep \in BOOLEAN
  PROVE  Release(d, t, c, keep) \in SyncClocks(G)
<1>1. CASE IsEmpty(d)
  BY <1>1, ReleaseStoreIn DEF Release
<1>2. CASE ~IsEmpty(d)
  <2> DEFINE o == IF keep /\ d.owner = t THEN t ELSE NoTid
  <2>1. Release(d, t, c, keep) = [clk |-> Join(d.clk, c), owner |-> o, vvc |-> d.vvc]
    BY <1>2 DEF Release
  <2>2. o \in Entry
    BY DEF Entry
  <2>3. Join(d.clk, c) \in G /\ d.vvc \in Vvcs(G)
    BY SyncClocksParts DEF Lattice
  <2> HIDE DEF o
  <2> QED
    BY <2>1, <2>2, <2>3 DEF SyncClocks
<1> QED
  BY <1>1, <1>2

\* A read-modify-write.
LEMMA RmwSyncIn ==
  ASSUME NEW G, Lattice(G), NEW d \in SyncClocks(G), NEW t \in Tid, NEW c \in G,
         NEW f \in G, NEW rel \in BOOLEAN, NEW keep \in BOOLEAN
  PROVE  RmwSync(d, t, c, f, rel, keep) \in SyncClocks(G)
<1>1. CASE ~rel /\ f = Zero
  BY <1>1 DEF RmwSync
<1>2. CASE ~rel /\ f # Zero /\ IsSimple(d, t)
  <2>1. RmwSync(d, t, c, f, rel, keep) = NonReleaseStore2(d, t, f)
    BY <1>2 DEF RmwSync
  <2> QED
    BY <2>1, ReleaseStoreIn DEF NonReleaseStore2
<1>3. CASE ~rel /\ f # Zero /\ ~IsSimple(d, t)
  <2>1. RmwSync(d, t, c, f, rel, keep) = [clk |-> Join(d.clk, f), owner |-> NoTid, vvc |-> d.vvc]
    BY <1>3 DEF RmwSync, JoinClock
  <2>2. Join(d.clk, f) \in G /\ d.vvc \in Vvcs(G) /\ NoTid \in Entry
    BY SyncClocksParts DEF Lattice, Entry
  <2> QED
    BY <2>1, <2>2 DEF SyncClocks
<1>4. CASE rel /\ IsSimple(d, t)
  BY <1>4, ReleaseIn DEF RmwSync
<1>5. CASE rel /\ ~IsSimple(d, t)
  <2> DEFINE m == MigrateToVvc(d)
             r == Release(m, t, c, keep)
  <2>1. RmwSync(d, t, c, f, rel, keep)
          = [clk |-> r.clk, owner |-> r.owner, vvc |-> SetEntry(r.vvc, t, c)]
    BY <1>5 DEF RmwSync
  <2>2. m \in SyncClocks(G)
    <3>1. CASE VvcInUse(d)
      BY <3>1 DEF MigrateToVvc
    <3>2. CASE ~VvcInUse(d)
      <4>1. SetEntry(d.vvc, d.owner, d.clk) \in Vvcs(G) /\ d.clk \in G /\ d.owner \in Entry
        BY SyncClocksParts, SetEntryIn
      <4> QED
        BY <3>2, <4>1 DEF MigrateToVvc, SyncClocks
    <3> QED
      BY <3>1, <3>2
  <2> HIDE DEF m
  <2>3. r \in SyncClocks(G)
    BY <2>2, ReleaseIn
  <2> HIDE DEF r
  <2>4. SetEntry(r.vvc, t, c) \in Vvcs(G) /\ r.clk \in G /\ r.owner \in Entry
    <3>1. r.vvc \in Vvcs(G) /\ r.clk \in G /\ r.owner \in Entry /\ t \in Entry
      BY <2>3, SyncClocksParts DEF Entry
    <3> QED
      BY <3>1, SetEntryIn
  <2> QED
    BY <2>1, <2>4 DEF SyncClocks
<1> QED
  BY <1>1, <1>2, <1>3, <1>4, <1>5
=============================================================================
