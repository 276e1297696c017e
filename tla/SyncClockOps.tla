---------------------------- MODULE SyncClockOps ----------------------------
(***************************************************************************)
(* The SyncClock of an atomic location (tsan_clock.cc): what an acquire of *)
(* the location's last store learns, and enough of its history to know     *)
(* which release sequences the next store continues.                       *)
(*                                                                         *)
(*   clk    the table of epochs; Zero is a table of size 0                 *)
(*   owner  release_store_tid_, the thread whose release sequences the     *)
(*          table holds, or NoTid (kInvalidTid, and the -1 of RMW)         *)
(*   vvc    the vector of vector clocks: the clocks_ of the entries below  *)
(*          last_free_idx_, indexed by their tids_; no entries stands for  *)
(*          vvc_in_use_ being false                                        *)
(*                                                                         *)
(* t is the calling thread and c its clock, already stamped with its       *)
(* epoch. The fence clocks of a thread are SyncClocks of which only the    *)
(* table is ever read, so they are plain clocks here.                      *)
(***************************************************************************)
EXTENDS Clocks, FiniteSets

CONSTANTS NoTid, kNumElems

ASSUME NoTidAssumption == NoTid \notin Tid

Entry == Tid \cup {NoTid}

IsSyncClock(d) ==
  /\ d = [clk |-> d.clk, owner |-> d.owner, vvc |-> d.vvc]
  /\ d.clk \in Clock
  /\ d.owner \in Entry
  /\ DOMAIN d.vvc \subseteq Entry
  /\ d.vvc \in [DOMAIN d.vvc -> Clock]

NoEntries == [e \in {} |-> Zero]

\* The state SyncClock::Reset leaves, and that of a new SyncClock.
Reset == [clk |-> Zero, owner |-> NoTid, vvc |-> NoEntries]

IsEmpty(d) == d.clk = Zero

VvcInUse(d) == DOMAIN d.vvc # {}

\* The table of src without its owner and its VVC.
CopyClock(src) == [clk |-> src.clk, owner |-> NoTid, vvc |-> NoEntries]

\* Mutant of JoinClock: the owner stays.
JoinClockKeepsOwner(d, c) == [d EXCEPT !.clk = Join(@, c)]

\* Mutant of JoinClock: the bogus owner is the first thread id.
JoinClockOwnedByZero(d, c) == [clk |-> Join(d.clk, c), owner |-> 0, vvc |-> d.vvc]

\* RMW gives the table a bogus owner when it joins a clock onto it.
JoinClock(d, c) == [clk |-> Join(d.clk, c), owner |-> NoTid, vvc |-> d.vvc]

\* Mutant of ReleaseStore: only t's own entry is stored.
ReleaseStoreOwnEntry(t, c) ==
  [clk |-> [Zero EXCEPT ![t] = c[t]], owner |-> t, vvc |-> NoEntries]

ReleaseStore(t, c) == [clk |-> c, owner |-> t, vvc |-> NoEntries]

\* Mutant of Release: a table in use is not joined.
ReleaseUnmerged(d, t, c, keep) == IF IsEmpty(d) THEN ReleaseStore(t, c) ELSE d

\* keep: whether a release by the owner itself leaves it the owner. The
\* unpatched body of release decides it from what t acquired since, which
\* the patch does not see, so both outcomes are allowed.
Release(d, t, c, keep) ==
  IF IsEmpty(d)
  THEN ReleaseStore(t, c)
  ELSE [clk |-> Join(d.clk, c),
        owner |-> IF keep /\ d.owner = t THEN t ELSE NoTid,
        vvc |-> d.vvc]

\* Mutant of NonReleaseStore: a relaxed store cuts off nothing, as before the
\* patch.
NonReleaseStoreCutsNothing(d, t) == d

\* Mutant of NonReleaseStore: t's entry of a VVC is not looked for.
NonReleaseStoreIgnoresVvc(d, t) ==
  IF ~VvcInUse(d) /\ d.owner = t THEN d ELSE Reset

\* A store without release order continues only t's own release sequences.
NonReleaseStore(d, t) ==
  IF VvcInUse(d)
  THEN IF t \in DOMAIN d.vvc THEN ReleaseStore(t, d.vvc[t]) ELSE Reset
  ELSE IF d.owner = t THEN d ELSE Reset

\* CHECK(dst->release_store_tid_ == tid_ || dst->size_ == 0)
NonReleaseStore2Check(d, t) == d.owner = t \/ IsEmpty(d)

\* A release fence before the store heads a hypothetical release sequence.
NonReleaseStore2(d, t, frel) ==
  IF frel # Zero /\ (IsEmpty(d) \/ d.clk[t] < frel[t])
  THEN ReleaseStore(t, frel)
  ELSE d

\* The entry of thread t set to c, in place or as a new one.
SetEntry(vvc, t, c) ==
  [e \in DOMAIN vvc \cup {t} |-> IF e = t THEN c ELSE vvc[e]]

\* The table moved into a first entry for the thread that owned it.
MigrateToVvc(d) ==
  IF VvcInUse(d)
  THEN d
  ELSE [clk |-> d.clk, owner |-> d.owner,
        vvc |-> SetEntry(d.vvc, d.owner, d.clk)]

\* No current release sequence, or one of t's own.
IsSimple(d, t) == ~VvcInUse(d) /\ (IsEmpty(d) \/ d.owner = t)

\* What RMW does to the location's clock, after the acquire side.
RmwSync(d, t, c, frel, isRelease, keep) ==
  CASE ~isRelease /\ frel = Zero -> d
    [] ~isRelease /\ frel # Zero /\ IsSimple(d, t) -> NonReleaseStore2(d, t, frel)
    [] ~isRelease /\ frel # Zero /\ ~IsSimple(d, t) -> JoinClock(d, frel)
    [] isRelease /\ IsSimple(d, t) -> Release(d, t, c, keep)
    [] isRelease /\ ~IsSimple(d, t) ->
         LET r == Release(MigrateToVvc(d), t, c, keep)
         IN  [clk |-> r.clk, owner |-> r.owner, vvc |-> SetEntry(r.vvc, t, c)]

\* Mutant of RmwDies: one entry too early.
RmwDiesEarly(d, t, isRelease) ==
  /\ isRelease
  /\ ~IsSimple(d, t)
  /\ LET tids == DOMAIN MigrateToVvc(d).vvc
     IN  t \notin tids /\ Cardinality(tids) = kNumElems - 1

\* RMW finds no entry for t and no room for one: Die().
RmwDies(d, t, isRelease) ==
  /\ isRelease
  /\ ~IsSimple(d, t)
  /\ LET tids == DOMAIN MigrateToVvc(d).vvc
     IN  t \notin tids /\ Cardinality(tids) = kNumElems
=============================================================================
