-------------------------- MODULE NothingLostProofs --------------------------
(***************************************************************************)
(* Proofs that no release is lost while the SyncClock can tell the release *)
(* sequences apart, that the main clock covers the VVC, and that a full    *)
(* VVC means as many threads in release sequences, for any set of threads, *)
(* capacity of the VVC and use of memory orders.                           *)
(***************************************************************************)
EXTENDS ReleaseSequencesProofs, FiniteSetTheorems

\* A clock C that t's next plain store may keep and t's release fences' clock
\* f are ordered, and t's own entries tell how: what NonReleaseStore2 tests.
Chained(t, C, f) ==
  /\ C[t] < f[t] => Leq(C, f)
  /\ C[t] >= f[t] => Leq(f, C)

\* Thread t knows the release sequences it heads and what its fences cover.
Known(c, h, f) == \A t \in Tid : Leq(h[t], c[t]) /\ Leq(f[t], c[t])

\* VvcUnderClock, and every clock in a VVC that is in use has an entry.
Covers(d) ==
  VvcInUse(d) =>
    /\ d.owner = NoTid
    /\ ~IsEmpty(d)
    /\ \A e \in DOMAIN d.vvc : Leq(d.vvc[e], d.clk) /\ d.vvc[e] # Zero

\* What each thread would continue is known to it, and ordered with its fences.
Continues(d, c, f) ==
  \A t \in Tid :
    /\ d.owner = t => Leq(d.clk, c[t]) /\ Chained(t, d.clk, f[t])
    /\ t \in DOMAIN d.vvc => Leq(d.vvc[t], c[t]) /\ Chained(t, d.vvc[t], f[t])

\* Every sequence of a thread is in the table, and where the thread's next
\* plain store will look for it.
Keeps(d, h, f) ==
  \A t \in Tid :
    /\ Leq(h[t], d.clk)
    /\ ~VvcInUse(d) => d.owner = t \/ h[t] = Zero
    /\ VvcInUse(d) => IF t \in DOMAIN d.vvc THEN Leq(h[t], Join(d.vvc[t], f[t]))
                                            ELSE Leq(h[t], f[t])

\* r is d with an entry C for t: what a release RMW of t makes of a table that
\* holds release sequences of others.
HasEntry(r, d, t, C) ==
  /\ r.clk = Join(d.clk, C)
  /\ r.owner = NoTid
  /\ t \in DOMAIN r.vvc /\ r.vvc[t] = C
  /\ \A e \in DOMAIN r.vvc : e # t =>
       IF VvcInUse(d) THEN e \in DOMAIN d.vvc /\ r.vvc[e] = d.vvc[e]
                      ELSE e = d.owner /\ r.vvc[e] = d.clk
  /\ VvcInUse(d) => DOMAIN d.vvc \subseteq DOMAIN r.vvc
  /\ ~VvcInUse(d) => d.owner \in DOMAIN r.vvc

KInv ==
  /\ IInv
  /\ Known(clock, heads, frel)
  /\ Covers(sync)
  /\ Continues(sync, clock, frel)
  /\ ~blurred => Keeps(sync, heads, frel)

-----------------------------------------------------------------------------
(* Clocks. *)

\* A clock above the fences' clock is ordered with it.
LEMMA AboveIsChained ==
  ASSUME NEW t \in Tid, NEW C \in Clock, NEW f \in Clock, Leq(f, C)
  PROVE  Chained(t, C, f)
<1>1. C[t] \in Nat /\ f[t] \in Nat /\ f[t] <= C[t]
  BY DEF Clock, Leq
<1> QED
  BY <1>1 DEF Chained

\* A release fence of t, stamped s, keeps what t may continue ordered with
\* what its fences cover: it goes above it.
LEMMA FenceChained ==
  ASSUME NEW t \in Tid, NEW C \in Clock, NEW f \in Clock, NEW s \in Clock,
         Leq(C, s), C[t] < s[t]
  PROVE  Chained(t, C, Join(f, s))
<1>1. C[t] \in Nat /\ s[t] \in Nat /\ f[t] \in Nat
  BY DEF Clock
<1>2. Join(f, s) \in Clock /\ Leq(s, Join(f, s))
  BY ClockFacts
<1>3. Leq(C, Join(f, s))
  BY <1>2, LeqTransitive
<1>4. s[t] <= Join(f, s)[t] /\ Join(f, s)[t] \in Nat
  BY <1>2 DEF Leq, Clock
<1> QED
  BY <1>1, <1>3, <1>4 DEF Chained

-----------------------------------------------------------------------------
(* Stores. *)

\* A table of t alone, with the clock C of the release sequence that t's
\* store continues or heads.
LEMMA OwnTable ==
  ASSUME NEW c \in Headings, NEW h \in Headings, NEW f \in Headings,
         NEW t \in Tid, NEW C \in Clock,
         Leq(C, c[t]), Chained(t, C, f[t])
  PROVE  /\ Covers(ReleaseStore(t, C))
         /\ Continues(ReleaseStore(t, C), c, f)
         /\ Leq(h[t], C) /\ (\A u \in Tid \ {t} : h[u] = Zero)
              => Keeps(ReleaseStore(t, C), h, f)
<1> DEFINE d == ReleaseStore(t, C)
<1>1. d.clk = C /\ d.owner = t /\ DOMAIN d.vvc = {} /\ ~VvcInUse(d)
  BY NoEntriesFacts DEF ReleaseStore, VvcInUse
<1> HIDE DEF d
<1>2. Covers(d) /\ Continues(d, c, f)
  BY <1>1 DEF Covers, Continues
<1>3. Leq(h[t], C) /\ (\A u \in Tid \ {t} : h[u] = Zero) => Keeps(d, h, f)
  BY <1>1, ZeroLeast DEF Keeps
<1> QED
  BY <1>2, <1>3 DEF d

\* An empty table.
LEMMA NoTable ==
  ASSUME NEW c \in Headings, NEW h \in Headings, NEW f \in Headings
  PROVE  /\ Covers(Reset) /\ Continues(Reset, c, f)
         /\ (\A u \in Tid : h[u] = Zero) => Keeps(Reset, h, f)
<1>1. Reset.clk = Zero /\ Reset.owner = NoTid /\ DOMAIN Reset.vvc = {} /\ ~VvcInUse(Reset)
  BY ResetFacts DEF VvcInUse
<1>2. Covers(Reset) /\ Continues(Reset, c, f)
  BY <1>1, NoTidAssumption DEF Covers, Continues
<1>3. Leq(Zero, Zero)
  BY ClockFacts, ZeroLeast
<1> QED
  BY <1>1, <1>2, <1>3 DEF Keeps

\* A plain store finds the sequences of t in the table of t, in t's entry, or
\* covered by t's fences, and whatever it finds is ordered with those.
LEMMA NonReleaseStoreKeeps ==
  ASSUME NEW d \in SyncClock, NEW c \in Headings, NEW h \in Headings,
         NEW f \in Headings, NEW t \in Tid,
         Covers(d), Continues(d, c, f)
  PROVE  LET r == NonReleaseStore(d, t) IN
         /\ r = Reset \/ (r.owner = t /\ ~VvcInUse(r))
         /\ r \in SyncClock
         /\ r.owner = t => Leq(r.clk, c[t]) /\ Chained(t, r.clk, f[t])
         /\ Keeps(d, h, f) => Leq(h[t], Join(r.clk, f[t]))
<1> DEFINE r == NonReleaseStore(d, t)
<1>1. f[t] \in Clock /\ h[t] \in Clock /\ c[t] \in Clock /\ d.clk \in Clock
  BY SyncClockParts DEF Headings
<1>2. /\ Reset \in SyncClock /\ Reset.clk = Zero /\ Reset.owner # t
      /\ Leq(f[t], Join(Zero, f[t])) /\ Join(Zero, f[t]) \in Clock
      /\ Leq(Zero, Join(Zero, f[t]))
  BY <1>1, ResetFacts, ClockFacts, NoTidAssumption
<1>3. CASE VvcInUse(d) /\ t \in DOMAIN d.vvc
  <2>1. r = [clk |-> d.vvc[t], owner |-> t, vvc |-> NoEntries]
    BY <1>3 DEF NonReleaseStore, ReleaseStore
  <2>2. d.vvc[t] \in Clock /\ Leq(d.vvc[t], c[t]) /\ Chained(t, d.vvc[t], f[t])
    BY <1>3, SyncClockParts DEF Continues
  <2>3. Keeps(d, h, f) => Leq(h[t], Join(d.vvc[t], f[t]))
    BY <1>3 DEF Keeps
  <2>4. r \in SyncClock /\ ~VvcInUse(r)
    BY <2>1, <2>2, NoEntriesFacts DEF SyncClock, Entry, VvcInUse
  <2> QED
    BY <2>1, <2>2, <2>3, <2>4
<1>4. CASE VvcInUse(d) /\ t \notin DOMAIN d.vvc
  <2>1. r = Reset
    BY <1>4 DEF NonReleaseStore
  <2>2. Keeps(d, h, f) => Leq(h[t], f[t])
    BY <1>4 DEF Keeps
  <2>3. Keeps(d, h, f) => Leq(h[t], Join(Zero, f[t]))
    BY <1>1, <1>2, <2>2, LeqTransitive
  <2>4. r.clk = Zero /\ r.owner # t /\ r \in SyncClock
    BY <1>2, <2>1
  <2> HIDE DEF r
  <2>5. Keeps(d, h, f) => Leq(h[t], Join(r.clk, f[t]))
    BY <2>3, <2>4
  <2> QED
    BY <2>1, <2>4, <2>5 DEF r
<1>5. CASE ~VvcInUse(d) /\ d.owner = t
  <2>1. r = d
    BY <1>5 DEF NonReleaseStore
  <2>2. Leq(d.clk, c[t]) /\ Chained(t, d.clk, f[t])
    BY <1>5 DEF Continues
  <2>3. Leq(d.clk, Join(d.clk, f[t])) /\ Join(d.clk, f[t]) \in Clock
    BY <1>1, ClockFacts
  <2>4. Keeps(d, h, f) => Leq(h[t], d.clk)
    BY DEF Keeps
  <2>5. Keeps(d, h, f) => Leq(h[t], Join(d.clk, f[t]))
    BY <1>1, <2>3, <2>4, LeqTransitive
  <2> QED
    BY <1>5, <2>1, <2>2, <2>5
<1>6. CASE ~VvcInUse(d) /\ d.owner # t
  <2>1. r = Reset
    BY <1>6 DEF NonReleaseStore
  <2>2. Keeps(d, h, f) => h[t] = Zero
    BY <1>6 DEF Keeps
  <2>3. r.clk = Zero /\ r.owner # t /\ r \in SyncClock
    BY <1>2, <2>1
  <2> HIDE DEF r
  <2>4. Keeps(d, h, f) => Leq(h[t], Join(r.clk, f[t]))
    BY <1>2, <2>2, <2>3
  <2> QED
    BY <2>1, <2>3, <2>4 DEF r
<1> QED
  BY <1>3, <1>4, <1>5, <1>6

\* What NonReleaseStore2 leaves of a table that is empty or t's: the larger
\* of the table and what t's fences cover.
LEMMA NonReleaseStore2Keeps ==
  ASSUME NEW d \in SyncClock, NEW c \in Headings, NEW h \in Headings,
         NEW f \in Headings, NEW t \in Tid,
         IsSimple(d, t), Continues(d, c, f), Leq(f[t], c[t])
  PROVE  LET r == NonReleaseStore2(d, t, f[t]) IN
         /\ Covers(r) /\ Continues(r, c, f)
         /\ Leq(h[t], Join(d.clk, f[t])) /\ (\A u \in Tid \ {t} : h[u] = Zero)
              => Keeps(r, h, f)
<1> DEFINE r == NonReleaseStore2(d, t, f[t])
<1>1. f[t] \in Clock /\ h[t] \in Clock /\ d.clk \in Clock /\ Join(d.clk, f[t]) \in Clock
  BY SyncClockParts, ClockFacts DEF Headings
<1>2. f[t][t] \in Nat /\ d.clk[t] \in Nat
  BY <1>1 DEF Clock
<1>3. ~VvcInUse(d) /\ (IsEmpty(d) \/ d.owner = t)
  BY DEF IsSimple
<1>4. d.owner = t => Chained(t, d.clk, f[t])
  BY DEF Continues
<1>5. CASE f[t] # Zero /\ (IsEmpty(d) \/ d.clk[t] < f[t][t])
  <2>1. r = ReleaseStore(t, f[t])
    BY <1>5 DEF NonReleaseStore2
  <2>2. Leq(d.clk, f[t])
    <3>1. CASE IsEmpty(d)
      BY <1>1, <3>1, ZeroLeast DEF IsEmpty
    <3>2. CASE ~IsEmpty(d)
      BY <1>3, <1>4, <1>5, <3>2 DEF Chained
    <3> QED
      BY <3>1, <3>2
  <2>3. Leq(Join(d.clk, f[t]), f[t])
    BY <1>1, <2>2, LeqOrder, JoinLeast
  <2>4. Leq(h[t], Join(d.clk, f[t])) => Leq(h[t], f[t])
    BY <1>1, <2>3, LeqTransitive
  <2>5. Chained(t, f[t], f[t])
    BY <1>1, LeqOrder, AboveIsChained
  <2> QED
    BY <1>1, <2>1, <2>4, <2>5, OwnTable
<1>6. CASE ~(f[t] # Zero /\ (IsEmpty(d) \/ d.clk[t] < f[t][t]))
  <2>1. r = d
    BY <1>6 DEF NonReleaseStore2
  <2>2. Leq(f[t], d.clk)
    <3>1. CASE f[t] = Zero
      BY <1>1, <3>1, ZeroLeast
    <3>2. CASE f[t] # Zero
      <4>1. ~IsEmpty(d) /\ d.clk[t] >= f[t][t]
        BY <1>2, <1>6, <3>2
      <4> QED
        BY <1>3, <1>4, <4>1 DEF Chained
    <3> QED
      BY <3>1, <3>2
  <2>3. Leq(h[t], Join(d.clk, f[t])) => Leq(h[t], d.clk)
    <3>1. Leq(Join(d.clk, f[t]), d.clk)
      BY <1>1, <2>2, LeqOrder, JoinLeast
    <3> QED
      BY <1>1, <3>1, LeqTransitive
  <2>4. Covers(d)
    BY <1>3 DEF Covers
  <2>5. ASSUME Leq(h[t], d.clk), \A u \in Tid \ {t} : h[u] = Zero
        PROVE  Keeps(d, h, f)
    <3>1. IsEmpty(d) => h[t] = Zero
      BY <1>1, <2>5, ZeroFacts DEF IsEmpty
    <3> QED
      BY <1>1, <1>3, <2>5, <3>1, ZeroLeast DEF Keeps
  <2> QED
    BY <2>1, <2>3, <2>4, <2>5
<1> QED
  BY <1>5, <1>6

\* A store of t without release order keeps t's own sequences, in the table
\* of t, and ends the others.
LEMMA PlainStoreKeeps ==
  ASSUME NEW d \in SyncClock, NEW c \in Headings, NEW h \in Headings,
         NEW g \in Headings, NEW f \in Headings, NEW t \in Tid,
         Covers(d), Continues(d, c, f), Leq(f[t], c[t]),
         g[t] = Join(h[t], f[t]), \A u \in Tid \ {t} : g[u] = Zero
  PROVE  LET r == NonReleaseStore2(NonReleaseStore(d, t), t, f[t]) IN
         /\ Covers(r) /\ Continues(r, c, f)
         /\ Keeps(d, h, f) => Keeps(r, g, f)
<1> DEFINE n == NonReleaseStore(d, t)
<1>1. /\ n = Reset \/ (n.owner = t /\ ~VvcInUse(n))
      /\ n \in SyncClock
      /\ n.owner = t => Leq(n.clk, c[t]) /\ Chained(t, n.clk, f[t])
      /\ Keeps(d, h, f) => Leq(h[t], Join(n.clk, f[t]))
  BY NonReleaseStoreKeeps
<1> HIDE DEF n
<1>2. IsSimple(n, t)
  BY <1>1, ResetFacts DEF IsSimple, IsEmpty, VvcInUse
<1>3. Continues(n, c, f)
  <2>1. CASE n = Reset
    BY <2>1, NoTable
  <2>2. CASE n.owner = t /\ ~VvcInUse(n)
    BY <1>1, <2>2 DEF Continues, VvcInUse
  <2> QED
    BY <1>1, <2>1, <2>2
<1>4. ASSUME Keeps(d, h, f) PROVE Leq(g[t], Join(n.clk, f[t]))
  <2>1. n.clk \in Clock /\ f[t] \in Clock /\ h[t] \in Clock
    BY <1>1, SyncClockParts DEF Headings
  <2>2. Join(n.clk, f[t]) \in Clock /\ Leq(f[t], Join(n.clk, f[t]))
    BY <2>1, ClockFacts
  <2> QED
    BY <1>1, <1>4, <2>1, <2>2, JoinLeast
<1>5. Keeps(d, h, f) => Keeps(NonReleaseStore2(n, t, f[t]), g, f)
  BY <1>1, <1>2, <1>3, <1>4, NonReleaseStore2Keeps
<1>6. Covers(NonReleaseStore2(n, t, f[t])) /\ Continues(NonReleaseStore2(n, t, f[t]), c, f)
  BY <1>1, <1>2, <1>3, NonReleaseStore2Keeps
<1> QED
  BY <1>5, <1>6 DEF n

-----------------------------------------------------------------------------
(* Read-modify-writes. *)

\* When RMW stops telling the sequences of d apart: Blurs, of any SyncClock.
Blurring(d, t, f, rel, keep) ==
  /\ ~VvcInUse(d) /\ ~IsEmpty(d)
  /\ IF rel THEN d.owner = t /\ ~keep ELSE d.owner # t /\ f # Zero

\* What every thread may continue stays known when threads learn.
LEMMA ContinuesGrows ==
  ASSUME NEW d \in SyncClock, NEW b \in Headings, NEW c \in Headings,
         NEW f \in Headings, \A u \in Tid : Leq(b[u], c[u]), Continues(d, b, f)
  PROVE  Continues(d, c, f)
<1> SUFFICES ASSUME NEW t \in Tid
             PROVE  /\ d.owner = t => Leq(d.clk, c[t]) /\ Chained(t, d.clk, f[t])
                    /\ t \in DOMAIN d.vvc => Leq(d.vvc[t], c[t]) /\ Chained(t, d.vvc[t], f[t])
  BY DEF Continues
<1>1. b[t] \in Clock /\ c[t] \in Clock /\ Leq(b[t], c[t]) /\ d.clk \in Clock
  BY SyncClockParts DEF Headings
<1>2. d.owner = t => Leq(d.clk, c[t])
  BY <1>1, LeqTransitive DEF Continues
<1>3. t \in DOMAIN d.vvc => Leq(d.vvc[t], c[t])
  BY <1>1, SyncClockParts, LeqTransitive DEF Continues
<1> QED
  BY <1>2, <1>3 DEF Continues

\* A plain RMW of t on a table that is empty or t's own.
LEMMA PlainRmwSimple ==
  ASSUME NEW d \in SyncClock, NEW c \in Headings, NEW h \in Headings,
         NEW g \in Headings, NEW f \in Headings, NEW t \in Tid,
         Continues(d, c, f), Leq(f[t], c[t]), IsSimple(d, t),
         g[t] = Join(h[t], f[t]), \A u \in Tid \ {t} : g[u] = h[u]
  PROVE  LET r == NonReleaseStore2(d, t, f[t]) IN
         /\ Covers(r) /\ Continues(r, c, f)
         /\ Keeps(d, h, f) => Keeps(r, g, f)
<1>1. ASSUME Keeps(d, h, f)
      PROVE  Leq(g[t], Join(d.clk, f[t])) /\ \A u \in Tid \ {t} : g[u] = Zero
  <2>1. d.clk \in Clock /\ f[t] \in Clock /\ h[t] \in Clock
    BY SyncClockParts DEF Headings
  <2>2. /\ Join(d.clk, f[t]) \in Clock /\ Leq(f[t], Join(d.clk, f[t]))
        /\ Leq(d.clk, Join(d.clk, f[t]))
    BY <2>1, ClockFacts
  <2>3. Leq(h[t], d.clk)
    BY <1>1 DEF Keeps
  <2>4. Leq(h[t], Join(d.clk, f[t]))
    BY <2>1, <2>2, <2>3, LeqTransitive
  <2>5. ASSUME NEW u \in Tid \ {t} PROVE h[u] = Zero
    <3>1. ~VvcInUse(d) /\ (d.owner = u \/ h[u] = Zero) /\ Leq(h[u], d.clk)
      BY <1>1 DEF Keeps, IsSimple
    <3>2. d.owner = u => d.clk = Zero
      BY DEF IsSimple, IsEmpty
    <3> QED
      BY <3>1, <3>2, ZeroFacts DEF Headings
  <2> QED
    BY <2>1, <2>2, <2>4, <2>5, JoinLeast
<1>2. LET r == NonReleaseStore2(d, t, f[t]) IN
      /\ Covers(r) /\ Continues(r, c, f)
      /\ Leq(g[t], Join(d.clk, f[t])) /\ (\A u \in Tid \ {t} : g[u] = Zero)
           => Keeps(r, g, f)
  BY NonReleaseStore2Keeps
<1> QED
  BY <1>1, <1>2

\* A plain RMW of t over a VVC: what t's fences cover is joined onto the table.
LEMMA PlainRmwJoins ==
  ASSUME NEW d \in SyncClock, NEW c \in Headings, NEW h \in Headings,
         NEW g \in Headings, NEW f \in Headings, NEW t \in Tid,
         Covers(d), Continues(d, c, f),
         g[t] = Join(h[t], f[t]), \A u \in Tid \ {t} : g[u] = h[u]
  PROVE  LET r == JoinClock(d, f[t]) IN
         /\ Covers(r) /\ Continues(r, c, f)
         /\ VvcInUse(d) /\ Keeps(d, h, f) => Keeps(r, g, f)
<1> DEFINE r == JoinClock(d, f[t])
           J == Join(d.clk, f[t])
<1>1. r = [clk |-> J, owner |-> NoTid, vvc |-> d.vvc] /\ (VvcInUse(r) <=> VvcInUse(d))
  BY DEF JoinClock, VvcInUse
<1>2. d.clk \in Clock /\ f[t] \in Clock /\ h[t] \in Clock
  BY SyncClockParts DEF Headings
<1>3. J \in Clock /\ Leq(d.clk, J) /\ Leq(f[t], J)
  BY <1>2, ClockFacts
<1> HIDE DEF r, J
<1>4. ASSUME VvcInUse(d) PROVE Covers(r)
  <2>1. ~IsEmpty(r)
    <3>1. d.clk # Zero
      BY <1>4 DEF Covers, IsEmpty
    <3> QED
      BY <1>1, <1>2, <1>3, <3>1, ZeroFacts DEF IsEmpty
  <2>2. \A e \in DOMAIN d.vvc : Leq(d.vvc[e], J) /\ d.vvc[e] # Zero
    BY <1>2, <1>3, <1>4, SyncClockParts, LeqTransitive DEF Covers
  <2> QED
    BY <1>1, <2>1, <2>2 DEF Covers
<1>5. Continues(r, c, f)
  BY <1>1, NoTidAssumption DEF Continues
<1>6. ASSUME VvcInUse(d), Keeps(d, h, f) PROVE Keeps(r, g, f)
  <2> SUFFICES ASSUME NEW u \in Tid
               PROVE  /\ Leq(g[u], J)
                      /\ IF u \in DOMAIN d.vvc THEN Leq(g[u], Join(d.vvc[u], f[u]))
                                               ELSE Leq(g[u], f[u])
    BY <1>1, <1>6 DEF Keeps
  <2>1. /\ h[u] \in Clock /\ f[u] \in Clock /\ Leq(h[u], d.clk)
        /\ IF u \in DOMAIN d.vvc THEN Leq(h[u], Join(d.vvc[u], f[u]))
                                 ELSE Leq(h[u], f[u])
    BY <1>6 DEF Keeps, Headings
  <2>2. Leq(h[u], J)
    BY <1>2, <1>3, <2>1, LeqTransitive
  <2>3. CASE u # t
    BY <2>1, <2>2, <2>3
  <2>4. CASE u = t
    <3>1. Leq(g[u], J)
      BY <1>2, <1>3, <2>2, <2>4, JoinLeast
    <3>2. ASSUME u \in DOMAIN d.vvc PROVE Leq(g[u], Join(d.vvc[u], f[u]))
      <4>1. /\ Join(d.vvc[u], f[u]) \in Clock /\ Leq(f[u], Join(d.vvc[u], f[u]))
            /\ Leq(h[u], Join(d.vvc[u], f[u]))
        BY <2>1, <3>2, SyncClockParts, ClockFacts
      <4> QED
        BY <2>1, <2>4, <4>1, JoinLeast
    <3>3. u \notin DOMAIN d.vvc => Leq(g[u], f[u])
      BY <2>1, <2>4, LeqOrder, JoinLeast
    <3> QED
      BY <3>1, <3>2, <3>3
  <2> QED
    BY <2>3, <2>4
<1>7. ASSUME ~VvcInUse(d) PROVE Covers(r)
  BY <1>1, <1>7 DEF Covers
<1> QED
  BY <1>4, <1>5, <1>6, <1>7 DEF r

\* An RMW of t publishes x: threads with the clocks b and the heads h have the
\* clocks c and the heads g once it is done. f are their fences' clocks.
Publishes(t, x, b, c, h, g, f) ==
  /\ {b, c, h, g, f} \subseteq Headings
  /\ \A u \in Tid : Leq(b[u], c[u])
  /\ Leq(f[t], c[t]) /\ Leq(h[t], c[t])
  /\ g[t] = Join(h[t], x)
  /\ \A u \in Tid \ {t} : g[u] = h[u]

\* A release RMW of t, with clock C, on a table that is empty or t's own.
LEMMA ReleaseRmwSimple ==
  ASSUME NEW d \in SyncClock, NEW b, NEW c, NEW h, NEW g, NEW f,
         NEW t \in Tid, NEW keep \in BOOLEAN,
         Continues(d, b, f), IsSimple(d, t), Publishes(t, c[t], b, c, h, g, f)
  PROVE  LET r == Release(d, t, c[t], keep) IN
         /\ Covers(r) /\ Continues(r, c, f)
         /\ (IsEmpty(d) \/ keep) /\ Keeps(d, h, f) => Keeps(r, g, f)
<1> DEFINE C == c[t]
<1> USE DEF Publishes
<1>1. /\ C \in Clock /\ f[t] \in Clock /\ h[t] \in Clock /\ d.clk \in Clock
      /\ b[t] \in Clock /\ Leq(b[t], C) /\ Leq(C, C) /\ g[t] \in Clock
  BY SyncClockParts, LeqOrder DEF Headings
<1>2. ~VvcInUse(d) /\ (IsEmpty(d) \/ d.owner = t)
  BY DEF IsSimple
<1>3. Chained(t, C, f[t]) /\ Leq(g[t], C)
  BY <1>1, AboveIsChained, JoinLeast
<1>4. ASSUME Keeps(d, h, f) PROVE \A u \in Tid \ {t} : g[u] = Zero
  <2> SUFFICES ASSUME NEW u \in Tid \ {t} PROVE h[u] = Zero
    OBVIOUS
  <2>1. (d.owner = u \/ h[u] = Zero) /\ Leq(h[u], d.clk)
    BY <1>2, <1>4 DEF Keeps
  <2>2. d.owner = u => d.clk = Zero
    BY <1>2 DEF IsEmpty
  <2> QED
    BY <2>1, <2>2, ZeroFacts DEF Headings
<1>5. CASE IsEmpty(d)
  <2>1. Release(d, t, C, keep) = ReleaseStore(t, C)
    BY <1>5 DEF Release
  <2> QED
    BY <1>1, <1>3, <1>4, <2>1, OwnTable
<1>6. CASE ~IsEmpty(d)
  <2> DEFINE r == Release(d, t, C, keep)
             J == Join(d.clk, C)
  <2>1. d.owner = t /\ Leq(d.clk, b[t])
    BY <1>2, <1>6 DEF Continues
  <2>2. J \in Clock /\ Leq(C, J) /\ Leq(d.clk, C) /\ Leq(J, C)
    BY <1>1, <2>1, ClockFacts, LeqTransitive, JoinLeast
  <2>3. r = [clk |-> J, owner |-> IF keep THEN t ELSE NoTid, vvc |-> d.vvc]
    BY <1>6, <2>1 DEF Release
  <2> HIDE DEF r, J, C
  <2>4. ~VvcInUse(r) /\ DOMAIN r.vvc = {}
    BY <1>2, <2>3 DEF VvcInUse
  <2>5. J = C
    BY <1>1, <2>2, LeqOrder
  <2>6. \A u \in Tid : r.owner = u => u = t
    BY <2>3, NoTidAssumption
  <2>7. Covers(r) /\ Continues(r, c, f)
    BY <1>1, <1>3, <2>3, <2>4, <2>5, <2>6 DEF Covers, Continues, C
  <2>8. ASSUME keep, Keeps(d, h, f) PROVE Keeps(r, g, f)
    <3>1. r.owner = t /\ r.clk = C
      BY <2>3, <2>5, <2>8
    <3> QED
      BY <1>1, <1>3, <1>4, <2>4, <2>8, <3>1, ZeroLeast DEF Keeps
  <2> QED
    BY <1>6, <2>7, <2>8 DEF r, C
<1> QED
  BY <1>5, <1>6

\* The SyncClock once RMW made an entry for a release of t with clock C.
LEMMA EntryFacts ==
  ASSUME NEW d \in SyncClock, NEW t \in Tid, NEW C \in Clock, NEW keep \in BOOLEAN,
         NEW f, Covers(d), ~IsSimple(d, t)
  PROVE  HasEntry(RmwSync(d, t, C, f, TRUE, keep), d, t, C)
<1> DEFINE n == MigrateToVvc(d)
           m == Release(n, t, C, keep)
           r == [clk |-> m.clk, owner |-> m.owner, vvc |-> SetEntry(m.vvc, t, C)]
<1>1. n.clk = d.clk /\ n.owner = d.owner /\ ~IsEmpty(d) /\ ~IsEmpty(n)
  BY DEF MigrateToVvc, IsSimple, IsEmpty, Covers
<1>2. n.vvc = IF VvcInUse(d) THEN d.vvc ELSE SetEntry(d.vvc, d.owner, d.clk)
  BY DEF MigrateToVvc
<1>3. d.owner # t
  BY <1>1, NoTidAssumption DEF Covers, IsSimple
<1>4. RmwSync(d, t, C, f, TRUE, keep) = r
  BY DEF RmwSync
<1> HIDE DEF n
<1>5. m.clk = Join(d.clk, C) /\ m.owner = NoTid /\ m.vvc = n.vvc
  BY <1>1, <1>3 DEF Release
<1> HIDE DEF m
<1>6. r.clk = Join(d.clk, C) /\ r.owner = NoTid /\ r.vvc = SetEntry(n.vvc, t, C)
  BY <1>5
<1> HIDE DEF r
<1>7. r.vvc = [e \in DOMAIN n.vvc \cup {t} |-> IF e = t THEN C ELSE n.vvc[e]]
  BY <1>6 DEF SetEntry
<1>8. DOMAIN r.vvc = DOMAIN n.vvc \cup {t} /\ r.vvc[t] = C
      /\ \A e \in DOMAIN n.vvc : e # t => r.vvc[e] = n.vvc[e]
  BY <1>7
<1>9. CASE VvcInUse(d)
  <2>1. DOMAIN r.vvc = DOMAIN d.vvc \cup {t} /\ \A e \in DOMAIN d.vvc : e # t => r.vvc[e] = d.vvc[e]
    BY <1>2, <1>8, <1>9
  <2> QED
    BY <1>4, <1>6, <1>8, <1>9, <2>1 DEF HasEntry
<1>10. CASE ~VvcInUse(d)
  <2>1. DOMAIN d.vvc = {}
    BY <1>10 DEF VvcInUse
  <2>2. n.vvc = [e \in {} \cup {d.owner} |-> IF e = d.owner THEN d.clk ELSE d.vvc[e]]
    BY <1>2, <1>10, <2>1 DEF SetEntry
  <2>3. DOMAIN n.vvc = {d.owner} /\ n.vvc[d.owner] = d.clk
    BY <2>2
  <2> QED
    BY <1>3, <1>4, <1>6, <1>8, <1>10, <2>3 DEF HasEntry
<1> QED
  BY <1>9, <1>10

\* A release RMW of t that makes an entry for it.
LEMMA ReleaseRmwEntry ==
  ASSUME NEW d \in SyncClock, NEW b, NEW c, NEW h, NEW g, NEW f,
         NEW t \in Tid, NEW r, Publishes(t, c[t], b, c, h, g, f),
         HasEntry(r, d, t, c[t]),
         Covers(d), Continues(d, b, f), ~IsSimple(d, t), c[t] # Zero
  PROVE  /\ Covers(r) /\ Continues(r, c, f)
         /\ Keeps(d, h, f) => Keeps(r, g, f)
<1> DEFINE C == c[t]
<1> USE DEF Publishes, HasEntry
<1>1. /\ C \in Clock /\ f[t] \in Clock /\ h[t] \in Clock /\ d.clk \in Clock
      /\ Leq(C, C) /\ ~IsEmpty(d)
  BY SyncClockParts, LeqOrder DEF Headings, IsSimple, Covers
<1>2. Join(d.clk, C) \in Clock /\ Leq(C, Join(d.clk, C)) /\ Leq(d.clk, Join(d.clk, C))
  BY <1>1, ClockFacts
<1>3. Chained(t, C, f[t])
  BY <1>1, AboveIsChained
<1>4. VvcInUse(r) /\ Join(d.clk, C) # Zero
  BY <1>1, <1>2, ZeroFacts DEF VvcInUse
<1>5. Continues(d, c, f)
  BY ContinuesGrows
<1>6. Covers(r)
  <2> SUFFICES ASSUME NEW e \in DOMAIN r.vvc
               PROVE  Leq(r.vvc[e], Join(d.clk, C)) /\ r.vvc[e] # Zero
    BY <1>4 DEF Covers, IsEmpty
  <2>1. CASE e = t
    BY <1>2, <2>1
  <2>2. CASE e # t /\ VvcInUse(d)
    <3>1. e \in DOMAIN d.vvc /\ r.vvc[e] = d.vvc[e]
      BY <2>2
    <3>2. d.vvc[e] \in Clock /\ Leq(d.vvc[e], d.clk) /\ d.vvc[e] # Zero
      BY <2>2, <3>1, SyncClockParts DEF Covers
    <3> QED
      BY <1>1, <1>2, <3>1, <3>2, LeqTransitive
  <2>3. CASE e # t /\ ~VvcInUse(d)
    <3>1. r.vvc[e] = d.clk
      BY <2>3
    <3> QED
      BY <1>1, <1>2, <3>1 DEF IsEmpty
  <2> QED
    BY <2>1, <2>2, <2>3
<1>7. Continues(r, c, f)
  <2> SUFFICES ASSUME NEW u \in Tid, u \in DOMAIN r.vvc
               PROVE  Leq(r.vvc[u], c[u]) /\ Chained(u, r.vvc[u], f[u])
    BY NoTidAssumption DEF Continues
  <2>1. CASE u = t
    BY <1>1, <1>3, <2>1
  <2>2. CASE u # t
    BY <1>5, <2>2 DEF Continues
  <2> QED
    BY <2>1, <2>2
<1>8. ASSUME Keeps(d, h, f) PROVE Keeps(r, g, f)
  <2> SUFFICES ASSUME NEW u \in Tid
               PROVE  /\ Leq(g[u], Join(d.clk, C))
                      /\ IF u \in DOMAIN r.vvc THEN Leq(g[u], Join(r.vvc[u], f[u]))
                                               ELSE Leq(g[u], f[u])
    BY <1>4 DEF Keeps
  <2>1. h[u] \in Clock /\ f[u] \in Clock /\ Leq(h[u], d.clk)
    BY <1>8 DEF Keeps, Headings
  <2>2. CASE u = t
    <3>1. Leq(g[t], C)
      BY <1>1, JoinLeast
    <3>2. Join(C, f[t]) \in Clock /\ Leq(C, Join(C, f[t])) /\ g[t] \in Clock
      BY <1>1, ClockFacts DEF Headings
    <3> QED
      BY <1>1, <1>2, <2>2, <3>1, <3>2, LeqTransitive
  <2>3. CASE u # t
    <3>1. g[u] = h[u] /\ Leq(h[u], Join(d.clk, C))
      BY <1>1, <1>2, <2>1, <2>3, LeqTransitive
    <3>2. CASE VvcInUse(d)
      <4>1. u \in DOMAIN r.vvc <=> u \in DOMAIN d.vvc
        BY <2>3, <3>2
      <4>2. u \in DOMAIN d.vvc => r.vvc[u] = d.vvc[u]
        BY <2>3, <3>2, <4>1
      <4> QED
        BY <1>8, <3>1, <3>2, <4>1, <4>2 DEF Keeps
    <3>3. CASE ~VvcInUse(d) /\ d.owner = u
      <4>1. u \in DOMAIN r.vvc /\ r.vvc[u] = d.clk
        BY <2>3, <3>3
      <4>2. Join(d.clk, f[u]) \in Clock /\ Leq(d.clk, Join(d.clk, f[u]))
        BY <1>1, <2>1, ClockFacts
      <4> QED
        BY <1>1, <2>1, <3>1, <4>1, <4>2, LeqTransitive
    <3>4. CASE ~VvcInUse(d) /\ d.owner # u
      <4>1. h[u] = Zero /\ u \notin DOMAIN r.vvc
        BY <1>8, <2>3, <3>4 DEF Keeps
      <4> QED
        BY <2>1, <3>1, <4>1, ZeroLeast
    <3> QED
      BY <3>2, <3>3, <3>4
  <2> QED
    BY <2>2, <2>3
<1> QED
  BY <1>6, <1>7, <1>8

\* RMW: t, whose clock was b[t] and is c[t], was known to head h[t].
LEMMA RmwKeeps ==
  ASSUME NEW d \in SyncClock, NEW b, NEW c, NEW h, NEW g, NEW f,
         NEW t \in Tid, NEW rel \in BOOLEAN, NEW keep \in BOOLEAN,
         Covers(d), Continues(d, b, f), c[t] # Zero,
         NEW x, Publishes(t, x, b, c, h, g, f), x = IF rel THEN c[t] ELSE f[t]
  PROVE  LET r == RmwSync(d, t, c[t], f[t], rel, keep) IN
         /\ Covers(r) /\ Continues(r, c, f)
         /\ ~Blurring(d, t, f[t], rel, keep) /\ Keeps(d, h, f) => Keeps(r, g, f)
<1> DEFINE r == RmwSync(d, t, c[t], f[t], rel, keep)
<1>0. /\ b \in Headings /\ c \in Headings /\ h \in Headings /\ g \in Headings /\ f \in Headings
      /\ \A u \in Tid : Leq(b[u], c[u])
      /\ Leq(f[t], c[t]) /\ g[t] = Join(h[t], x) /\ \A u \in Tid \ {t} : g[u] = h[u]
  BY DEF Publishes
<1>1. Continues(d, c, f)
  BY <1>0, ContinuesGrows
<1>2. CASE ~rel /\ f[t] = Zero
  <2>1. r = d
    BY <1>2 DEF RmwSync
  <2>2. g[t] = h[t]
    BY <1>0, <1>2, ZeroFacts DEF Headings
  <2>3. \A u \in Tid : g[u] = h[u]
    BY <1>0, <2>2
  <2>4. Keeps(d, h, f) => Keeps(d, g, f)
    BY <2>3 DEF Keeps
  <2> QED
    BY <1>1, <2>1, <2>4
<1>3. CASE ~rel /\ f[t] # Zero /\ IsSimple(d, t)
  <2>1. r = NonReleaseStore2(d, t, f[t])
    BY <1>3 DEF RmwSync
  <2>2. g[t] = Join(h[t], f[t])
    BY <1>0, <1>3
  <2> QED
    BY <1>0, <1>1, <1>3, <2>1, <2>2, PlainRmwSimple
<1>4. CASE ~rel /\ f[t] # Zero /\ ~IsSimple(d, t)
  <2>1. r = JoinClock(d, f[t])
    BY <1>4 DEF RmwSync
  <2>2. g[t] = Join(h[t], f[t])
    BY <1>0, <1>4
  <2>3. ~Blurring(d, t, f[t], rel, keep) => VvcInUse(d)
    BY <1>4 DEF Blurring, IsSimple
  <2> QED
    BY <1>0, <1>1, <2>1, <2>2, <2>3, PlainRmwJoins
<1>5. CASE rel /\ IsSimple(d, t)
  <2>1. r = Release(d, t, c[t], keep)
    BY <1>5 DEF RmwSync
  <2>2. Publishes(t, c[t], b, c, h, g, f)
    BY <1>5
  <2>3. ~Blurring(d, t, f[t], rel, keep) => IsEmpty(d) \/ keep
    BY <1>5 DEF Blurring, IsSimple
  <2> QED
    BY <1>5, <2>1, <2>2, <2>3, ReleaseRmwSimple
<1>6. CASE rel /\ ~IsSimple(d, t)
  <2>1. Publishes(t, c[t], b, c, h, g, f) /\ c[t] \in Clock
    BY <1>0, <1>6 DEF Headings
  <2>2. r = RmwSync(d, t, c[t], f[t], TRUE, keep)
    BY <1>6
  <2>3. HasEntry(r, d, t, c[t])
    BY <1>6, <2>1, <2>2, EntryFacts
  <2> HIDE DEF r
  <2>4. Covers(r) /\ Continues(r, c, f) /\ (Keeps(d, h, f) => Keeps(r, g, f))
    BY <1>6, <2>1, <2>3, ReleaseRmwEntry
  <2> QED
    BY <2>4 DEF r
<1> QED
  BY <1>2, <1>3, <1>4, <1>5, <1>6

-----------------------------------------------------------------------------
(* The handlers. *)

\* The types of the state, and what a stamp does to a clock after a tick.
LEMMA Parts ==
  KInv => /\ sync \in SyncClock /\ clock \in Headings /\ heads \in Headings
          /\ frel \in Headings /\ facq \in Headings /\ epoch \in Clock
          /\ \A t \in Tid : /\ Leq(heads[t], clock[t]) /\ Leq(frel[t], clock[t])
                            /\ Leq(clock[t], epoch)
          /\ Covers(sync) /\ Continues(sync, clock, frel)
BY DEF KInv, IInv, Types, Known, NoFutureEpoch, Headings, Clock

\* A ticking thread t stamps its clock with an epoch nobody knew.
LEMMA FreshStamp ==
  ASSUME KInv, NEW t \in Tid, Tick(t)
  PROVE  /\ Stamped(t) \in Clock /\ Leq(clock[t], Stamped(t))
         /\ clock[t][t] < Stamped(t)[t] /\ Stamped(t)[t] # 0
<1>1. IInv /\ epoch' \in Clock /\ Leq(epoch, epoch')
  BY TickFacts DEF KInv
<1>2. Stamped(t) \in Clock /\ Leq(clock[t], Stamped(t))
  BY <1>1, StampedFacts
<1>3. clock[t] \in Clock /\ epoch \in Clock /\ Leq(clock[t], epoch)
  BY Parts DEF Headings
<1>4. clock[t][t] \in Nat /\ epoch[t] \in Nat /\ clock[t][t] <= epoch[t]
  BY <1>3 DEF Clock, Leq
<1>5. epoch' = [epoch EXCEPT ![t] = @ + 1] /\ epoch \in [Tid -> Nat]
  BY <1>1 DEF Tick, IInv, Types
<1>6. epoch'[t] = epoch[t] + 1
  BY <1>5
<1>7. Stamped(t)[t] = epoch'[t]
  BY <1>3 DEF Stamped, Clock
<1> QED
  BY <1>2, <1>4, <1>6, <1>7

\* What knows more knows what it knew.
LEMMA KnownGrows ==
  ASSUME NEW b \in Headings, NEW c \in Headings, NEW h \in Headings, NEW f \in Headings,
         Known(b, h, f), \A u \in Tid : Leq(b[u], c[u])
  PROVE  Known(c, h, f)
<1> SUFFICES ASSUME NEW u \in Tid PROVE Leq(h[u], c[u]) /\ Leq(f[u], c[u])
  BY DEF Known
<1>1. /\ b[u] \in Clock /\ c[u] \in Clock /\ h[u] \in Clock /\ f[u] \in Clock
      /\ Leq(b[u], c[u]) /\ Leq(h[u], b[u]) /\ Leq(f[u], b[u])
  BY DEF Headings, Known
<1> QED
  BY <1>1, LeqTransitive

\* The types of the next state.
LEMMA NextParts ==
  IInv' => clock' \in Headings /\ heads' \in Headings /\ frel' \in Headings
BY DEF IInv, Types, Headings

\* One clock replaced by a larger one.
LEMMA ClocksGrow ==
  ASSUME NEW b \in Headings, NEW c \in Headings, NEW t \in Tid, NEW C \in Clock,
         c = [b EXCEPT ![t] = C], Leq(b[t], C)
  PROVE  c[t] = C /\ \A u \in Tid : Leq(b[u], c[u])
<1>1. c \in Headings /\ c[t] = C /\ \A u \in Tid \ {t} : c[u] = b[u]
  BY DEF Headings
<1>2. \A u \in Tid : Leq(b[u], b[u])
  BY LeqOrder DEF Headings
<1> QED
  BY <1>1, <1>2

\* A handler that leaves the location and the fences' clocks alone.
LEMMA QuietStep ==
  ASSUME KInv, IInv', NEW t \in Tid, NEW C \in Clock, Leq(clock[t], C),
         clock' = [clock EXCEPT ![t] = C],
         UNCHANGED <<frel, sync, heads, blurred>>
  PROVE  KInv'
<1>1. clock' \in Headings /\ \A u \in Tid : Leq(clock[u], clock'[u])
  BY Parts, NextParts, ClocksGrow
<1>2. Known(clock', heads, frel)
  BY <1>1, Parts, KnownGrows DEF KInv
<1>3. Continues(sync, clock', frel)
  BY <1>1, Parts, ContinuesGrows
<1> QED
  BY <1>2, <1>3 DEF KInv

\* AtomicLoad, and AtomicCAS that fails.
LEMMA ReadKeeps ==
  ASSUME KInv, IInv', NEW t \in Tid, NEW mo \in Order, Load(t, mo) \/ CasFail(t, mo)
  PROVE  KInv'
<1>1. /\ clock \in Headings /\ clock[t] \in Clock /\ sync.clk \in Clock
      /\ Leq(clock[t], clock[t])
  BY Parts, SyncClockParts, LeqOrder DEF Headings
<1>2. IInv /\ epoch' \in Clock /\ Leq(epoch, epoch')
  <2>1. epoch \in Clock /\ IInv
    BY Parts DEF KInv
  <2>2. CASE Load(t, mo)
    BY <2>1, <2>2, LeqOrder DEF Load
  <2>3. CASE CasFail(t, mo)
    BY <2>1, <2>3, TickFacts DEF CasFail
  <2> QED
    BY <2>1, <2>2, <2>3
<1>3. Stamped(t) \in Clock /\ Leq(clock[t], Stamped(t))
  BY <1>2, StampedFacts
<1>4. /\ Join(Stamped(t), sync.clk) \in Clock
      /\ Leq(clock[t], Join(Stamped(t), sync.clk))
  BY <1>1, <1>3, ClockFacts, LeqTransitive
<1>5. clock = [clock EXCEPT ![t] = clock[t]]
  BY <1>1 DEF Headings
<1>6. PICK C \in {clock[t], Stamped(t), Join(Stamped(t), sync.clk)} :
        clock' = [clock EXCEPT ![t] = C]
  BY <1>5 DEF Load, CasFail
<1>7. UNCHANGED <<frel, sync, heads, blurred>>
  BY DEF Load, CasFail
<1> QED
  BY <1>1, <1>3, <1>4, <1>6, <1>7, QuietStep

\* AtomicCAS that succeeds with mo_relaxed.
LEMMA CasRelaxedKeeps ==
  ASSUME KInv, IInv', NEW t \in Tid, CasRelaxed(t)
  PROVE  KInv'
<1>1. /\ clock' = clock /\ frel' = frel /\ sync' = sync
      /\ heads' = [heads EXCEPT ![t] = Join(@, frel[t])]
      /\ blurred' = (blurred \/ frel[t] # Zero)
  BY DEF CasRelaxed
<1>2. /\ heads[t] \in Clock /\ frel[t] \in Clock /\ clock[t] \in Clock
      /\ Leq(heads[t], clock[t]) /\ Leq(frel[t], clock[t])
  BY Parts DEF Headings
<1>3. Leq(Join(heads[t], frel[t]), clock[t])
  BY <1>2, JoinLeast
<1>4. heads'[t] = Join(heads[t], frel[t]) /\ \A u \in Tid \ {t} : heads'[u] = heads[u]
  BY <1>1, Parts DEF Headings
<1>5. Known(clock', heads', frel')
  BY <1>1, <1>3, <1>4, Parts DEF Known
<1>6. ASSUME ~blurred' PROVE Keeps(sync', heads', frel')
  <2>1. ~blurred /\ frel[t] = Zero
    BY <1>1, <1>6
  <2>2. heads'[t] = heads[t]
    BY <1>2, <1>4, <2>1, ZeroFacts
  <2>3. \A u \in Tid : heads'[u] = heads[u]
    BY <1>4, <2>2
  <2> QED
    BY <1>1, <2>1, <2>3 DEF KInv, Keeps
<1> QED
  BY <1>1, <1>5, <1>6 DEF KInv

\* AtomicStore.
LEMMA StoreKeeps ==
  ASSUME KInv, IInv', NEW t \in Tid, NEW mo \in Order, Store(t, mo)
  PROVE  KInv'
<1> DEFINE c == Stamped(t)
           own == Published(t, c, mo)
<1>1. /\ clock' = [clock EXCEPT ![t] = c] /\ frel' = frel
      /\ heads' = [u \in Tid |-> IF u = t THEN Join(heads[t], own) ELSE Zero]
      /\ Tick(t)
  BY DEF Store
<1>2. c \in Clock /\ Leq(clock[t], c)
  BY <1>1, FreshStamp
<1>3. /\ heads \in Headings /\ frel \in Headings /\ clock \in Headings
      /\ heads' \in Headings /\ sync \in SyncClock /\ Covers(sync)
      /\ Continues(sync, clock, frel) /\ Known(clock, heads, frel)
  BY Parts DEF KInv, IInv, Types, Headings
<1>4. heads'[t] = Join(heads[t], own) /\ \A u \in Tid \ {t} : heads'[u] = Zero
  BY <1>1
<1>5. own = IF IsReleaseOrder(mo) THEN c ELSE frel[t]
  BY DEF Published
<1> HIDE DEF c, own
<1>6. clock' \in Headings /\ clock'[t] = c /\ \A u \in Tid : Leq(clock[u], clock'[u])
  BY <1>1, <1>2, <1>3, NextParts, ClocksGrow
<1>7. Known(clock', heads, frel) /\ Continues(sync, clock', frel)
  BY <1>3, <1>6, KnownGrows, ContinuesGrows
<1>8. heads[t] \in Clock /\ frel[t] \in Clock /\ Leq(heads[t], c) /\ Leq(frel[t], c) /\ Leq(c, c)
  BY <1>2, <1>3, <1>6, <1>7, LeqOrder DEF Headings, Known
<1>9. own \in Clock /\ Leq(heads'[t], c)
  BY <1>2, <1>4, <1>5, <1>8, JoinLeast
<1>10. Known(clock', heads', frel')
  <2> SUFFICES ASSUME NEW u \in Tid PROVE Leq(heads'[u], clock'[u])
    BY <1>1, <1>7 DEF Known
  <2>1. clock'[u] \in Clock
    BY <1>6 DEF Headings
  <2> QED
    BY <1>4, <1>6, <1>9, <2>1, ZeroLeast
<1>11. CASE IsReleaseOrder(mo)
  <2>1. sync' = ReleaseStore(t, c)
    BY <1>11 DEF Store, c
  <2>2. Chained(t, c, frel[t]) /\ Leq(c, clock'[t])
    BY <1>2, <1>6, <1>8, AboveIsChained
  <2>3. Covers(sync') /\ Continues(sync', clock', frel') /\ Keeps(sync', heads', frel')
    BY <1>1, <1>2, <1>3, <1>4, <1>6, <1>9, <2>1, <2>2, OwnTable
  <2> QED
    BY <1>10, <2>3 DEF KInv
<1>12. CASE ~IsReleaseOrder(mo)
  <2>1. /\ sync' = NonReleaseStore2(NonReleaseStore(sync, t), t, frel[t])
        /\ blurred' = (blurred /\ ~IsReleaseOrder(mo))
    BY <1>12 DEF Store
  <2>2. heads'[t] = Join(heads[t], frel[t])
    BY <1>4, <1>5, <1>12
  <2>3. LET r == NonReleaseStore2(NonReleaseStore(sync, t), t, frel[t]) IN
        /\ Covers(r) /\ Continues(r, clock', frel)
        /\ Keeps(sync, heads, frel) => Keeps(r, heads', frel)
    BY <1>3, <1>4, <1>6, <1>7, <1>8, <2>2, PlainStoreKeeps
  <2>4. ~blurred' => Keeps(sync, heads, frel)
    BY <1>12, <2>1 DEF KInv
  <2> QED
    BY <1>1, <1>10, <2>1, <2>3, <2>4 DEF KInv
<1> QED
  BY <1>11, <1>12

\* AtomicRMW, and AtomicCAS that succeeds.
LEMMA RmwStepKeeps ==
  ASSUME KInv, IInv', NEW t \in Tid, NEW mo \in Order, NEW keep \in BOOLEAN,
         Rmw(t, mo, keep)
  PROVE  KInv'
<1> DEFINE c == IF IsAcquireOrder(mo) THEN Join(Stamped(t), sync.clk) ELSE Stamped(t)
           rel == IsReleaseOrder(mo)
<1>1. /\ clock' = [clock EXCEPT ![t] = c] /\ frel' = frel
      /\ sync' = RmwSync(sync, t, c, frel[t], rel, keep)
      /\ heads' = [heads EXCEPT ![t] = Join(@, Published(t, c, mo))]
      /\ blurred' = (blurred \/ Blurs(t, mo, keep))
      /\ Tick(t)
  BY DEF Rmw
<1>2. /\ heads \in Headings /\ frel \in Headings /\ clock \in Headings
      /\ sync \in SyncClock /\ Covers(sync) /\ sync.clk \in Clock
      /\ Continues(sync, clock, frel) /\ Known(clock, heads, frel)
  BY Parts, SyncClockParts DEF KInv
<1>3. c \in Clock /\ Leq(clock[t], c) /\ c # Zero
  <2>1. /\ Stamped(t) \in Clock /\ Leq(clock[t], Stamped(t)) /\ Stamped(t)[t] # 0
    BY <1>1, FreshStamp
  <2>2. /\ Join(Stamped(t), sync.clk) \in Clock
        /\ Leq(Stamped(t), Join(Stamped(t), sync.clk))
    BY <1>2, <2>1, ClockFacts
  <2>3. clock[t] \in Clock
    BY <1>2 DEF Headings
  <2>4. Leq(clock[t], Join(Stamped(t), sync.clk))
    BY <2>1, <2>2, <2>3, LeqTransitive
  <2>5. Stamped(t) # Zero
    BY <2>1 DEF Zero
  <2>6. Join(Stamped(t), sync.clk) # Zero
    BY <2>1, <2>2, <2>5, ZeroFacts
  <2> QED
    BY <2>1, <2>2, <2>4, <2>5, <2>6
<1>4. /\ Published(t, c, mo) = IF rel THEN c ELSE frel[t]
      /\ Blurs(t, mo, keep) = Blurring(sync, t, frel[t], rel, keep)
      /\ rel \in BOOLEAN
  BY DEF Published, Blurs, Blurring, IsReleaseOrder
<1> HIDE DEF c, rel
<1>5. clock' \in Headings /\ clock'[t] = c /\ \A u \in Tid : Leq(clock[u], clock'[u])
  BY <1>1, <1>2, <1>3, NextParts, ClocksGrow
<1>6. Known(clock', heads, frel)
  BY <1>2, <1>5, KnownGrows
<1>7. heads[t] \in Clock /\ frel[t] \in Clock /\ Leq(heads[t], c) /\ Leq(frel[t], c) /\ Leq(c, c)
  BY <1>2, <1>3, <1>5, <1>6, LeqOrder DEF Headings, Known
<1>8. /\ heads'[t] = Join(heads[t], IF rel THEN c ELSE frel[t])
      /\ \A u \in Tid \ {t} : heads'[u] = heads[u]
  BY <1>1, <1>2, <1>4 DEF Headings
<1>9. Leq(heads'[t], c) /\ heads' \in Headings
  BY <1>3, <1>7, <1>8, JoinLeast DEF IInv, Types, Headings
<1>10. Known(clock', heads', frel')
  BY <1>1, <1>5, <1>6, <1>8, <1>9 DEF Known
<1>11. Publishes(t, IF rel THEN c ELSE frel[t], clock, clock', heads, heads', frel)
  BY <1>2, <1>5, <1>7, <1>8, <1>9 DEF Publishes
<1>12. LET r == RmwSync(sync, t, c, frel[t], rel, keep) IN
       /\ Covers(r) /\ Continues(r, clock', frel)
       /\ ~Blurring(sync, t, frel[t], rel, keep) /\ Keeps(sync, heads, frel)
            => Keeps(r, heads', frel)
  BY <1>2, <1>3, <1>4, <1>5, <1>11, RmwKeeps
<1>13. ~blurred' => Keeps(sync, heads, frel) /\ ~Blurring(sync, t, frel[t], rel, keep)
  BY <1>1, <1>4 DEF KInv
<1> QED
  BY <1>1, <1>10, <1>12, <1>13 DEF KInv

\* AtomicFence.
LEMMA FenceKeeps ==
  ASSUME KInv, IInv', NEW t \in Tid, NEW mo \in Order, Fence(t, mo)
  PROVE  KInv'
<1> DEFINE s == Stamped(t)
           c == IF IsLoadOrder(mo) THEN Join(s, facq[t]) ELSE s
           f == IF IsReleaseOrder(mo) THEN Join(frel[t], s) ELSE frel[t]
<1>1. /\ sync \in SyncClock /\ clock \in Headings /\ heads \in Headings /\ frel \in Headings
      /\ frel[t] \in Clock /\ facq[t] \in Clock /\ heads[t] \in Clock /\ clock[t] \in Clock
      /\ Covers(sync) /\ Continues(sync, clock, frel) /\ Known(clock, heads, frel)
  BY Parts DEF Headings, KInv
<1>2. /\ clock' = [clock EXCEPT ![t] = c]
      /\ frel' = [frel EXCEPT ![t] = f]
      /\ UNCHANGED <<sync, heads, blurred>>
      /\ Tick(t)
  BY <1>1 DEF Fence, Headings
<1>3. s \in Clock /\ Leq(clock[t], s) /\ clock[t][t] < s[t]
  BY <1>2, FreshStamp
<1> HIDE DEF s
<1>4. Join(s, facq[t]) \in Clock /\ Leq(s, Join(s, facq[t])) /\ Leq(s, s)
  BY <1>1, <1>3, ClockFacts, LeqOrder
<1>5. c \in Clock /\ Leq(s, c)
  BY <1>3, <1>4
<1>6. Leq(clock[t], c)
  BY <1>1, <1>3, <1>5, LeqTransitive
<1>7. Leq(frel[t], s) /\ f \in Clock /\ Leq(frel[t], f) /\ Leq(f, s)
  <2>1. Leq(frel[t], s)
    BY <1>1, <1>3, LeqTransitive DEF Known
  <2>2. Join(frel[t], s) \in Clock /\ Leq(frel[t], Join(frel[t], s)) /\ Leq(Join(frel[t], s), s)
    BY <1>1, <1>3, <1>4, <2>1, ClockFacts, JoinLeast
  <2> QED
    BY <1>1, <2>1, <2>2, LeqOrder
<1>8. Leq(f, c)
  BY <1>3, <1>5, <1>7, LeqTransitive
<1> HIDE DEF c
<1>9. clock' \in Headings /\ clock'[t] = c /\ \A u \in Tid : Leq(clock[u], clock'[u])
  <2>1. clock'[t] = c /\ \A u \in Tid \ {t} : clock'[u] = clock[u]
    BY <1>1, <1>2 DEF Headings
  <2>2. \A u \in Tid : Leq(clock[u], clock[u])
    BY <1>1, LeqOrder DEF Headings
  <2> QED
    BY <1>6, <2>1, <2>2, NextParts
<1>10. /\ frel' \in Headings /\ frel'[t] = f /\ \A u \in Tid : Leq(frel[u], frel'[u])
       /\ \A u \in Tid \ {t} : frel'[u] = frel[u]
  <2>1. frel'[t] = f /\ \A u \in Tid \ {t} : frel'[u] = frel[u]
    BY <1>1, <1>2 DEF Headings
  <2>2. \A u \in Tid : Leq(frel[u], frel[u])
    BY <1>1, LeqOrder DEF Headings
  <2> HIDE DEF f
  <2> QED
    BY <1>7, <2>1, <2>2, NextParts
<1>11. Known(clock', heads', frel')
  <2>1. Known(clock', heads, frel)
    BY <1>1, <1>9, KnownGrows
  <2> HIDE DEF f
  <2> QED
    BY <1>2, <1>8, <1>9, <1>10, <2>1 DEF Known
<1>12. ASSUME NEW C \in Clock, Leq(C, clock[t]), Chained(t, C, frel[t])
       PROVE  Chained(t, C, f)
  <2>1. C[t] < s[t]
    <3>1. C[t] \in Nat /\ clock[t][t] \in Nat /\ s[t] \in Nat /\ C[t] <= clock[t][t]
      BY <1>1, <1>3, <1>12 DEF Clock, Leq
    <3> QED
      BY <1>3, <3>1
  <2>2. Leq(C, s)
    BY <1>1, <1>3, <1>12, LeqTransitive
  <2>3. Chained(t, C, Join(frel[t], s))
    BY <1>1, <1>3, <2>1, <2>2, FenceChained
  <2> QED
    BY <1>12, <2>3
<1> HIDE DEF f
<1>13. Continues(sync, clock', frel')
  <2>1. Continues(sync, clock', frel)
    BY <1>1, <1>9, ContinuesGrows
  <2>2. sync.owner = t => Chained(t, sync.clk, f)
    BY <1>1, <1>12, SyncClockParts DEF Continues
  <2>3. t \in DOMAIN sync.vvc => Chained(t, sync.vvc[t], f)
    BY <1>1, <1>12, SyncClockParts DEF Continues
  <2> QED
    BY <1>10, <2>1, <2>2, <2>3 DEF Continues
<1>14. ASSUME Keeps(sync, heads, frel) PROVE Keeps(sync, heads, frel')
  <2> SUFFICES ASSUME NEW u \in Tid, VvcInUse(sync)
               PROVE  IF u \in DOMAIN sync.vvc
                      THEN Leq(heads[u], Join(sync.vvc[u], frel'[u]))
                      ELSE Leq(heads[u], frel'[u])
    BY <1>14 DEF Keeps
  <2>1. heads[u] \in Clock /\ frel[u] \in Clock /\ frel'[u] \in Clock /\ Leq(frel[u], frel'[u])
    BY <1>1, <1>10 DEF Headings
  <2>2. CASE u \notin DOMAIN sync.vvc
    BY <1>14, <2>1, <2>2, LeqTransitive DEF Keeps
  <2>3. CASE u \in DOMAIN sync.vvc
    <3> DEFINE v == sync.vvc[u]
    <3>1. v \in Clock /\ Leq(heads[u], Join(v, frel[u]))
      BY <1>1, <1>14, <2>3, SyncClockParts DEF Keeps
    <3> HIDE DEF v
    <3>2. /\ Join(v, frel[u]) \in Clock /\ Join(v, frel'[u]) \in Clock
          /\ Leq(v, Join(v, frel'[u])) /\ Leq(frel'[u], Join(v, frel'[u]))
      BY <2>1, <3>1, ClockFacts
    <3>3. Leq(frel[u], Join(v, frel'[u]))
      BY <2>1, <3>2, LeqTransitive
    <3>4. Leq(Join(v, frel[u]), Join(v, frel'[u]))
      BY <2>1, <3>1, <3>2, <3>3, JoinLeast
    <3>5. Leq(heads[u], Join(v, frel'[u]))
      BY <2>1, <3>1, <3>2, <3>4, LeqTransitive
    <3> QED
      BY <2>3, <3>5 DEF v
  <2> QED
    BY <2>2, <2>3
<1> QED
  BY <1>1, <1>2, <1>11, <1>13, <1>14 DEF KInv

\* The initial states.
LEMMA InitKeeps == Init => KInv
<1> SUFFICES ASSUME Init PROVE KInv
  OBVIOUS
<1>1. IInv
  BY InitInv
<1>2. /\ clock \in Headings /\ heads \in Headings /\ frel \in Headings /\ sync = Reset
      /\ \A t \in Tid : heads[t] = Zero /\ frel[t] = Zero
  BY <1>1 DEF IInv, Types, Headings, Init
<1>3. Known(clock, heads, frel)
  BY <1>2, ZeroLeast DEF Known, Headings
<1> QED
  BY <1>1, <1>2, <1>3, NoTable DEF KInv

\* Every step keeps the invariant.
LEMMA NextKeeps == KInv /\ [Next]_vars => KInv'
<1> SUFFICES ASSUME KInv, [Next]_vars PROVE KInv'
  OBVIOUS
<1>1. IInv'
  BY NextStep DEF KInv
<1>2. CASE UNCHANGED vars
  BY <1>1, <1>2 DEF vars, KInv
<1>3. CASE Next
  <2>1. PICK t \in Tid :
          \/ \E mo \in Uses.load : Load(t, mo)
          \/ \E mo \in Uses.store : Store(t, mo)
          \/ \E mo \in Uses.rmw, keep \in BOOLEAN : Rmw(t, mo, keep)
          \/ \E mo \in Uses.rmw : RmwDie(t, mo)
          \/ \E mo \in Uses.cas : mo = "relaxed" /\ CasRelaxed(t)
          \/ \E mo \in Uses.casfail : CasFail(t, mo)
          \/ \E mo \in Uses.fence : Fence(t, mo)
    BY <1>3, Zenon DEF Next
  <2>2. /\ Uses.load \subseteq Order /\ Uses.store \subseteq Order
        /\ Uses.rmw \subseteq Order /\ Uses.casfail \subseteq Order
        /\ Uses.fence \subseteq Order
    BY UsesAssumption
  <2>3. CASE \E mo \in Uses.load : Load(t, mo)
    BY <1>1, <2>2, <2>3, ReadKeeps
  <2>4. CASE \E mo \in Uses.store : Store(t, mo)
    BY <1>1, <2>2, <2>4, StoreKeeps
  <2>5. CASE \E mo \in Uses.rmw, keep \in BOOLEAN : Rmw(t, mo, keep)
    BY <1>1, <2>2, <2>5, RmwStepKeeps
  <2>6. CASE \E mo \in Uses.rmw : RmwDie(t, mo)
    BY <1>1, <2>6 DEF RmwDie, KInv
  <2>7. CASE \E mo \in Uses.cas : mo = "relaxed" /\ CasRelaxed(t)
    BY <1>1, <2>7, CasRelaxedKeeps
  <2>8. CASE \E mo \in Uses.casfail : CasFail(t, mo)
    BY <1>1, <2>2, <2>8, ReadKeeps
  <2>9. CASE \E mo \in Uses.fence : Fence(t, mo)
    BY <1>1, <2>2, <2>9, FenceKeeps
  <2> QED
    BY <2>1, <2>3, <2>4, <2>5, <2>6, <2>7, <2>8, <2>9
<1> QED
  BY <1>2, <1>3

\* The main clock of a location covers every entry of its VVC, and nobody owns
\* the table next to one (ThreadClock::RMW merges before it adds an entry).
THEOREM MainClockCovers == Spec => []VvcUnderClock
<1>1. Init => KInv
  BY InitKeeps
<1>2. KInv /\ [Next]_vars => KInv'
  BY NextKeeps
<1>3. KInv => VvcUnderClock
  BY DEF KInv, Covers, VvcUnderClock
<1> QED
  BY <1>1, <1>2, <1>3, PTL DEF Spec

\* While RMW can tell the release sequences apart, an acquire of the location
\* learns all of them: no collapse, migration or relaxed RMW loses a release
\* (ThreadClock::NonReleaseStore, NonReleaseStore2 and RMW).
THEOREM NoReleaseIsLost == Spec => []NothingLost
<1>1. Init => KInv
  BY InitKeeps
<1>2. KInv /\ [Next]_vars => KInv'
  BY NextKeeps
<1>3. KInv => NothingLost
  BY DEF KInv, Keeps, NothingLost
<1> QED
  BY <1>1, <1>2, <1>3, PTL DEF Spec

\* What a later plain store of a thread would continue is a sequence the thread
\* heads (NonReleaseStore keeps exactly this).
THEOREM OwnSequencesOnly == Spec => []OwnSequences
<1>1. IInv => OwnSequences
  BY InvParts
<1> QED
  BY <1>1, InitInv, NextStep, PTL DEF Spec

-----------------------------------------------------------------------------
(* Dying of a full VVC. *)

\* The entries RMW would find, or make, for sequences that have begun.
Entries(d) == DOMAIN MigrateToVvc(d).vvc

\* The program died at a full VVC of a table that is not empty.
DiedFull == dead => ~IsEmpty(sync) /\ Cardinality(Entries(sync)) = kNumElems

\* All entries but one without a thread are of threads that head a sequence.
LEMMA EntriesAreHeads ==
  ASSUME KInv, ~IsEmpty(sync), NEW e \in Entries(sync), e # NoTid
  PROVE  e \in {t \in Tid : heads[t] # Zero}
<1>1. /\ sync \in SyncClock /\ OwnSequences /\ Covers(sync)
      /\ \A t \in Tid : heads[t] \in Clock
  BY Parts, InvParts DEF KInv, Headings
<1>2. CASE VvcInUse(sync)
  <2>1. e \in DOMAIN sync.vvc
    BY <1>2 DEF Entries, MigrateToVvc
  <2>2. e \in Tid
    BY <1>1, <2>1, SyncClockParts DEF Entry
  <2>3. sync.vvc[e] \in Clock /\ sync.vvc[e] # Zero /\ Leq(sync.vvc[e], heads[e])
    BY <1>1, <1>2, <2>1, <2>2, SyncClockParts DEF Covers, OwnSequences
  <2> QED
    BY <2>2, <2>3, ZeroFacts
<1>3. CASE ~VvcInUse(sync)
  <2>1. DOMAIN sync.vvc = {}
    BY <1>3 DEF VvcInUse
  <2>2. Entries(sync) = DOMAIN SetEntry(sync.vvc, sync.owner, sync.clk)
    BY <1>3 DEF Entries, MigrateToVvc
  <2>3. DOMAIN SetEntry(sync.vvc, sync.owner, sync.clk) = {} \cup {sync.owner}
    BY <2>1 DEF SetEntry
  <2>4. e = sync.owner /\ e \in Tid
    BY <1>1, <2>2, <2>3, SyncClockParts DEF Entry
  <2>5. sync.clk \in Clock /\ sync.clk # Zero /\ Leq(sync.clk, heads[e])
    BY <1>1, <2>4, SyncClockParts DEF OwnSequences, IsEmpty
  <2> QED
    BY <2>4, <2>5, ZeroFacts
<1> QED
  BY <1>2, <1>3

\* A step that dies finds the VVC full, and nothing happens after it.
LEMMA DiesFull ==
  ASSUME KInv, DiedFull, [Next]_vars
  PROVE  DiedFull'
<1>1. CASE UNCHANGED vars
  BY <1>1 DEF vars, DiedFull
<1>2. ASSUME NEW t \in Tid, NEW mo, RmwDie(t, mo)
      PROVE  DiedFull'
  <2>1. sync' = sync /\ RmwDies(sync, t, IsReleaseOrder(mo))
    BY <1>2 DEF RmwDie
  <2>2. Covers(sync)
    BY DEF KInv
  <2>3. ~IsEmpty(sync) /\ Cardinality(Entries(sync)) = kNumElems
    BY <2>1, <2>2 DEF RmwDies, IsSimple, Covers, Entries
  <2> QED
    BY <2>1, <2>3 DEF DiedFull
<1>3. CASE Next
  <2>1. CASE dead' = FALSE
    BY <2>1 DEF DiedFull
  <2>2. CASE \E t \in Tid, mo \in Uses.rmw : RmwDie(t, mo)
    BY <1>2, <2>2
  <2>3. (dead' = dead /\ dead = FALSE) \/ \E t \in Tid, mo \in Uses.rmw : RmwDie(t, mo)
    <3>1. dead \in BOOLEAN
      BY InvParts DEF KInv, TypeOK
    <3> QED
      BY <1>3, <3>1 DEF Next, Load, Store, Rmw, CasRelaxed, CasFail, Fence
  <2> QED
    BY <2>1, <2>2, <2>3
<1> QED
  BY <1>1, <1>3

\* RMW gives up on a full VVC only when as many threads as it has entries, but
\* for one, head release sequences (the search of ThreadClock::RMW, and the
\* entry it may have made for a table nobody owned).
THEOREM FullMeansCrowded ==
  ASSUME IsFiniteSet(Tid)
  PROVE  Spec => []DiesOnlyWhenCrowded
<1>1. Init => KInv /\ DiedFull
  BY InitKeeps DEF Init, DiedFull
<1>2. KInv /\ DiedFull /\ [Next]_vars => KInv' /\ DiedFull'
  BY NextKeeps, DiesFull
<1>3. KInv /\ DiedFull => DiesOnlyWhenCrowded
  <2> SUFFICES ASSUME KInv, DiedFull, dead
               PROVE  Cardinality({t \in Tid : heads[t] # Zero}) >= kNumElems - 1
    BY DEF DiesOnlyWhenCrowded
  <2> DEFINE H == {t \in Tid : heads[t] # Zero}
             S == Entries(sync)
  <2>1. ~IsEmpty(sync) /\ Cardinality(S) = kNumElems
    BY DEF DiedFull
  <2>2. S \ {NoTid} \subseteq H
    BY <2>1, EntriesAreHeads
  <2>3. H \in SUBSET Tid
    OBVIOUS
  <2> HIDE DEF H, S
  <2>4. IsFiniteSet(H)
    BY <2>3, FS_Subset
  <2>5. IsFiniteSet(S \ {NoTid}) /\ Cardinality(S \ {NoTid}) <= Cardinality(H)
    BY <2>2, <2>4, FS_Subset
  <2>6. IsFiniteSet(S)
    <3>1. IsFiniteSet((S \ {NoTid}) \cup {NoTid})
      BY <2>5, FS_AddElement
    <3>2. S \subseteq (S \ {NoTid}) \cup {NoTid}
      OBVIOUS
    <3> QED
      BY <3>1, <3>2, FS_Subset
  <2>7. Cardinality(S) \in Nat /\ Cardinality(H) \in Nat
    BY <2>4, <2>6, FS_CardinalityType
  <2>8. Cardinality(S \ {NoTid}) >= Cardinality(S) - 1
    <3>1. Cardinality(S \ {NoTid}) = IF NoTid \in S THEN Cardinality(S) - 1 ELSE Cardinality(S)
      BY <2>6, FS_RemoveElement, Zenon
    <3> QED
      BY <2>7, <3>1
  <2>9. Cardinality(S \ {NoTid}) \in Nat
    BY <2>5, FS_CardinalityType
  <2>10. Cardinality(H) >= kNumElems - 1
    BY <2>1, <2>5, <2>7, <2>8, <2>9
  <2> QED
    BY <2>10 DEF H
<1> QED
  BY <1>1, <1>2, <1>3, PTL DEF Spec
=============================================================================
