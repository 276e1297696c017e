------------------------------- MODULE Clocks -------------------------------
(***************************************************************************)
(* Vector clocks: what a thread, a lock or a store knows of every thread.  *)
(* A clock of tsan is a table of epochs indexed by thread id; an entry     *)
(* beyond the table's size reads as 0, so a table of size 0 is Zero.       *)
(***************************************************************************)
EXTENDS Naturals

CONSTANT Tid

Clock == [Tid -> Nat]

Zero == [t \in Tid |-> 0]

\* The pointwise maximum (ThreadClock::acquire, SyncClock::JoinClock).
Join(a, b) == [t \in Tid |-> IF a[t] >= b[t] THEN a[t] ELSE b[t]]

Leq(a, b) == \A t \in Tid : a[t] <= b[t]

\* Every entry of c is already in one of the clocks of the set S.
CoveredBy(c, S) == \A t \in Tid : \E s \in S : c[t] <= s[t]
=============================================================================
