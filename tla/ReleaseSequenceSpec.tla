------------------------ MODULE ReleaseSequenceSpec -------------------------
(***************************************************************************)
(* What C++11 lets threads learn of each other through one atomic location *)
(* and their fences. It is the promise of tsan_clock.cc: the runtime may   *)
(* learn less than this (and then reports a race that is not there), never *)
(* more (and then misses one).                                             *)
(*                                                                         *)
(*   clock[t]  the clock of thread t                                       *)
(*   heads[t]  the clock of the release sequences thread t heads that the  *)
(*             last store in modification order belongs to                 *)
(*   frel[t]   what t's release fences cover                               *)
(*   facq[t]   what t's reads brought that an acquire fence may still take *)
(***************************************************************************)
EXTENDS Clocks

VARIABLES clock, heads, frel, facq

vars == <<clock, heads, frel, facq>>

Heads == {heads[u] : u \in Tid}

\* t advances its own entry at will and others' no further than S allows.
MayLearn(t, S) ==
  /\ clock' = [clock EXCEPT ![t] = clock'[t]]
  /\ clock'[t] \in Clock
  /\ Leq(clock[t], clock'[t])
  /\ \A u \in Tid \ {t} : \E c \in S \cup {clock[t]} : clock'[t][u] <= c[u]

\* A store or RMW of t heads a release sequence with its clock if it is a
\* release, and a hypothetical one with its release fences' if it is not.
Own(t) == {clock'[t], frel[t]}

Init ==
  /\ clock \in [Tid -> Clock]
  /\ \A t, u \in Tid : t # u => clock[t][u] = 0
  /\ heads = [t \in Tid |-> Zero]
  /\ frel = [t \in Tid |-> Zero]
  /\ facq = [t \in Tid |-> Zero]

\* A store ends every release sequence of the other threads.
Store(t) ==
  /\ MayLearn(t, {})
  /\ \E own \in Own(t) :
       heads' = [u \in Tid |-> IF u = t THEN Join(heads[t], own) ELSE Zero]
  /\ UNCHANGED <<frel, facq>>

ReadsLast(t) ==
  /\ MayLearn(t, Heads)
  /\ facq' = [facq EXCEPT ![t] = facq'[t]]
  /\ facq'[t] \in Clock
  /\ CoveredBy(facq'[t], Heads \cup {facq[t]})
  /\ UNCHANGED frel

Load(t) ==
  /\ ReadsLast(t)
  /\ UNCHANGED heads

\* An RMW ends no release sequence.
Rmw(t) ==
  /\ ReadsLast(t)
  /\ \E own \in Own(t) : heads' = [heads EXCEPT ![t] = Join(@, own)]

Fence(t) ==
  /\ MayLearn(t, {facq[t]})
  /\ frel' = [frel EXCEPT ![t] = frel'[t]]
  /\ frel'[t] \in Clock
  /\ CoveredBy(frel'[t], {frel[t], clock'[t]})
  /\ UNCHANGED <<heads, facq>>

Next == \E t \in Tid : Store(t) \/ Load(t) \/ Rmw(t) \/ Fence(t)

Spec == Init /\ [][Next]_vars
=============================================================================
