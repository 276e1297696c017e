------------------------------ MODULE Barrier ------------------------------
(***************************************************************************)
(* barrier/: a spinning barrier. One thread writes var before it waits,    *)
(* the others read var after they waited. All accesses are seq_cst but the *)
(* addition to step_ that opens the barrier, which is relaxed. The threads *)
(* of barrier.cc end there; here they wait once more, as a barrier is made *)
(* to be used again: step_ then starts at another value, and nwait_ at     *)
(* what the last thread of the first round left.                           *)
(***************************************************************************)
EXTENDS Programs

BarrierWriter == Main

\* n_
Participants == Cardinality(Tid)

\* How often each thread waits.
Rounds == 2

\* step is what wait() read of step_ first; order says how many came before in the
\* first round, and round how often wait() has returned.
BarrierInit ==
  StartWith([nwait |-> 0, step |-> 0],
            [t \in Tid |-> IF t = BarrierWriter THEN "write" ELSE "wait"],
            [step |-> 0, order |-> 0, round |-> 0], {"var"})

\* wait() returns.
BarrierReturns(t) ==
  GoesWith(t, CASE regs[t].round = Rounds - 1 -> "done"
                [] regs[t].round = 0 /\ t # BarrierWriter -> "read"
                [] OTHER -> "wait",
              [regs[t] EXCEPT !.round = @ + 1])

\* nwait_ is counted up.
BarrierCounts(t) ==
  /\ pc[t] = "arrive"
  /\ Updates(t, "nwait", "seq_cst", Latest("nwait") + 1)
  /\ GoesWith(t, IF Latest("nwait") = Participants - 1 THEN "reset" ELSE "spin",
                 [regs[t] EXCEPT !.order = IF regs[t].round = 0 THEN Latest("nwait") ELSE @])

\* Mutant of BarrierArrive: step_ is read the first time only.
BarrierArriveKeepsStep(t) ==
  \/ pc[t] = "wait" /\ Event(t) /\ Goes(t, "arrive") /\ UNCHANGED <<shadow, raced>>
  \/ BarrierCounts(t)

\* spinning_barrier::wait, up to the loop.
BarrierArrive(t) ==
  \/ /\ pc[t] = "wait"
     /\ Reads(t, "step", "seq_cst", LAMBDA v : GoesWith(t, "arrive", [regs[t] EXCEPT !.step = v]))
  \/ BarrierCounts(t)

\* Mutant of BarrierOpen: the addition to step_ releases.
BarrierOpenReleases(t) ==
  \/ pc[t] = "reset" /\ Writes(t, "nwait", "seq_cst", 0) /\ Goes(t, "open")
  \/ pc[t] = "open" /\ Updates(t, "step", "acq_rel", Latest("step") + 1) /\ BarrierReturns(t)

\* Mutant of BarrierOpen: the last thread opens the barrier before it resets nwait_.
BarrierOpensFirst(t) ==
  \/ pc[t] = "reset" /\ Updates(t, "step", "relaxed", Latest("step") + 1) /\ Goes(t, "open")
  \/ pc[t] = "open" /\ Writes(t, "nwait", "seq_cst", 0) /\ BarrierReturns(t)

\* The last thread to come.
BarrierOpen(t) ==
  \/ pc[t] = "reset" /\ Writes(t, "nwait", "seq_cst", 0) /\ Goes(t, "open")
  \/ pc[t] = "open" /\ Updates(t, "step", "relaxed", Latest("step") + 1) /\ BarrierReturns(t)

\* The others spin.
BarrierSpin(t) ==
  /\ pc[t] = "spin"
  /\ Reads(t, "step", "seq_cst",
           LAMBDA v : IF v = regs[t].step THEN Goes(t, "spin") ELSE BarrierReturns(t))

BarrierVar(t) ==
  \/ pc[t] = "write" /\ Accesses(t, "var", TRUE) /\ Goes(t, "wait")
  \/ pc[t] = "read" /\ Accesses(t, "var", FALSE) /\ Goes(t, "wait")

BarrierStep(t) == BarrierArrive(t) \/ BarrierOpen(t) \/ BarrierSpin(t) \/ BarrierVar(t)

\* The latest value of step_ would keep t in its loop.
BarrierBlocked(t) == pc[t] = "spin" /\ Latest("step") = regs[t].step

\* How many rounds t has come to.
Arrivals(t) == regs[t].round + (IF pc[t] \in {"spin", "reset", "open"} THEN 1 ELSE 0)

\* Nobody is past a round of the barrier before all have come to that round, whatever
\* stale value of step_ a thread reads, first or in its loop, and however early it
\* comes back.
NobodyPassesEarly == \A t, u \in Tid : regs[t].round <= Arrivals(u)

\* The report the benchmark is there for: a reader that comes before the writer
\* is let through by the relaxed addition, which it does not synchronise with,
\* so its read of var races; one that comes after it has its nwait_.
BarrierRaces ==
  LET before == {t \in Tid \ {BarrierWriter} : regs[t].order < regs[BarrierWriter].order}
  IN  /\ raced # {} => before # {}
      /\ (\A t \in Tid : pc[t] = "done") /\ before # {} => raced # {}
=============================================================================
