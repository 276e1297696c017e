---------------------------- MODULE DekkerFences ----------------------------
(***************************************************************************)
(* dekker-fences/: Dekker's algorithm of two threads with relaxed accesses *)
(* and fences. The first seq_cst fence of p0 is commented out.             *)
(***************************************************************************)
EXTENDS Programs

\* Thread p0, its own number and the value of turn it waits for.
P0 == Main
Mine(t) == IF t = P0 THEN "flag0" ELSE "flag1"
Others(t) == IF t = P0 THEN "flag1" ELSE "flag0"
Turn(t) == IF t = P0 THEN 0 ELSE 1

\* first: the value that let t in was the flag's initial one.
DekkerInit ==
  StartWith([flag0 |-> FALSE, flag1 |-> FALSE, turn |-> 0],
            [t \in Tid |-> IF t \in Two THEN "raise" ELSE "done"], [first |-> FALSE], {"var"})

DekkerRaise(t) ==
  \/ /\ pc[t] = "raise"
     /\ Writes(t, Mine(t), "relaxed", TRUE)
     /\ Goes(t, IF t = P0 THEN "test" ELSE "fence")
  \/ pc[t] = "fence" /\ Orders(t, "seq_cst") /\ Goes(t, "test")

\* while (other flag): if it is not t's turn, lower the flag and wait.
DekkerTest(t) ==
  \/ /\ pc[t] = "test"
     /\ \E p \in NextReads(t, Others(t), "relaxed") :
          /\ LoadAt(t, Others(t), "relaxed", p)
          /\ IF vals[Others(t)][p] THEN Goes(t, "turn")
                                   ELSE GoesWith(t, "acquire", [first |-> p = 1])
     /\ UNCHANGED <<vals, shadow, raced>>
  \/ /\ pc[t] = "turn"
     /\ Reads(t, "turn", "relaxed", LAMBDA v : Goes(t, IF v = Turn(t) THEN "test" ELSE "lower"))
  \/ pc[t] = "lower" /\ Writes(t, Mine(t), "relaxed", FALSE) /\ Goes(t, "await")
  \/ /\ pc[t] = "await"
     /\ Reads(t, "turn", "relaxed", LAMBDA v : Goes(t, IF v = Turn(t) THEN "again" ELSE "await"))
  \/ pc[t] = "again" /\ Writes(t, Mine(t), "relaxed", TRUE) /\ Goes(t, "fence")

\* The critical section; turn is passed on before the release fence.
DekkerSection(t) ==
  \/ pc[t] = "acquire" /\ Orders(t, "acquire") /\ Goes(t, "section")
  \/ pc[t] = "section" /\ Accesses(t, "var", TRUE) /\ Goes(t, "pass")
  \/ pc[t] = "pass" /\ Writes(t, "turn", "relaxed", 1 - Turn(t)) /\ Goes(t, "release")
  \/ pc[t] = "release" /\ Orders(t, "release") /\ Goes(t, "leave")
  \/ pc[t] = "leave" /\ Writes(t, Mine(t), "relaxed", FALSE) /\ Goes(t, "done")

DekkerStep(t) == DekkerRaise(t) \/ DekkerTest(t) \/ DekkerSection(t)

\* The latest values would keep t in its loops.
DekkerBlocked(t) ==
  \/ pc[t] = "await" /\ Latest("turn") # Turn(t)
  \/ pc[t] \in {"test", "turn"} /\ Latest(Others(t)) /\ Latest("turn") = Turn(t)

\* What the missing fence does, no more and no less: the writes to var race if
\* and only if both threads got in on the initial value of the other's flag.
\* One that saw the other's flag raised has waited, and knows its section.
DekkerRaces ==
  raced # {} <=> \A t \in Two : regs[t].first /\ pc[t] \in {"pass", "release", "leave", "done"}
=============================================================================
