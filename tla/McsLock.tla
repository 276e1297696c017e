------------------------------- MODULE McsLock -------------------------------
(***************************************************************************)
(* mcs-lock/: a queue lock. A thread's node is named by the thread, and    *)
(* NULL is NoTid. Each thread takes the lock twice, with the same node.    *)
(***************************************************************************)
EXTENDS Programs

NextOf(t) == IF t = Main THEN "next0" ELSE "next1"
GateOf(t) == IF t = Main THEN "gate0" ELSE "gate1"

\* pred and next as in the code; round counts the critical sections. told: how
\* many of its sections t announced through tail. knows: how many of the other's
\* were announced at t's latest exchange. blind: t made an access that conflicts
\* with one in a section it does not know.
McsInit ==
  StartWith([tail |-> NoTid, next0 |-> NoTid, next1 |-> NoTid, gate0 |-> 0, gate1 |-> 0],
            [t \in Tid |-> IF t \in Two THEN "next" ELSE "done"],
            [pred |-> NoTid, next |-> NoTid, round |-> 1,
             told |-> 0, knows |-> 0, blind |-> FALSE], {"shared"})

\* mcs_mutex::lock
McsTake(t) ==
  \/ pc[t] = "next" /\ Writes(t, NextOf(t), "relaxed", NoTid) /\ Goes(t, "gate")
  \/ pc[t] = "gate" /\ Writes(t, GateOf(t), "relaxed", 1) /\ Goes(t, "exchange")
  \/ /\ pc[t] = "exchange"
     /\ Updates(t, "tail", "acq_rel", t)
     /\ GoesWith(t, IF Latest("tail") = NoTid THEN "section" ELSE "link",
                    [regs[t] EXCEPT !.pred = Latest("tail"), !.told = regs[t].round - 1,
                                    !.knows = regs[Other(t)].told])
  \/ pc[t] = "link" /\ Writes(t, NextOf(regs[t].pred), "release", t) /\ Goes(t, "spin")
  \/ /\ pc[t] = "spin"
     /\ Reads(t, GateOf(t), "relaxed",
              LAMBDA v : Goes(t, IF v = 1 THEN "spin" ELSE "section"))

\* threadA stores, then loads shared; threadB loads, then stores.
McsStores(t, round) == (t = Main) = (round = 1)

\* The other's sections that t does not know of, and their conflict with t's.
McsConflict(t) ==
  \E r \in regs[t].knows + 1..regs[Other(t)].round - 1 :
    McsStores(t, regs[t].round) \/ McsStores(Other(t), r)

McsSection(t) ==
  /\ pc[t] = "section"
  /\ Accesses(t, "shared", McsStores(t, regs[t].round))
  /\ GoesWith(t, "successor", [regs[t] EXCEPT !.blind = @ \/ McsConflict(t)])

\* The lock is left: the thread takes it once more, or for good.
McsLeft(t, told) ==
  GoesWith(t, IF regs[t].round = 1 THEN "next" ELSE "done",
              [regs[t] EXCEPT !.round = @ + 1, !.told = told])

\* mcs_mutex::unlock
McsUnlock(t) ==
  \/ /\ pc[t] = "successor"
     /\ Reads(t, NextOf(t), "acquire",
              LAMBDA v : GoesWith(t, IF v = NoTid THEN "cas" ELSE "pass",
                                  [regs[t] EXCEPT !.next = v]))
  \/ /\ pc[t] = "cas"
     /\ \/ Succeeds(t, "tail", t, NoTid, "acq_rel") /\ McsLeft(t, regs[t].round)
        \/ Fails(t, "tail", t, "acquire") /\ Goes(t, "wait")
  \/ /\ pc[t] = "wait"
     /\ Reads(t, NextOf(t), "relaxed",
              LAMBDA v : IF v = NoTid THEN Goes(t, "wait")
                                      ELSE GoesWith(t, "pass", [regs[t] EXCEPT !.next = v]))
  \/ pc[t] = "pass" /\ Writes(t, GateOf(regs[t].next), "release", 0) /\ McsLeft(t, regs[t].told)

McsStep(t) == McsTake(t) \/ McsSection(t) \/ McsUnlock(t)

\* The latest values would keep t in its loops.
McsBlocked(t) ==
  \/ pc[t] = "spin" /\ Latest(GateOf(t)) = 1
  \/ pc[t] = "wait" /\ Latest(NextOf(t)) = NoTid

McsHolds(t) == pc[t] \in {"section", "successor", "cas", "wait", "pass"}

\* At most one thread holds the lock, although gates and nodes are reused and
\* next and gate are read relaxed; and tail is null only when nobody holds it or
\* waits for it.
McsExcludes ==
  /\ ~\A t \in Two : McsHolds(t)
  /\ Latest("tail") = NoTid <=> \A t \in Two : ~McsHolds(t) /\ pc[t] \notin {"link", "spin"}

\* The race the benchmark is there for, no more and no less: a section knows the
\* other thread's sections that it announced through tail before the section's
\* exchange, and none of those that only the relaxed gate told of.
McsRaces == raced # {} <=> \E t \in Two : regs[t].blind
=============================================================================
