---------------------------- MODULE LinuxRwLocks ----------------------------
(***************************************************************************)
(* linuxrwlocks/: a reader-writer lock in one counter. Each of two threads *)
(* reads shareddata under the lock, then writes it under the lock.         *)
(***************************************************************************)
EXTENDS Programs

RW_LOCK_BIAS == 1048576 \* 0x00100000

\* What a thread takes from the counter: as a reader, then as a writer.
Weight(t) == IF regs[t].i = 0 THEN 1 ELSE RW_LOCK_BIAS

\* A value of the counter that lets t in: read_can_lock, write_can_lock.
CanLock(t, v) == IF regs[t].i = 0 THEN v > 0 ELSE v = RW_LOCK_BIAS

\* i as in a(). late: the other's sections that ended since t's first attempt.
\* blind: an access of t conflicts with one in them.
RwInit ==
  StartWith([lock |-> RW_LOCK_BIAS], [t \in Tid |-> IF t \in Two THEN "lock" ELSE "done"],
            [i |-> 0, late |-> {}, blind |-> FALSE], {"shareddata"})

Adds(t, mo, v) == Updates(t, "lock", mo, Latest("lock") + v)

\* fetch_sub, and what comes of the prior value.
RwTry(t, mo, late) ==
  /\ Adds(t, mo, -Weight(t))
  /\ GoesWith(t, IF CanLock(t, Latest("lock")) THEN "section" ELSE "back",
                 [regs[t] EXCEPT !.late = late])

\* Mutant of RwLock: a thread that must wait leaves its subtraction in place.
RwLockKeeps(t) ==
  \/ pc[t] = "lock" /\ RwTry(t, "acquire", {})
  \/ /\ pc[t] = "back"
     /\ Reads(t, "lock", "relaxed", LAMBDA v : Goes(t, IF CanLock(t, v) THEN "retry" ELSE "back"))
  \/ pc[t] = "retry" /\ RwTry(t, "relaxed", regs[t].late)

\* read_lock and write_lock
RwLock(t) ==
  \/ pc[t] = "lock" /\ RwTry(t, "acquire", {})
  \/ pc[t] = "back" /\ Adds(t, "relaxed", Weight(t)) /\ Goes(t, "spin")
  \/ /\ pc[t] = "spin"
     /\ Reads(t, "lock", "relaxed", LAMBDA v : Goes(t, IF CanLock(t, v) THEN "retry" ELSE "spin"))
  \/ pc[t] = "retry" /\ RwTry(t, "relaxed", regs[t].late)

\* The critical sections of a().
RwSection(t) ==
  LET blind == \E i \in regs[t].late : i = 1 \/ regs[t].i = 1
  IN  /\ pc[t] = "section"
      /\ Accesses(t, "shareddata", regs[t].i = 1)
      /\ GoesWith(t, "unlock", [regs[t] EXCEPT !.blind = @ \/ blind])

\* read_unlock and write_unlock
RwUnlock(t) ==
  /\ pc[t] = "unlock"
  /\ Adds(t, "release", Weight(t))
  /\ Goto(t, IF regs[t].i = 0 THEN "lock" ELSE "done")
  /\ regs' = [regs EXCEPT ![t].i = @ + 1, ![Other(t)].late = @ \cup {regs[t].i}]

RwStep(t) == RwLock(t) \/ RwSection(t) \/ RwUnlock(t)

\* The latest value would keep t in its loop.
RwBlocked(t) == pc[t] = "spin" /\ ~CanLock(t, Latest("lock"))

RwHolds(t) == pc[t] \in {"section", "unlock"}

\* A writer holds the lock alone, and the counter is the bias less what the
\* threads between their subtraction and the addition that undoes it took.
RwExcludes ==
  /\ \A t \in Two : RwHolds(t) /\ regs[t].i = 1 => ~RwHolds(Other(t))
  /\ LET taken == [t \in Two |-> IF RwHolds(t) \/ pc[t] = "back" THEN Weight(t) ELSE 0]
     IN  Latest("lock") = RW_LOCK_BIAS - taken[Main] - taken[Second]

\* The race the benchmark is there for, no more and no less: a retry takes the
\* lock with relaxed order, and knows nothing of the sections that ended since
\* the thread's first attempt.
RwRaces == raced # {} <=> \E t \in Two : regs[t].blind
=============================================================================
