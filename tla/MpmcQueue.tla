------------------------------ MODULE MpmcQueue ------------------------------
(***************************************************************************)
(* mpmc-queue/: a bounded queue of t_size slots. m_rdwr counts the reads   *)
(* and the writes that started, here a pair; m_read and m_written the ones *)
(* that are done. The queue holds the initial element of user_main. Two    *)
(* threads (threadA) write once, the others (threadB) read until empty.    *)
(***************************************************************************)
EXTENDS Programs

t_size == 4
Writers == Two
Readers == Tid \ Writers

\* rdwr: what the thread last saw in m_rdwr, which tells it rd and wr. filled and
\* emptied: the slots it wrote and read. Bound: one of the program's two writers
\* and two readers is not started.
MpmcInit ==
  \E absent \in Tid :
    StartWith([m_rdwr |-> <<0, 1>>, m_read |-> 0, m_written |-> 1],
              [t \in Tid |-> IF t = absent THEN "done"
                             ELSE IF t \in Writers THEN "prepare" ELSE "fetch"],
              [rdwr |-> <<0, 0>>, filled |-> {}, emptied |-> {}], 0..t_size - 1)

rd(t) == regs[t].rdwr[1]
wr(t) == regs[t].rdwr[2]

\* The thread saw the value v of m_rdwr: a reader is done when it says empty. Three
\* writes never fill the queue.
Saw(t, v) ==
  GoesWith(t, IF t \in Writers THEN "reserve" ELSE IF v[1] = v[2] THEN "done" ELSE "claim",
              [regs[t] EXCEPT !.rdwr = v])

\* compare_exchange_weak(rdwr, new) on m_rdwr.
MpmcCas(t, new, mo, there) ==
  \/ Succeeds(t, "m_rdwr", regs[t].rdwr, new, mo) /\ Goes(t, there)
  \/ Fails(t, "m_rdwr", regs[t].rdwr, "acquire") /\ Saw(t, Latest("m_rdwr"))

\* Mutant of Awaits: a reader waits for the write of its own slot, as it thinks.
AwaitsLess(v, awaited) == v >= awaited - 1

\* The end of the loops that wait for m_written and m_read.
Awaits(v, awaited) == v = awaited

\* read_fetch(), the read of the slot and read_consume()
MpmcRead(t) ==
  \/ pc[t] = "fetch" /\ Reads(t, "m_rdwr", "acquire", LAMBDA v : Saw(t, v))
  \/ pc[t] = "claim" /\ MpmcCas(t, <<rd(t) + 1, wr(t)>>, "acquire", "written")
  \/ /\ pc[t] = "written"
     /\ Reads(t, "m_written", "acquire",
              LAMBDA v : Goes(t, IF Awaits(v, wr(t)) THEN "load" ELSE "written"))
  \/ /\ pc[t] = "load"
     /\ Accesses(t, rd(t) % t_size, FALSE)
     /\ GoesWith(t, "consume", [regs[t] EXCEPT !.emptied = @ \cup {rd(t)}])
  \/ /\ pc[t] = "consume"
     /\ Updates(t, "m_read", "release", Latest("m_read") + 1)
     /\ Goes(t, "fetch")

\* write_prepare(), the write of the slot and write_publish()
MpmcWrite(t) ==
  \/ pc[t] = "prepare" /\ Reads(t, "m_rdwr", "acquire", LAMBDA v : Saw(t, v))
  \/ pc[t] = "reserve" /\ MpmcCas(t, <<rd(t), wr(t) + 1>>, "acq_rel", "read")
  \/ /\ pc[t] = "read"
     /\ Reads(t, "m_read", "acquire", LAMBDA v : Goes(t, IF Awaits(v, rd(t)) THEN "store" ELSE "read"))
  \/ /\ pc[t] = "store"
     /\ Accesses(t, wr(t) % t_size, TRUE)
     /\ GoesWith(t, "publish", [regs[t] EXCEPT !.filled = @ \cup {wr(t)}])
  \/ /\ pc[t] = "publish"
     /\ Updates(t, "m_written", "relaxed", Latest("m_written") + 1)
     /\ Goes(t, "done")

MpmcStep(t) == IF t \in Writers THEN MpmcWrite(t) ELSE MpmcRead(t)

-----------------------------------------------------------------------------

Filled == {0} \cup UNION {regs[t].filled : t \in Writers}
EmptiedSlots == UNION {regs[t].emptied : t \in Readers}

\* The latest values would keep t in its loops. They wait for equality: a counter
\* that went past what t waits for would keep it there for ever, too.
MpmcBlocked(t) ==
  \/ pc[t] = "written" /\ Latest("m_written") # wr(t)
  \/ pc[t] = "read" /\ Latest("m_read") # rd(t)

\* Each element is given out once, and after it was written, though m_written
\* counts the writers that are done and not which: a writer that starts after a
\* reader waits for m_read, and so for that reader, before it writes.
MpmcElements ==
  /\ \A t, u \in Readers : t # u => regs[t].emptied \cap regs[u].emptied = {}
  /\ EmptiedSlots \subseteq Filled

\* The race the benchmark is there for, no more and no less: a writer publishes
\* relaxed, so whoever reads what it wrote races with it.
MpmcRaces == raced = EmptiedSlots \cap (Filled \ {0})
=============================================================================
