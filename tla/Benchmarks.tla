----------------------------- MODULE Benchmarks -----------------------------
(***************************************************************************)
(* The CDSChecker benchmarks of cdschecker_modified_benchmarks/, one at a  *)
(* time, on the patched runtime of module Tsan11.                          *)
(***************************************************************************)
EXTENDS Barrier, ChaseLevDeque, DekkerFences, McsLock, LinuxRwLocks,
        MpmcQueue, MsQueue, SpscQueue

CONSTANT Bench \* names of the benchmarks to run

ASSUME BenchAssumption ==
  Bench \subseteq {"barrier", "chase-lev-deque", "dekker-fences", "mcs-lock", "linuxrwlocks",
             "mpmc-queue", "ms-queue", "spsc-queue"}

VARIABLE bench \* the benchmark that runs

BInit ==
  /\ bench \in Bench
  /\ \/ bench = "barrier" /\ BarrierInit
     \/ bench = "chase-lev-deque" /\ DequeInit
     \/ bench = "dekker-fences" /\ DekkerInit
     \/ bench = "mcs-lock" /\ McsInit
     \/ bench = "linuxrwlocks" /\ RwInit
     \/ bench = "mpmc-queue" /\ MpmcInit
     \/ bench = "ms-queue" /\ MsInit
     \/ bench = "spsc-queue" /\ SpscInit

BStep(t) ==
  /\ UNCHANGED bench
  /\ \/ bench = "barrier" /\ BarrierStep(t)
     \/ bench = "chase-lev-deque" /\ DequeStep(t)
     \/ bench = "dekker-fences" /\ DekkerStep(t)
     \/ bench = "mcs-lock" /\ McsStep(t)
     \/ bench = "linuxrwlocks" /\ RwStep(t)
     \/ bench = "mpmc-queue" /\ MpmcStep(t)
     \/ bench = "ms-queue" /\ MsStep(t)
     \/ bench = "spsc-queue" /\ SpscStep(t)

BNext == \E t \in Tid : BStep(t)

BSpec == BInit /\ [][BNext]_<<vars, program, bench>>

-----------------------------------------------------------------------------

Blocked(t) ==
  \/ bench = "barrier" /\ BarrierBlocked(t)
  \/ bench = "dekker-fences" /\ DekkerBlocked(t)
  \/ bench = "mcs-lock" /\ McsBlocked(t)
  \/ bench = "linuxrwlocks" /\ RwBlocked(t)
  \/ bench = "mpmc-queue" /\ MpmcBlocked(t)
  \/ bench = "spsc-queue" /\ SpscBlocked(t)

\* The waiting loops never wait for each other, and no wake-up is lost to anything
\* but a load that was not the latest: unless all is done, some thread has something
\* else to do than to read a value that keeps it waiting. (A thread that failed an
\* assertion or crashed has ended the program and is not held up either.)
SomeThreadCanGoOn ==
  (\E t \in Tid : pc[t] # "done") => \E t \in Tid : pc[t] # "done" /\ ~Blocked(t)

\* The races that tsan11 reports in a benchmark have the cause that its module names,
\* and there is no other; in the deque there is none.
RacesHaveCauses ==
  /\ bench = "barrier" => BarrierRaces
  /\ bench = "dekker-fences" => DekkerRaces
  /\ bench = "mcs-lock" => McsRaces
  /\ bench = "linuxrwlocks" => RwRaces
  /\ bench = "mpmc-queue" => MpmcRaces
  /\ bench = "spsc-queue" => SpscRaces
  /\ bench = "chase-lev-deque" => raced = {}

\* No thread passes the barrier before all have come, nor, when it comes back to it,
\* by the steps of the round before.
BarrierPassesAll == bench = "barrier" => NobodyPassesEarly

\* At most one thread writes under a lock, and then nobody else holds it.
LocksExclude ==
  /\ bench = "mcs-lock" => McsExcludes
  /\ bench = "linuxrwlocks" => RwExcludes

\* No element leaves the deque at both of its ends.
DequeHandsOut == bench = "chase-lev-deque" => DequeOnce

\* What leaves the deque was pushed, unless the thief was blind.
DequeGives == bench = "chase-lev-deque" => DequeResults

\* What leaves the queues was put in and comes once; in the Michael-Scott queue, in
\* order.
QueuesGive ==
  /\ bench = "mpmc-queue" => MpmcElements
  /\ bench = "ms-queue" => MsFifo
=============================================================================
