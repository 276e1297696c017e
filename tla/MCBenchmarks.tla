---------------------------- MODULE MCBenchmarks ----------------------------
\* Model values for Benchmarks.
EXTENDS Benchmarks

Threads == 1..4

\* The programs give the instructions; nothing else runs.
Nothing == [u \in {} |-> u]
NoFences == [t \in Threads |-> {}]
NoCreator == [t \in Threads |-> NoTid]
All == {"barrier", "chase-lev-deque", "dekker-fences", "linuxrwlocks", "mcs-lock",
        "mpmc-queue", "ms-queue", "spsc-queue"}
=============================================================================
