------------------------------ MODULE MCLitmus ------------------------------
(* Model values and test sets for module Litmus. *)
EXTENDS Litmus

Threads == 1..4

\* The programs give the instructions; nothing else runs.
Nothing ==
  [u \in Threads \X {"x", "y", "z"} |->
     [k \in {"load", "store", "rmw", "cas", "casfail"} |-> {}]]
NoFences == [t \in Threads |-> {}]
NoCreator == [t \in Threads |-> NoTid]

All == DOMAIN LT!Programs
=============================================================================
