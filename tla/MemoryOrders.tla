---------------------------- MODULE MemoryOrders ----------------------------
(***************************************************************************)
(* The memory orders of C++11 and the predicates the atomics ask of them.  *)
(* The predicates belong to the unpatched tsan_interface_atomic.cc; the    *)
(* patch calls them and CHECKs the first two.                              *)
(***************************************************************************)
Order == {"relaxed", "consume", "acquire", "release", "acq_rel", "seq_cst"}

\* The orders a load may have. acq_rel is not one of them.
IsLoadOrder(mo) == mo \in {"relaxed", "consume", "acquire", "seq_cst"}

\* The orders a store may have.
IsStoreOrder(mo) == mo \in {"relaxed", "release", "seq_cst"}

IsAcquireOrder(mo) == mo \in {"consume", "acquire", "acq_rel", "seq_cst"}

IsReleaseOrder(mo) == mo \in {"release", "acq_rel", "seq_cst"}

LoadOrder == {mo \in Order : IsLoadOrder(mo)}
StoreOrder == {mo \in Order : IsStoreOrder(mo)}
=============================================================================
