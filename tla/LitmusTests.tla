---------------------------- MODULE LitmusTests -----------------------------
(***************************************************************************)
(* The programs of litmus_tests/, each a sequence of threads and a thread  *)
(* a sequence of instructions. Threads that only print, joins, yields and  *)
(* pauses that merely make an outcome likelier are left out; Sleep stands  *)
(* for a pause that the test relies on.                                    *)
(***************************************************************************)
EXTENDS Naturals, Sequences

\* x.store(v), x.load(), x.fetch_add(1), while (x.load() < v);
Store(x, v, mo) == [op |-> "store", loc |-> x, val |-> v, mo |-> mo]
Load(x, mo) == [op |-> "load", loc |-> x, mo |-> mo]
Add(x, mo) == [op |-> "add", loc |-> x, mo |-> mo]
Until(x, v, mo) == [op |-> "until", loc |-> x, val |-> v, mo |-> mo]

\* while (!x.compare_exchange_strong(old, v, mo, fmo)); and its negation
Cas(x, old, v, mo, fmo) ==
  [op |-> "cas", loc |-> x, old |-> old, val |-> v, mo |-> mo, fmo |-> fmo, loops |-> FALSE]
CasUntilFail(x, old, v, mo, fmo) ==
  [op |-> "cas", loc |-> x, old |-> old, val |-> v, mo |-> mo, fmo |-> fmo, loops |-> TRUE]

\* if (x.load()) the next instruction
If(x, mo) == [op |-> "if", loc |-> x, mo |-> mo]

\* atomic_thread_fence; a write and a read of a plain variable; sleep_for
Fence(mo) == [op |-> "fence", mo |-> mo]
Write(v) == [op |-> "write", var |-> v]
Read(v) == [op |-> "read", var |-> v]
Sleep == [op |-> "sleep"]

-----------------------------------------------------------------------------
(* One thread releases to another. *)

ReleasedBy(store, wait) ==
  << <<Write("x"), store>>, <<wait, Read("x")>> >>

simple_consume ==
  << <<Store("x", 1, "relaxed"), Store("y", 2, "relaxed"), Write("c"),
       Store("z", 1, "release")>>,
     <<Until("z", 1, "consume"), Load("z", "consume"), Load("x", "relaxed"),
       Load("y", "relaxed"), Read("c")>> >>

\* Two of its nine variables: one of setter1's and one of setter3's.
simple_relaxed ==
  << <<Store("x", 1, "relaxed")>>, <<Store("y", 1, "relaxed"), Store("z", 1, "release")>>,
     <<Until("z", 1, "acquire"), Load("x", "relaxed"), Load("y", "relaxed")>> >>

simple_rel_acq == ReleasedBy(Store("x", 1, "release"), Until("x", 1, "acquire"))
norace_rel_acq == ReleasedBy(Store("x", 1, "release"), Until("x", 1, "acquire"))
simple_seq_cst == ReleasedBy(Store("x", 1, "seq_cst"), Until("x", 1, "seq_cst"))
race_rel_acq == ReleasedBy(Store("x", 1, "release"), Load("x", "acquire"))
race_relaxed == ReleasedBy(Store("x", 1, "relaxed"), Until("x", 1, "acquire"))
race_simple == << <<Write("x")>>, <<Write("x")>> >>

race_write_after_release ==
  << <<Store("x", 1, "release"), Write("x"), Store("x", 2, "relaxed")>>,
     <<Load("x", "acquire"), Read("x")>> >>

cas_strong_relaxed ==
  ReleasedBy(Store("x", 1, "release"), Cas("x", 1, 2, "relaxed", "relaxed"))
cas_strong_sync ==
  ReleasedBy(Store("x", 1, "release"), Cas("x", 1, 2, "acquire", "relaxed"))
cas_strong_fail ==
  ReleasedBy(Store("x", 1, "release"), CasUntilFail("x", 0, 0, "relaxed", "acquire"))

-----------------------------------------------------------------------------
(* Release sequences. Getter waits until x is n and reads the variables. *)

Getter(n, reads) == <<Until("x", n, "acquire")>> \o reads
Setter(v) == <<Write(v), Add("x", "release")>>

race_blocked_rs ==
  << <<Write("x"), Store("x", 1, "release"), Store("x", 2, "relaxed"),
       Store("x", 3, "relaxed")>>,
     <<Store("x", 4, "relaxed")>>,
     Getter(1, <<Read("x")>>) >>

rmw_simple_sync == << Setter("x"), Getter(1, <<Load("x", "acquire"), Read("x")>>) >>

rmw_extend_rs ==
  << Setter("x"), <<Add("x", "relaxed")>>,
     Getter(2, <<Load("x", "acquire"), Read("x")>>) >>

rmw_block_single_rs ==
  << Setter("x"), <<Add("x", "relaxed")>>, <<Store("x", 3, "relaxed")>>,
     Getter(3, <<Load("x", "acquire"), Read("x")>>) >>

rmw_multiple_rs ==
  << Setter("x"), Setter("y"),
     Getter(2, <<Load("x", "acquire"), Read("x"), Read("y")>>) >>

rmw_extend_multiple_rs ==
  << Append(Setter("x"), Add("x", "relaxed")), Append(Setter("y"), Add("x", "relaxed")),
     Getter(4, <<Load("x", "acquire"), Read("x"), Read("y")>>) >>

rmw_update_multiple_rs ==
  << Setter("x") \o Setter("x"), Setter("y") \o Setter("y"),
     Getter(4, <<Load("x", "acquire"), Read("x"), Read("y")>>) >>

rmw_collapse_multiple_rs ==
  << Setter("x") \o Setter("x") \o <<Store("x", 5, "relaxed")>>,
     Setter("y") \o Setter("y"),
     Getter(5, <<Load("x", "acquire"), Read("x"), Read("y")>>) >>

rmw_collapse_continue_rs ==
  << <<Write("x"), Store("x", 1, "release"), Store("x", 3, "relaxed"),
       Store("x", 4, "relaxed")>>,
     <<Add("x", "release")>>,
     Getter(4, <<Read("x")>>) >>

rmw_extend_block_rs ==
  << <<Write("x"), Store("x", 1, "release")>>,
     <<Add("x", "release"), Store("x", 4, "relaxed")>>,
     <<Add("x", "release")>>,
     Getter(4, <<Read("x")>>) >>

-----------------------------------------------------------------------------
(* Fences. *)

\* A release fence, then a relaxed access that publishes it.
Fenced(v, access) == <<Write(v), Fence("release"), access>>

fence_rel == << Fenced("x", Store("x", 1, "relaxed")), Getter(1, <<Read("x")>>) >>

fence_acq ==
  << <<Write("x"), Store("x", 1, "release")>>,
     <<Until("x", 1, "relaxed"), Fence("acquire"), Read("x")>> >>

fence_acq_after_read ==
  << <<Write("x"), Store("x", 1, "release")>>,
     <<Until("x", 1, "relaxed"), Read("x"), Fence("acquire")>> >>

fence_rel_acq ==
  << Fenced("x", Store("x", 1, "relaxed")),
     <<Until("x", 1, "relaxed"), Fence("acquire"), Read("x")>> >>

fence_multi_acquire ==
  << Fenced("x", Store("x", 1, "relaxed")), Fenced("y", Store("y", 1, "relaxed")),
     <<Until("x", 1, "relaxed"), Until("y", 1, "relaxed"), Fence("acquire"),
       Read("x"), Read("y")>> >>

fence_rel_before_write ==
  << <<Fence("release"), Write("x"), Store("x", 1, "relaxed")>>, Getter(1, <<Read("x")>>) >>

fence_rel_before_store ==
  << <<Fence("release"), Write("x"), Store("x", 1, "release"), Store("x", 2, "relaxed")>>,
     Getter(2, <<Read("x")>>) >>

fence_rel_after_store ==
  << <<Store("x", 1, "release"), Write("x"), Fence("release"), Store("x", 2, "relaxed")>>,
     Getter(2, <<Read("x")>>) >>

fence_rel_after_rmw ==
  << <<Add("x", "release")>>,
     <<Add("x", "release"), Write("x"), Fence("release"), Store("x", 3, "relaxed")>>,
     Getter(3, <<Load("x", "acquire"), Read("x")>>) >>

fence_rel_before_rmw ==
  << <<Add("x", "release")>>,
     <<Fence("release"), Write("x"), Add("x", "release"), Store("x", 3, "relaxed")>>,
     Getter(3, <<Load("x", "acquire"), Read("x")>>) >>

fence_rmw_extend_hrs ==
  << Fenced("x", Store("x", 1, "relaxed")), <<Add("x", "relaxed")>>,
     Getter(2, <<Read("x")>>) >>

fence_rmw_multi_hrs ==
  << Fenced("x", Add("x", "relaxed")), Fenced("y", Add("x", "relaxed")),
     Getter(2, <<Read("x"), Read("y")>>) >>

fence_rmw_block_hrs ==
  << Fenced("x", Store("x", 1, "relaxed")), <<Add("x", "relaxed")>>,
     <<Store("x", 3, "relaxed")>>,
     Getter(3, <<Read("x")>>) >>

fence_rmw_collapse_hrs ==
  << Fenced("x", Store("x", 1, "relaxed")) \o <<Store("x", 3, "relaxed"), Store("x", 4, "relaxed")>>,
     <<Add("x", "release")>>,
     Getter(4, <<Read("x")>>) >>

fence_rmw_collapse_multi_hrs ==
  << Fenced("x", Store("x", 1, "relaxed")) \o <<Store("x", 3, "relaxed")>>,
     Fenced("y", Add("x", "relaxed")),
     Getter(3, <<Read("x"), Read("y")>>) >>

-----------------------------------------------------------------------------
(* Values that loads may return. *)

StoreBuffering(store, load) ==
  << <<Store("x", 1, store), Load("y", load)>>, <<Store("y", 1, store), Load("x", load)>> >>

sb_rel_acq == StoreBuffering("release", "acquire")
sb_relaxed == StoreBuffering("relaxed", "relaxed")
sb_seq_cst == StoreBuffering("seq_cst", "seq_cst")

relaxed_cycle ==
  << <<If("y", "relaxed"), Store("x", 1, "relaxed"), Load("x", "relaxed")>>,
     <<If("x", "relaxed"), Store("y", 1, "relaxed"), Load("y", "relaxed")>> >>

relaxed_load_buffering ==
  << <<Load("y", "relaxed"), Store("x", 1, "relaxed")>>,
     <<Load("x", "relaxed"), Store("y", 1, "relaxed")>> >>

Readers(store, load) ==
  << <<Store("x", 1, store)>>, <<Store("y", 1, store)>>,
     <<Load("x", load), Load("y", load)>>, <<Load("y", load), Load("x", load)>> >>

iriw_rel_acq == Readers("release", "acquire")
iriw_relaxed == Readers("relaxed", "relaxed")

\* acc counts the getters that see the other location set as well.
seq_cst_cycle ==
  << <<Store("x", 1, "seq_cst")>>, <<Store("y", 1, "seq_cst")>>,
     <<Until("x", 1, "seq_cst"), If("y", "seq_cst"), Add("z", "seq_cst")>>,
     <<Until("y", 1, "seq_cst"), If("x", "seq_cst"), Add("z", "seq_cst")>> >>

\* The stores of 1, 2, ... to x.
Stores(x, n) == [v \in 1..n |-> Store(x, v, "relaxed")]

corr_single_thread == << Stores("x", 3), <<Load("x", "relaxed"), Load("x", "relaxed")>> >>

corr_sync ==
  << Stores("x", 3), <<Load("x", "relaxed"), Store("y", 1, "release")>>,
     <<Until("y", 1, "acquire"), Load("x", "relaxed")>> >>

corr_multi_sync ==
  << Stores("x", 3),
     <<Load("x", "relaxed"), Store("y", 1, "release"), Load("x", "relaxed"),
       Store("z", 1, "release")>>,
     <<Until("y", 1, "acquire"), Load("x", "relaxed")>> >>

corr_fence ==
  << Stores("x", 3),
     <<Load("x", "relaxed"), Fence("release"), Load("x", "relaxed"), Store("y", 1, "relaxed")>>,
     <<Until("y", 1, "acquire"), Load("x", "relaxed")>> >>

cowr_sync ==
  << <<Store("x", 1, "relaxed"), Store("y", 1, "release"), Store("x", 2, "relaxed")>>,
     <<Until("y", 1, "acquire"), Load("x", "relaxed")>> >>

cowr_sync_trans ==
  << <<Store("x", 1, "relaxed"), Store("y", 1, "release"), Store("x", 2, "relaxed")>>,
     <<Until("y", 1, "acquire"), Store("z", 1, "release")>>,
     <<Until("z", 1, "acquire"), Load("x", "relaxed")>> >>

-----------------------------------------------------------------------------
(* SC fences and SC loads. *)

sc_write_read ==
  << <<Store("x", 1, "relaxed")>>, <<Store("x", 2, "relaxed"), Store("x", 3, "seq_cst")>>,
     <<Sleep, Load("x", "seq_cst")>> >>

Stored(fenceAt, mo2) ==
  <<Store("x", 1, "relaxed")>> \o fenceAt
  \o <<Store("x", 2, mo2), Store("x", 3, "relaxed"), Store("y", 1, "relaxed")>>

sc_write_fence ==
  << Stored(<<>>, "seq_cst"), <<Until("y", 1, "relaxed"), Fence("seq_cst"), Load("x", "relaxed")>> >>

sc_fence_read ==
  << Stored(<<Fence("seq_cst")>>, "relaxed"), <<Until("y", 1, "relaxed"), Load("x", "seq_cst")>> >>

sc_fence_fence ==
  << Stored(<<Fence("seq_cst")>>, "relaxed"),
     <<Until("y", 1, "relaxed"), Fence("seq_cst"), Load("x", "relaxed")>> >>

sc_write_fence_single_sc ==
  << Stores("y", 2) \o <<Store("x", 1, "relaxed"), Store("x", 2, "seq_cst")>>,
     <<Sleep, Fence("seq_cst"), Load("x", "relaxed"), Load("y", "relaxed")>> >>

sc_write_fence_write ==
  << <<Store("x", 1, "relaxed"), Store("x", 2, "seq_cst"), Store("x", 3, "seq_cst")>>,
     <<Fence("seq_cst"), Load("x", "relaxed")>> >>

sc_fence_read_no_cowr ==
  << Stores("y", 2) \o Stores("x", 2) \o <<Fence("seq_cst")>>,
     <<Sleep, Load("x", "seq_cst"), Load("y", "relaxed")>> >>

sc_fence_read_no_corr ==
  << Stores("y", 2), <<Load("y", "relaxed"), Store("x", 1, "relaxed"), Fence("seq_cst")>>,
     <<Until("x", 1, "seq_cst"), Load("y", "relaxed")>> >>

sc_write_fence_non_sc ==
  << Stores("y", 2) \o Stores("x", 2),
     <<Sleep, Fence("seq_cst"), Load("x", "relaxed"), Load("y", "relaxed")>> >>

sc_fence_read_non_sc ==
  << <<Store("y", 1, "relaxed"), Store("x", 1, "relaxed"), Fence("seq_cst")>>,
     <<Sleep, Load("x", "relaxed"), Load("y", "relaxed")>> >>

seq_cst_blocking_relaxed ==
  << <<Store("x", 1, "relaxed"), Store("x", 2, "seq_cst"), Store("y", 1, "seq_cst")>>,
     <<Store("x", 3, "relaxed"), Store("y", 2, "seq_cst")>>,
     <<Store("y", 3, "seq_cst"), Load("x", "seq_cst")>> >>
-----------------------------------------------------------------------------

\* The programs by the names of their files.
Programs == [
  simple_relaxed |-> simple_relaxed,
  simple_consume |-> simple_consume, simple_rel_acq |-> simple_rel_acq,
  norace_rel_acq |-> norace_rel_acq, simple_seq_cst |-> simple_seq_cst,
  race_rel_acq |-> race_rel_acq, race_relaxed |-> race_relaxed,
  race_simple |-> race_simple,
  race_write_after_release |-> race_write_after_release,
  cas_strong_relaxed |-> cas_strong_relaxed,
  cas_strong_sync |-> cas_strong_sync, cas_strong_fail |-> cas_strong_fail,
  race_blocked_rs |-> race_blocked_rs, rmw_simple_sync |-> rmw_simple_sync,
  rmw_extend_rs |-> rmw_extend_rs,
  rmw_block_single_rs |-> rmw_block_single_rs,
  rmw_multiple_rs |-> rmw_multiple_rs,
  rmw_extend_multiple_rs |-> rmw_extend_multiple_rs,
  rmw_update_multiple_rs |-> rmw_update_multiple_rs,
  rmw_collapse_multiple_rs |-> rmw_collapse_multiple_rs,
  rmw_collapse_continue_rs |-> rmw_collapse_continue_rs,
  rmw_extend_block_rs |-> rmw_extend_block_rs, fence_rel |-> fence_rel,
  fence_acq |-> fence_acq, fence_acq_after_read |-> fence_acq_after_read,
  fence_rel_acq |-> fence_rel_acq,
  fence_multi_acquire |-> fence_multi_acquire,
  fence_rel_before_write |-> fence_rel_before_write,
  fence_rel_before_store |-> fence_rel_before_store,
  fence_rel_after_store |-> fence_rel_after_store,
  fence_rel_after_rmw |-> fence_rel_after_rmw,
  fence_rel_before_rmw |-> fence_rel_before_rmw,
  fence_rmw_extend_hrs |-> fence_rmw_extend_hrs,
  fence_rmw_multi_hrs |-> fence_rmw_multi_hrs,
  fence_rmw_block_hrs |-> fence_rmw_block_hrs,
  fence_rmw_collapse_hrs |-> fence_rmw_collapse_hrs,
  fence_rmw_collapse_multi_hrs |-> fence_rmw_collapse_multi_hrs,
  sb_rel_acq |-> sb_rel_acq, sb_relaxed |-> sb_relaxed,
  sb_seq_cst |-> sb_seq_cst, relaxed_cycle |-> relaxed_cycle,
  relaxed_load_buffering |-> relaxed_load_buffering,
  iriw_rel_acq |-> iriw_rel_acq, iriw_relaxed |-> iriw_relaxed,
  seq_cst_cycle |-> seq_cst_cycle, corr_single_thread |-> corr_single_thread,
  corr_sync |-> corr_sync, corr_multi_sync |-> corr_multi_sync,
  corr_fence |-> corr_fence, cowr_sync |-> cowr_sync,
  cowr_sync_trans |-> cowr_sync_trans, sc_write_read |-> sc_write_read,
  sc_write_fence |-> sc_write_fence, sc_fence_read |-> sc_fence_read,
  sc_fence_fence |-> sc_fence_fence,
  sc_write_fence_single_sc |-> sc_write_fence_single_sc,
  sc_write_fence_write |-> sc_write_fence_write,
  sc_fence_read_no_cowr |-> sc_fence_read_no_cowr,
  sc_fence_read_no_corr |-> sc_fence_read_no_corr,
  sc_write_fence_non_sc |-> sc_write_fence_non_sc,
  sc_fence_read_non_sc |-> sc_fence_read_non_sc,
  seq_cst_blocking_relaxed |-> seq_cst_blocking_relaxed ]
=============================================================================
