------------------------------- MODULE Litmus -------------------------------
(***************************************************************************)
(* The litmus tests of litmus_tests/, run on the patched runtime: a        *)
(* program of module LitmusTests, the handlers of module Tsan11, and the   *)
(* accesses to plain variables that tsan checks for races.                 *)
(***************************************************************************)
EXTENDS Programs

CONSTANT Tests \* names of the programs to run

LT == INSTANCE LitmusTests

ASSUME TestsAssumption == Tests \subseteq DOMAIN LT!Programs

\* The program that runs. regs holds the values each thread read; of those a
\* loop read, the ones other than 0, repeats left out.
VARIABLE test

Plain == {"x", "y", "c"}

Code(t) == IF t <= Len(LT!Programs[test]) THEN LT!Programs[test][t] ELSE <<>>

Done(t) == pc[t] > Len(Code(t))
Finished == \A t \in Tid : Done(t)

LInit ==
  /\ StartWith([x \in Loc |-> 0], [t \in Tid |-> 1], <<>>, Plain)
  /\ test \in Tests

-----------------------------------------------------------------------------

Jump(t, n) == Goto(t, pc[t] + n)
ReadsValue(t, v) == regs' = [regs EXCEPT ![t] = Append(@, v)]

DoLoad(t, i) ==
  LET Then(v) == ReadsValue(t, v) /\ Jump(t, 1)
  IN  Reads(t, i.loc, i.mo, Then)

\* while (x.load() < val);
DoUntil(t, i) ==
  LET Again(v) == v = 0 \/ (regs[t] # <<>> /\ Last(regs[t]) = v)
      Then(v) == IF v < i.val
                 THEN /\ IF Again(v) THEN UNCHANGED regs ELSE ReadsValue(t, v)
                      /\ UNCHANGED pc
                 ELSE ReadsValue(t, v) /\ Jump(t, 1)
  IN  Reads(t, i.loc, i.mo, Then)

DoIf(t, i) ==
  LET Then(v) == ReadsValue(t, v) /\ Jump(t, IF v = 0 THEN 2 ELSE 1)
  IN  Reads(t, i.loc, i.mo, Then)

DoStore(t, i) ==
  Writes(t, i.loc, i.mo, i.val) /\ Jump(t, 1) /\ UNCHANGED regs

DoAdd(t, i) ==
  Updates(t, i.loc, i.mo, Latest(i.loc) + 1) /\ Jump(t, 1) /\ UNCHANGED regs

\* The loops on a compare_exchange_strong, until it succeeds (or fails).
DoCas(t, i) ==
  /\ \/ Succeeds(t, i.loc, i.old, i.val, i.mo) /\ Jump(t, IF i.loops THEN 0 ELSE 1)
     \/ Fails(t, i.loc, i.old, i.fmo) /\ Jump(t, IF i.loops THEN 1 ELSE 0)
  /\ UNCHANGED regs

DoFence(t, i) == Orders(t, i.mo) /\ Jump(t, 1) /\ UNCHANGED regs

DoAccess(t, i) ==
  Accesses(t, i.var, i.op = "write") /\ Jump(t, 1) /\ UNCHANGED regs

\* A sleep long enough for all others to finish.
DoSleep(t) ==
  /\ \A u \in Tid \ {t} : Done(u)
  /\ Jump(t, 1)
  /\ UNCHANGED <<vars, vals, shadow, raced, regs>>

Step(t) ==
  /\ ~Done(t)
  /\ UNCHANGED test
  /\ LET i == Code(t)[pc[t]] IN
     \/ i.op = "load" /\ DoLoad(t, i)
     \/ i.op = "until" /\ DoUntil(t, i)
     \/ i.op = "if" /\ DoIf(t, i)
     \/ i.op = "store" /\ DoStore(t, i)
     \/ i.op = "add" /\ DoAdd(t, i)
     \/ i.op = "cas" /\ DoCas(t, i)
     \/ i.op = "fence" /\ DoFence(t, i)
     \/ i.op = "sleep" /\ DoSleep(t)
     \/ i.op \in {"write", "read"} /\ DoAccess(t, i)

LNext == \E t \in Tid : Step(t)

LSpec == LInit /\ [][LNext]_<<vars, program, test>>

-----------------------------------------------------------------------------
(* What litmus_tests/tsan_stats.txt and the tests' comments expect. *)

\* The tests that race by design ("Yes" in the column "Race?").
Racy == {"race_blocked_rs", "race_rel_acq", "race_relaxed", "race_simple",
         "race_write_after_release", "rmw_block_single_rs", "rmw_collapse_multiple_rs",
         "rmw_extend_block_rs", "cas_strong_relaxed", "cas_strong_fail",
         "fence_rel_before_write", "fence_acq_after_read", "fence_rmw_block_hrs",
         "fence_rmw_collapse_multi_hrs"}

\* The tests that race whatever the schedule.
RaceAlways == {"race_relaxed", "race_simple", "race_write_after_release",
               "cas_strong_relaxed", "fence_rel_before_write", "fence_acq_after_read"}

\* The position of the store of v to x, in a test that stores v once.
At(x, v) == CHOOSE p \in DOMAIN vals[x] : vals[x][p] = v

\* race_blocked_rs: the store of v is not in the release sequence of the store
\* of 1, which the blocker's store of 4 ends.
Blocked(v) == v = 4 \/ At("x", 4) \in At("x", 1)..At("x", v)

\* No false alarm: a test whose row says "No" has no race on any schedule, and
\* in the others the reads that synchronise all the same report none.
RacesAreReal ==
  /\ test \notin Racy => raced = {}
  /\ test = "race_rel_acq" /\ raced # {} => regs[2] = <<0>>
  /\ test = "fence_rmw_collapse_multi_hrs" => raced \subseteq {"y"}
  /\ test = "race_blocked_rs" /\ raced # {} => Blocked(regs[3][1])

\* Thread t read no value of the test's x but v, the last of 0, 1, ..., v in
\* modification order.
ReadOnly(t, v) == vals["x"] = [k \in 1..(v + 1) |-> k - 1] /\ Range(regs[t]) = {v}

\* No missed race: the rows that say "Yes", for the schedules that make the
\* race happen (the stores in the order that the tests' sleeps give them, and
\* no earlier read that synchronised).
RacesAreFound ==
  Finished =>
    /\ test \in RaceAlways => raced # {}
    /\ test = "race_rel_acq" => (raced # {} <=> regs[2] = <<0>>)
    /\ test = "race_blocked_rs" => (raced # {} <=> Blocked(regs[3][1]))
    /\ test \in {"rmw_block_single_rs", "fence_rmw_block_hrs"} /\ ReadOnly(4, 3) => raced # {}
    /\ test = "rmw_collapse_multiple_rs" /\ ReadOnly(3, 5) => "y" \in raced
    /\ test = "rmw_extend_block_rs" /\ ReadOnly(4, 4) => raced # {}
    /\ test = "fence_rmw_collapse_multi_hrs" /\ ReadOnly(3, 3) => raced = {"y"}

\* The values that a finished test has read or stored are none that its comment, or
\* its row, rules out. Three comments rule out more than the runtime does: those of
\* cowr_sync and cowr_sync_trans ("must not see the init or first store": the first
\* store is still seen, the initial value never) and that of sc_fence_read_non_sc
\* ("should never see x = 1, y = 0": it is seen, and no clause says otherwise).
\* Two comments report more than the runtime allows: relaxed_cycle and
\* relaxed_load_buffering, stores that come before the load they depend on or
\* follow. A thread calls the runtime in program order, so that never happens here.
OutcomesAllowed ==
  Finished =>
    /\ test = "simple_relaxed" => Last(regs[3]) = 1
    /\ test = "sb_seq_cst" => regs[1] \o regs[2] # <<0, 0>>
    /\ test = "seq_cst_cycle" => Last(vals["z"]) >= 1
    /\ test = "seq_cst_blocking_relaxed" /\ At("y", 1) < At("y", 3) => regs[3][1] >= 2
    /\ test = "corr_single_thread" => regs[2][1] <= regs[2][2]
    /\ test \in {"corr_sync", "corr_multi_sync", "corr_fence"} => regs[2][1] <= Last(regs[3])
    /\ test = "sc_write_read" => regs[3] # <<2>>
    /\ test = "sc_write_fence" => Last(regs[2]) >= 2
    /\ test \in {"sc_fence_read", "sc_fence_fence"} => Last(regs[2]) >= 1
    /\ test \in {"sc_write_fence_single_sc", "sc_fence_read_no_cowr"} => regs[2][1] = 2
    \* The first two of the comments that the runtime keeps to in part ...
    /\ test = "cowr_sync" => Last(regs[2]) >= 1
    /\ test = "cowr_sync_trans" => Last(regs[3]) >= 1
    \* ... and the two that report what it never does.
    /\ test = "relaxed_cycle" => vals["x"] = <<0>> /\ vals["y"] = <<0>>
    /\ test = "relaxed_load_buffering" => regs[1] \o regs[2] # <<1, 1>>
=============================================================================
