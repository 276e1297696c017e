------------------------------ MODULE SpscQueue ------------------------------
(***************************************************************************)
(* spsc-queue/: a queue of one producer and one consumer, which sleeps on  *)
(* an eventcount. The producer enqueues once; next is that of the first    *)
(* node. count is a pair of its high bit, which says that someone waits,   *)
(* and the number of signals. The eventcount says                          *)
(* std::memory_order_seq_cst, not the mo_seqcst of unrelacy.h, which is    *)
(* relaxed.                                                                *)
(***************************************************************************)
EXTENDS Programs

\* then: where the consumer goes on when the queue is empty. ec is the eventcount's,
\* kept by Main: held, the thread that has guard by pthreads (mutex.holder has it by
\* tsan), and depth, how often tsan counts it as locked; waiters, the variable;
\* stale, whether the producer read a count, or the consumer a next, that was not the
\* latest; freed, whether a thread freed guard while the other had it.
SpscInit ==
  StartWith([next |-> 0, count |-> <<FALSE, 0>>],
            [t \in Tid |-> CASE t = Main -> "node" [] t = Second -> "try" [] OTHER -> "done"],
            [cmp |-> <<FALSE, 0>>, w |-> 0, then |-> "get",
             ec |-> [held |-> NoTid, depth |-> 0, waiters |-> 0,
                     stale |-> FALSE, freed |-> FALSE]], {"data", "waiters"})

Ec == regs[Main].ec

\* t goes on at l with the locals r, and the eventcount becomes e.
SpscGoes(t, l, r, e) == Goto(t, l) /\ regs' = [regs EXCEPT ![t] = r, ![Main].ec = e]

\* guard.lock(), which waits for pthreads alone. A mutex that tsan takes for held is
\* reported, and held once more: the thread goes on and has acquired nothing.
SpscLocks(t, l) ==
  /\ Ec.held = NoTid
  /\ IF mutex.holder = NoTid THEN Locks(t) ELSE Event(t) /\ UNCHANGED <<shadow, raced>>
  /\ SpscGoes(t, l, regs[t], [Ec EXCEPT !.held = t, !.depth = @ + 1])

\* guard.unlock(), which for pthreads frees guard, whoever has it. One that is not
\* t's by tsan is reported, and stays as it is; one held more than once stays held.
SpscUnlocks(t, l, r) ==
  LET own == mutex.holder = t
  IN  /\ IF own /\ Ec.depth = 1 THEN Unlocks(t) ELSE Event(t) /\ UNCHANGED <<shadow, raced>>
      /\ SpscGoes(t, l, r, [Ec EXCEPT !.held = NoTid, !.depth = IF own THEN @ - 1 ELSE @,
                                      !.freed = @ \/ Ec.held \notin {NoTid, t}])

\* v was read; was it the latest?
Stale(v, latest) == [Ec EXCEPT !.stale = @ \/ v # latest]

\* enqueue(), signal_relaxed() and signal_impl()
SpscEnqueue(t) ==
  LET r == regs[t] IN
  \/ pc[t] = "node" /\ Accesses(t, "data", TRUE) /\ Goes(t, "link")
  \/ pc[t] = "link" /\ Writes(t, "next", "release", 1) /\ Goes(t, "signal")
  \/ /\ pc[t] = "signal"
     /\ Reads(t, "count", "relaxed",
              LAMBDA v : SpscGoes(t, IF v[1] THEN "lock" ELSE "done", [r EXCEPT !.cmp = v],
                                     Stale(v, Latest("count"))))
  \/ pc[t] = "lock" /\ SpscLocks(t, "cas")
  \/ /\ pc[t] = "cas"
     /\ \/ Succeeds(t, "count", r.cmp, <<FALSE, r.cmp[2] + 1>>, "relaxed") /\ Goes(t, "waiters")
        \/ /\ Fails(t, "count", r.cmp, "relaxed")
           /\ GoesWith(t, "cas", [r EXCEPT !.cmp = Latest("count")])
  \/ /\ pc[t] = "waiters"
     /\ Accesses(t, "waiters", FALSE)
     /\ GoesWith(t, "reset", [r EXCEPT !.w = Ec.waiters])
  \/ /\ pc[t] = "reset"
     /\ Accesses(t, "waiters", TRUE)
     /\ SpscGoes(t, "unlock", r, [Ec EXCEPT !.waiters = 0])
  \/ pc[t] = "unlock" /\ SpscUnlocks(t, IF r.w > 0 THEN "notify" ELSE "done", r)
  \/ /\ pc[t] = "notify"
     /\ pc' = [u \in Tid |-> IF u = t THEN "done"
                             ELSE IF pc[u] = "asleep" THEN "woken" ELSE pc[u]]
     /\ UNCHANGED <<vars, regs, vals, shadow, raced>>

\* dequeue(), try_dequeue(), get() and wait(), which unlocks guard twice: at its end,
\* and when lck is destroyed. A sleeper may wake unnotified.
SpscDequeue(t) ==
  LET r == regs[t]
      again == [r EXCEPT !.then = "get"]
  IN
  \/ /\ pc[t] = "try"
     /\ Reads(t, "next", "acquire",
              LAMBDA v : SpscGoes(t, IF v = 0 THEN r.then ELSE "data", r,
                                     Stale(v, Latest("next"))))
  \/ pc[t] = "data" /\ Accesses(t, "data", FALSE) /\ Goes(t, "done")
  \/ /\ pc[t] = "get"
     /\ Updates(t, "count", "seq_cst", <<TRUE, Latest("count")[2]>>)
     /\ GoesWith(t, "try", [r EXCEPT !.cmp = Latest("count"), !.then = "wait"])
  \/ /\ pc[t] = "wait"
     /\ Reads(t, "count", "seq_cst",
              LAMBDA v : IF v[2] = r.cmp[2] THEN Goes(t, "guard") ELSE GoesWith(t, "try", again))
  \/ pc[t] = "guard" /\ SpscLocks(t, "check")
  \/ /\ pc[t] = "check"
     /\ Reads(t, "count", "seq_cst",
              LAMBDA v : Goes(t, IF v[2] = r.cmp[2] THEN "enlist" ELSE "release"))
  \/ /\ pc[t] = "enlist"
     /\ Accesses(t, "waiters", TRUE)
     /\ SpscGoes(t, "sleep", r, [Ec EXCEPT !.waiters = @ + 1])
  \/ pc[t] = "sleep" /\ SpscUnlocks(t, "asleep", r)
  \/ pc[t] \in {"asleep", "woken"} /\ SpscLocks(t, "release")
  \/ pc[t] = "release" /\ SpscUnlocks(t, "destroy", r)
  \/ pc[t] = "destroy" /\ SpscUnlocks(t, "try", again)

SpscStep(t) == IF t = Main THEN SpscEnqueue(t) ELSE SpscDequeue(t)

-----------------------------------------------------------------------------

\* t waits for guard, or sleeps and was not notified. It may sleep for ever, but for
\* one reason: the producer's relaxed load of count missed the consumer's get(), or
\* the consumer's load of next after it missed the element. Were both to see the
\* latest, no wake-up could be lost.
SpscBlocked(t) ==
  \/ pc[t] \in {"lock", "guard", "woken"} /\ Ec.held # NoTid
  \/ pc[t] = "asleep" /\ ~Ec.stale

\* waiters may be raced on, and for one reason: the second unlock freed the guard that
\* the producer held, and the consumer, which missed the element, took it again.
SpscRaces == raced # {} => raced = {"waiters"} /\ Ec.freed /\ Ec.stale
=============================================================================
