------------------------------ MODULE Programs ------------------------------
(***************************************************************************)
(* What a program under tsan11 adds to the runtime of module Tsan11: a     *)
(* program counter per thread, the values of its atomic locations, and the *)
(* accesses to plain variables that tsan checks for races. Here are the    *)
(* operations programs are made of; each leaves pc and regs to its caller. *)
(***************************************************************************)
EXTENDS Tsan11, SequencesExt

VARIABLES
  pc,     \* the next instruction of each thread
  regs,   \* the local variables of each thread
  vals,   \* the values of each location, by position in modification order
  shadow, \* the accesses to each plain variable
  raced   \* the plain variables a race was reported on

program == <<pc, regs, vals, shadow, raced>>

\* A program of two threads runs on these.
Second == CHOOSE t \in Tid \ {Main} : TRUE
Two == {Main, Second}
Other(t) == IF t = Main THEN Second ELSE Main

\* A program whose locations start with the values of first, and each thread
\* at start[t] with the locals own.
StartWith(first, start, own, plain) ==
  /\ InitWith(DOMAIN first)
  /\ pc = start
  /\ regs = [t \in Tid |-> own]
  /\ vals = [x \in DOMAIN first |-> << first[x] >>]
  /\ shadow = [v \in plain |-> {}]
  /\ raced = {}

\* Thread t goes on at l, with its locals as they are or with r.
Goto(t, l) == pc' = [pc EXCEPT ![t] = l]
Goes(t, l) == Goto(t, l) /\ UNCHANGED regs
GoesWith(t, l, r) == Goto(t, l) /\ regs' = [regs EXCEPT ![t] = r]

\* What the last store to x left there.
Latest(x) == Last(vals[x])

Stored(x, v) == vals' = [vals EXCEPT ![x] = Append(@, v)]

-----------------------------------------------------------------------------

\* An atomic load: Then(v) says how t goes on with the value v it read.
Reads(t, x, mo, Then(_)) ==
  /\ \E p \in NextReads(t, x, mo) : LoadAt(t, x, mo, p) /\ Then(vals[x][p])
  /\ UNCHANGED <<vals, shadow, raced>>

\* An atomic store of v.
Writes(t, x, mo, v) ==
  /\ Store(t, x, mo)
  /\ Stored(x, v)
  /\ UNCHANGED <<shadow, raced>>

\* fetch_add, fetch_or, exchange: the latest value of x becomes v.
Updates(t, x, mo, v) ==
  /\ \E keep \in BOOLEAN : Rmw(t, x, mo, keep)
  /\ Stored(x, v)
  /\ UNCHANGED <<shadow, raced>>

\* compare_exchange, which looks at the latest value only. A weak one does
\* not fail spuriously under tsan.
Succeeds(t, x, old, new, mo) ==
  /\ Latest(x) = old
  /\ IF mo = "relaxed" THEN CasRelaxed(t, x) ELSE \E keep \in BOOLEAN : Rmw(t, x, mo, keep)
  /\ Stored(x, new)
  /\ UNCHANGED <<shadow, raced>>

Fails(t, x, old, fmo) ==
  /\ Latest(x) # old
  /\ CasFail(t, x, fmo)
  /\ UNCHANGED <<vals, shadow, raced>>

\* atomic_thread_fence.
Orders(t, mo) == Fence(t, mo) /\ UNCHANGED <<vals, shadow, raced>>

\* The mutex of the program, taken and released.
Locks(t) == Lock(t) /\ UNCHANGED <<vals, shadow, raced>>
Unlocks(t) == Unlock(t) /\ UNCHANGED <<vals, shadow, raced>>

-----------------------------------------------------------------------------

\* An event of thread t that synchronizes with nothing.
Event(t) ==
  LET th == Ticked(thr[t])
  IN  /\ Tick
      /\ thr' = [thr EXCEPT ![t] = th]
      /\ hist' = Recorded(Publish(hist, th, hist.view[t]))
      /\ UNCHANGED <<ctx, loc, mutex, vals>>

\* An access that a thread with clock c does not know of.
Unordered(a, b, c) == a.tid # b.tid /\ (a.write \/ b.write) /\ c[a.tid] < a.epoch

\* MemoryAccess: a race with any earlier access that does not happen before.
Accesses(t, v, isWrite) ==
  LET th == Ticked(thr[t])
      access == [tid |-> t, epoch |-> th.epoch, write |-> isWrite]
      races == \E a \in shadow[v] : Unordered(a, access, th.clock)
  IN  /\ Event(t)
      /\ shadow' = [shadow EXCEPT ![v] = @ \cup {access}]
      /\ raced' = IF races THEN raced \cup {v} ELSE raced
=============================================================================
