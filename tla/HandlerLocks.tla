---------------------------- MODULE HandlerLocks ----------------------------
(***************************************************************************)
(* The handlers of tsan_interface_atomic.cc step by step. A handler holds  *)
(* the mutex of its location's SyncVar, and, if it is seq_cst, the context *)
(* mutex Smtx inside it; a seq_cst fence holds Smtx alone. Each access to  *)
(* what they protect is a step of its own: the context's clocks, the store *)
(* buffer, the location's SyncClock, the memory of the program. A store,   *)
(* its value and its clock are known by the store's position in            *)
(* modification order; which of them a load may return is module Tsan11's. *)
(***************************************************************************)
EXTENDS Naturals, Sequences

CONSTANTS
  Tid, Loc,
  NoTid,     \* not a thread: a mutex that is free
  MaxCalls   \* bound: the calls of each thread

ASSUME NoTidAssumption == NoTid \notin Tid
ASSUME MaxCallsAssumption == MaxCalls \in [Tid -> Nat]

VARIABLES
  calls,  \* how many handlers each thread has called
  pc,     \* the next step of each thread's handler; idle outside of one
  op,     \* the handler's operation
  left,   \* the entries of ctx->Sfence that SCRead is still to copy
  copy,   \* the ones it copied
  seen,   \* the value, and the clock, that an RMW or a CAS found
  smtx,   \* the thread that holds ctx->Smtx
  lock,   \* the thread that holds the mtx of each SyncVar
  mem,    \* the store whose value is in memory
  clk,    \* the store whose clock is the SyncVar's
  buf,    \* the store buffer: the values and clocks of earlier stores
  sfence, swrite, found \* see AtomicHandlers

locals == <<op, left, copy, seen>>
vars == <<calls, pc, locals, smtx, lock, mem, clk, buf, sfence, swrite, found>>

Clock == [Tid -> Nat]
Zero == [t \in Tid |-> 0]
NoStore == [val |-> 0, clk |-> 0]
Nothing == [val |-> 0, clk |-> 0, fence |-> Zero, write |-> Zero]

\* The operations. isSc: the order, of a CAS the one of its success, is seq_cst;
\* fsc: the failure order of a CAS that fails is.
Operation ==
  {o \in [kind : {"load", "store", "rmw", "cas", "casfail"}, loc : Loc,
          isSc : BOOLEAN, fsc : BOOLEAN] : o.fsc => o.kind = "casfail"}
ScFenceOp == [kind |-> "fence", isSc |-> TRUE]
NoOp == [kind |-> "none"]

Init ==
  /\ calls = [t \in Tid |-> 0]
  /\ pc = [t \in Tid |-> "idle"]
  /\ op = [t \in Tid |-> NoOp]
  /\ left = [t \in Tid |-> {}]
  /\ copy = [t \in Tid |-> Zero]
  /\ seen = [t \in Tid |-> NoStore]
  /\ smtx = NoTid
  /\ lock = [x \in Loc |-> NoTid]
  /\ mem = [x \in Loc |-> 1]
  /\ clk = [x \in Loc |-> 1]
  /\ buf = [x \in Loc |-> << >>]
  /\ sfence = Zero
  /\ swrite = Zero
  /\ found = Nothing

Go(t, l) == pc' = [pc EXCEPT ![t] = l]

\* The first step under the mutexes, the one after SCRead, and the first to leave.
Work(o) ==
  IF o.kind = "fence" THEN "scfence"
  ELSE IF o.kind \in {"cas", "casfail"} THEN "cas"
  ELSE IF o.isSc THEN IF o.kind = "store" THEN "scwrite" ELSE "scread"
  ELSE IF o.kind = "load" THEN "fetch" ELSE "buffer"

AfterRead(o) ==
  IF o.kind = "load" THEN "fetch" ELSE IF o.kind = "casfail" THEN "advance" ELSE "scwrite"

\* Mutant of Leave: a seq_cst load keeps Smtx.
LeaveLoad(o) == IF o.isSc /\ o.kind # "load" THEN "scunlock" ELSE "unlock"

\* Smtx is released first.
Leave(o) == IF o.isSc THEN "scunlock" ELSE "unlock"

-----------------------------------------------------------------------------

\* The program calls a handler.
Call(t, o) ==
  /\ pc[t] = "idle"
  /\ calls[t] < MaxCalls[t]
  /\ calls' = [calls EXCEPT ![t] = @ + 1]
  /\ op' = [op EXCEPT ![t] = o]
  /\ left' = [left EXCEPT ![t] = Tid]
  /\ Go(t, IF o.kind = "fence" THEN "sclock" ELSE "lock")
  /\ UNCHANGED <<copy, seen, smtx, lock, mem, clk, buf, sfence, swrite, found>>

\* It returns; what it found is its caller's.
Return(t) ==
  /\ Go(t, "idle")
  /\ op' = [op EXCEPT ![t] = NoOp]
  /\ left' = [left EXCEPT ![t] = {}]
  /\ copy' = [copy EXCEPT ![t] = Zero]
  /\ seen' = [seen EXCEPT ![t] = NoStore]
  /\ found' = Nothing

\* Mutants of LockVar: a load does not take Smtx; a load takes a mutex that is held.
LockVarBare(t) ==
  LET o == op[t] IN
  /\ pc[t] = "lock"
  /\ lock[o.loc] = NoTid
  /\ lock' = [lock EXCEPT ![o.loc] = t]
  /\ Go(t, IF o.isSc /\ o.kind # "load" THEN "sclock" ELSE Work(o))
  /\ UNCHANGED <<locals, smtx, mem, clk, buf, sfence, swrite, found>>

LockVarShared(t) ==
  LET o == op[t] IN
  /\ pc[t] = "lock"
  /\ lock[o.loc] = NoTid \/ o.kind = "load"
  /\ lock' = [lock EXCEPT ![o.loc] = t]
  /\ Go(t, IF o.isSc THEN "sclock" ELSE Work(o))
  /\ UNCHANGED <<locals, smtx, mem, clk, buf, sfence, swrite, found>>

\* GetOrCreateAndLock
LockVar(t) ==
  LET o == op[t] IN
  /\ pc[t] = "lock"
  /\ lock[o.loc] = NoTid
  /\ lock' = [lock EXCEPT ![o.loc] = t]
  /\ Go(t, IF o.isSc THEN "sclock" ELSE Work(o))
  /\ UNCHANGED <<locals, smtx, mem, clk, buf, sfence, swrite, found>>

\* ctx->Smtx.Lock()
LockSc(t) ==
  /\ pc[t] = "sclock"
  /\ smtx = NoTid
  /\ smtx' = t
  /\ Go(t, Work(op[t]))
  /\ UNCHANGED <<locals, lock, mem, clk, buf, sfence, swrite, found>>

\* SCRead, one entry at a time. A failing CAS may come here without Smtx.
ScRead(t) ==
  /\ pc[t] = "scread"
  /\ \E u \in left[t] :
       /\ copy' = [copy EXCEPT ![t] = [@ EXCEPT ![u] = sfence[u]]]
       /\ left' = [left EXCEPT ![t] = @ \ {u}]
       /\ Go(t, IF left[t] = {u} THEN AfterRead(op[t]) ELSE "scread")
  /\ UNCHANGED <<op, seen, smtx, lock, mem, clk, buf, sfence, swrite, found>>

\* SCWrite
ScWrite(t) ==
  /\ pc[t] = "scwrite"
  /\ swrite' = [swrite EXCEPT ![t] = @ + 1]
  /\ Go(t, "buffer")
  /\ UNCHANGED <<locals, smtx, lock, mem, clk, buf, sfence, found>>

\* func_cas, the first thing a CAS does under the mutexes.
Cas(t) ==
  LET o == op[t] IN
  /\ pc[t] = "cas"
  /\ seen' = [seen EXCEPT ![t] = [val |-> mem[o.loc], clk |-> 0]]
  /\ IF o.kind = "cas"
     THEN /\ mem' = [mem EXCEPT ![o.loc] = @ + 1]
          /\ Go(t, IF o.isSc THEN "scread" ELSE "buffer")
     ELSE /\ Go(t, IF o.fsc THEN "scread" ELSE "advance")
          /\ UNCHANGED mem
  /\ UNCHANGED <<op, left, copy, smtx, lock, clk, buf, sfence, swrite, found>>

\* Mutant of Buffer: a CAS buffers the value it has just stored.
BufferNew(t) ==
  LET o == op[t] IN
  /\ pc[t] = "buffer"
  /\ buf' = [buf EXCEPT ![o.loc] = Append(@, [val |-> mem[o.loc], clk |-> clk[o.loc]])]
  /\ Go(t, "clock")
  /\ UNCHANGED <<locals, smtx, lock, mem, clk, sfence, swrite, found>>

\* BufferStore, of the value in memory (a CAS has replaced it already).
Buffer(t) ==
  LET o == op[t] IN
  /\ pc[t] = "buffer"
  /\ buf' = [buf EXCEPT ![o.loc] =
               Append(@, [val |-> IF o.kind = "cas" THEN seen[t].val ELSE mem[o.loc],
                          clk |-> clk[o.loc]])]
  /\ Go(t, "clock")
  /\ UNCHANGED <<locals, smtx, lock, mem, clk, sfence, swrite, found>>

\* What an operation that is done found in its location, and in the context.
Found(t, val, c, isSc) ==
  found' = [val |-> val, clk |-> c, fence |-> IF isSc THEN copy[t] ELSE Zero, write |-> Zero]

\* ReleaseStoreImpl, NonReleaseStoreImpl or RMWImpl (a relaxed CAS leaves the clock
\* as it is: it is now the clock of the new store, too). A CAS has no more to do.
SyncClock(t) ==
  LET o == op[t] IN
  /\ pc[t] = "clock"
  /\ clk' = [clk EXCEPT ![o.loc] = @ + 1]
  /\ IF o.kind = "cas"
     THEN /\ Found(t, seen[t].val, clk[o.loc], o.isSc)
          /\ Go(t, Leave(o))
          /\ UNCHANGED seen
     ELSE /\ seen' = [seen EXCEPT ![t] = [val |-> 0, clk |-> clk[o.loc]]]
          /\ Go(t, "memory")
          /\ UNCHANGED found
  /\ UNCHANGED <<op, left, copy, smtx, lock, mem, buf, sfence, swrite>>

\* NoTsanAtomicStore, or F(a, v) in AtomicRMW.
Memory(t) ==
  LET o == op[t] IN
  /\ pc[t] = "memory"
  /\ mem' = [mem EXCEPT ![o.loc] = @ + 1]
  /\ IF o.kind = "rmw" THEN Found(t, mem[o.loc], seen[t].clk, o.isSc) ELSE UNCHANGED found
  /\ Go(t, Leave(o))
  /\ UNCHANGED <<locals, smtx, lock, clk, buf, sfence, swrite>>

\* FetchStore: a store in the buffer, or the one in memory.
Fetch(t) ==
  LET o == op[t]
      b == buf[op[t].loc] IN
  /\ pc[t] = "fetch"
  /\ \/ \E p \in 1..Len(b) : Found(t, b[p].val, b[p].clk, o.isSc)
     \/ Found(t, mem[o.loc], clk[o.loc], o.isSc)
  /\ Go(t, Leave(o))
  /\ UNCHANGED <<locals, smtx, lock, mem, clk, buf, sfence, swrite>>

\* AdvanceToEnd and AcquireImpl, of a CAS that fails.
Advance(t) ==
  LET o == op[t] IN
  /\ pc[t] = "advance"
  /\ Found(t, seen[t].val, clk[o.loc], o.fsc)
  /\ Go(t, Leave(o))
  /\ UNCHANGED <<locals, smtx, lock, mem, clk, buf, sfence, swrite>>

\* SCFence: it sets Sfence, and copies Sfence and Swrite.
ScFence(t) ==
  /\ pc[t] = "scfence"
  /\ sfence' = [sfence EXCEPT ![t] = @ + 1]
  /\ Go(t, "sccopy")
  /\ UNCHANGED <<locals, smtx, lock, mem, clk, buf, swrite, found>>

ScCopy(t) ==
  /\ pc[t] = "sccopy"
  /\ found' = [val |-> 0, clk |-> 0, fence |-> sfence, write |-> swrite]
  /\ Go(t, "scunlock")
  /\ UNCHANGED <<locals, smtx, lock, mem, clk, buf, sfence, swrite>>

\* ctx->Smtx.Unlock()
UnlockSc(t) ==
  /\ pc[t] = "scunlock"
  /\ smtx' = NoTid
  /\ IF op[t].kind = "fence" THEN Return(t) ELSE Go(t, "unlock") /\ UNCHANGED <<locals, found>>
  /\ UNCHANGED <<lock, mem, clk, buf, sfence, swrite>>

\* s->mtx.Unlock()
UnlockVar(t) ==
  /\ pc[t] = "unlock"
  /\ lock' = [lock EXCEPT ![op[t].loc] = NoTid]
  /\ Return(t)
  /\ UNCHANGED <<smtx, mem, clk, buf, sfence, swrite>>

Step(t) ==
  /\ UNCHANGED calls
  /\ \/ LockVar(t) \/ LockSc(t) \/ ScRead(t) \/ ScWrite(t) \/ Cas(t) \/ Buffer(t)
     \/ SyncClock(t) \/ Memory(t) \/ Fetch(t) \/ Advance(t) \/ ScFence(t) \/ ScCopy(t)
     \/ UnlockSc(t) \/ UnlockVar(t)

Next == \E t \in Tid : Step(t) \/ \E o \in Operation \cup {ScFenceOp} : Call(t, o)

Spec == Init /\ [][Next]_vars

\* A handler that can go on does. Nothing is assumed of who gets a mutex.
FairSpec == Spec /\ \A t \in Tid : WF_vars(Step(t))

-----------------------------------------------------------------------------

\* The threads in the middle of what the mutexes are for.
HoldsVar(t) == pc[t] \notin {"idle", "lock"} /\ op[t].kind # "fence"
HoldsSc(t) == pc[t] \notin {"idle", "lock", "sclock", "unlock"} /\ op[t].isSc

\* "SC mutex must be held", says tsan_rtl.h of SCFence, SCWrite and SCRead: it is,
\* by the thread itself, unless a CAS failed whose failure order alone is seq_cst.
ScMutexHeld ==
  \A t \in Tid :
    pc[t] \in {"scfence", "sccopy", "scwrite", "scread"} =>
      smtx = t \/ (op[t].kind = "casfail" /\ ~op[t].isSc)

\* No two handlers are at work on a location, and no two on the context.
HandlersExclude ==
  \A t, u \in Tid : t # u =>
    /\ HoldsVar(t) /\ HoldsVar(u) => op[t].loc # op[u].loc
    /\ ~(HoldsSc(t) /\ HoldsSc(u))

\* The handlers implement AtomicHandlers: each takes effect at its last access.
\* Until then, nobody sees what it changed before: the memory, of a CAS that
\* succeeds, the entry of SCWrite, the entry of SCFence.
CasPending(t) == op[t].kind = "cas" /\ pc[t] \in {"scread", "scwrite", "buffer", "clock"}
WritePending(t) == pc[t] \in {"buffer", "clock", "memory"} /\ op[t].isSc

stores ==
  [x \in Loc |-> IF \E t \in Tid : CasPending(t) /\ op[t].loc = x THEN mem[x] - 1 ELSE mem[x]]
swriteDone == [t \in Tid |-> IF WritePending(t) THEN swrite[t] - 1 ELSE swrite[t]]
sfenceDone == [t \in Tid |-> IF pc[t] = "sccopy" THEN sfence[t] - 1 ELSE sfence[t]]

Atomic == INSTANCE AtomicHandlers WITH swrite <- swriteDone, sfence <- sfenceDone

HandlersAreAtomic == Atomic!ASpec

\* The two mutexes never keep all threads waiting: when every thread is in a
\* handler, one of them comes out of it.
SomeHandlerEnds ==
  (\A t \in Tid : pc[t] # "idle") ~> (\E t \in Tid : pc[t] = "idle")
=============================================================================
