--------------------------- MODULE AtomicHandlers ---------------------------
(***************************************************************************)
(* What the handlers of tsan_interface_atomic.cc promise each other: each  *)
(* takes effect at once. A load returns the value and the clock of one and *)
(* the same store; a store, an RMW or a CAS that succeeds is the next      *)
(* store of its location; what a seq_cst operation takes from the context  *)
(* is what the seq_cst operations before it left there.                    *)
(***************************************************************************)
EXTENDS Naturals

CONSTANTS Tid, Loc

VARIABLES
  stores, \* how many stores each location has seen, with the initial one
  sfence, \* ctx->Sfence and ctx->Swrite: how many SC fences and SC stores of
  swrite, \*   each thread they tell of
  found   \* what the latest operation took: the store whose value, and the one
          \*   whose clock, it got, and its copies of ctx->Sfence and ctx->Swrite

avars == <<stores, sfence, swrite, found>>

Clock == [Tid -> Nat]
Zero == [t \in Tid |-> 0]
Nothing == [val |-> 0, clk |-> 0, fence |-> Zero, write |-> Zero]

AInit ==
  /\ stores = [x \in Loc |-> 1]
  /\ sfence = Zero
  /\ swrite = Zero
  /\ found = Nothing

\* One and the same store; thr->Sread is that of a seq_cst operation.
Finds(n, isSc) ==
  found' = [val |-> n, clk |-> n, fence |-> IF isSc THEN sfence ELSE Zero, write |-> Zero]
Adds(x) == stores' = [stores EXCEPT ![x] = @ + 1]
SWrites(t, isSc) == swrite' = IF isSc THEN [swrite EXCEPT ![t] = @ + 1] ELSE swrite

ALoad(x, isSc) ==
  /\ \E n \in 1..stores[x] : Finds(n, isSc)
  /\ UNCHANGED <<stores, sfence, swrite>>

AStore(t, x, isSc) ==
  /\ Adds(x)
  /\ SWrites(t, isSc)
  /\ UNCHANGED <<sfence, found>>

ARmw(t, x, isSc) ==
  /\ Finds(stores[x], isSc)
  /\ Adds(x)
  /\ SWrites(t, isSc)
  /\ UNCHANGED sfence

ACasFail(x, isSc) ==
  /\ Finds(stores[x], isSc)
  /\ UNCHANGED <<stores, sfence, swrite>>

\* A failing CAS with a seq_cst failure order and a weaker success order, which
\* C++11 forbids: what it takes from the context is anything.
ACasFailBare(x) ==
  /\ found'.fence \in Clock
  /\ found' = [val |-> stores[x], clk |-> stores[x], fence |-> found'.fence, write |-> Zero]
  /\ UNCHANGED <<stores, sfence, swrite>>

AFence(t) ==
  /\ sfence' = [sfence EXCEPT ![t] = @ + 1]
  /\ found' = [val |-> 0, clk |-> 0, fence |-> sfence', write |-> swrite]
  /\ UNCHANGED <<stores, swrite>>

\* An operation is over, and what it took is its caller's.
AReturn ==
  /\ found' = Nothing
  /\ UNCHANGED <<stores, sfence, swrite>>

ANext ==
  \/ \E t \in Tid, x \in Loc, isSc \in BOOLEAN : AStore(t, x, isSc) \/ ARmw(t, x, isSc)
  \/ \E x \in Loc, isSc \in BOOLEAN : ALoad(x, isSc) \/ ACasFail(x, isSc)
  \/ \E x \in Loc : ACasFailBare(x)
  \/ \E t \in Tid : AFence(t)
  \/ AReturn

ASpec == AInit /\ [][ANext]_avars
=============================================================================
