------------------------------ MODULE MCTsan11 ------------------------------
\* Model values and bounds for Tsan11.
EXTENDS Tsan11, TLC

CONSTANTS main, t1, t2, x, y

\* Main names the store a new buffer holds; the others are interchangeable.
Threads == Permutations(Tid \ {Main})

Nothing == [load |-> {}, store |-> {}, rmw |-> {}, cas |-> {}, casfail |-> {}]

NoFences == [t \in Tid |-> {}]

NoCreator == [t \in Tid |-> NoTid]
MainCreatesT2 == [t \in Tid |-> IF t = t2 THEN main ELSE NoTid]

\* main writes x and announces it in y, t1 reads x and passes it on, t2 waits
\* for y and reads x.
MessagePassing ==
  [a \in Tid \X Loc |->
     CASE a = <<main, x>> -> [Nothing EXCEPT !.store = {"relaxed"}]
       [] a = <<main, y>> -> [Nothing EXCEPT !.store = {"release"}]
       [] a = <<t1, x>>   -> [Nothing EXCEPT !.load = {"relaxed"}, !.casfail = {"relaxed"}]
       [] a = <<t1, y>>   -> [Nothing EXCEPT !.load = {"acquire"}, !.store = {"release"}]
       [] a = <<t2, x>>   -> [Nothing EXCEPT !.load = {"relaxed"}]
       [] a = <<t2, y>>   -> [Nothing EXCEPT !.load = {"acquire"}]]

\* The same program with a mutex in the place of y.
Locked ==
  [a \in Tid \X Loc |->
     IF a[1] = main THEN [Nothing EXCEPT !.store = {"relaxed"}]
                    ELSE [Nothing EXCEPT !.load = {"relaxed"}]]

\* main and t1 write x, with and without seq_cst, t1 and t2 read it.
ScAccesses ==
  [a \in Tid \X Loc |->
     CASE a[1] = main -> [Nothing EXCEPT !.store = {"relaxed", "seq_cst"}]
       [] a[1] = t1 -> [Nothing EXCEPT !.store = {"seq_cst"}, !.load = {"seq_cst"}]
       [] a[1] = t2 -> [Nothing EXCEPT !.load = {"relaxed", "seq_cst"}]]

\* main releases a store to x, t1 acquires it as it adds to x, t2 reads x.
ScRmw ==
  [a \in Tid \X Loc |->
     CASE a[1] = main -> [Nothing EXCEPT !.store = {"release"}]
       [] a[1] = t1 -> [Nothing EXCEPT !.rmw = {"seq_cst"}]
       [] a[1] = t2 -> [Nothing EXCEPT !.load = {"seq_cst"}]]

ScFences == [t \in Tid |-> {"seq_cst"}]

\* Every operation of every thread on x, with the orders that differ in what
\* they do to it.
Everything ==
  [a \in Tid \X Loc |->
     [load |-> {"relaxed", "acquire", "seq_cst"}, store |-> StoreOrder,
      rmw |-> {"relaxed", "acq_rel", "seq_cst"}, cas |-> {"relaxed"},
      casfail |-> {"relaxed", "acquire", "seq_cst"}]]

AllFences == [t \in Tid |-> {"acquire", "release", "acq_rel", "seq_cst"}]
=============================================================================
