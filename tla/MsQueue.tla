------------------------------- MODULE MsQueue -------------------------------
(***************************************************************************)
(* ms-queue/: the queue of Michael and Scott, with nodes that are counted, *)
(* freed and used again. A pointer is a pair of a node and a count; node 0 *)
(* is NULL. Bound: two of the four threads of main.cc run.                 *)
(***************************************************************************)
EXTENDS Programs

POISON_IDX == 1638 \* 0x666
Nodes == 0..7
NextIn(n) == << "n0", "n1", "n2", "n3", "n4", "n5", "n6", "n7" >>[n + 1]
Ptr(p) == p[1]
Link(n, p) == <<n, p[2] + 1>> \* MAKE_POINTER(n, get_count(p) + 1)

\* What the two threads call. The first client is main.cc; in the second, a thread
\* uses a node again; in the third, a thread dequeues that enqueued nothing.
mainC == << << "enq", "deq" >>, << "enq", "deq" >> >>
MsClients == {mainC, << << "enq" >>, << "enq", "deq", "enq", "deq" >> >>,
              << << "enq" >>, << "deq" >> >>}
Calls(t) == regs[t].client[IF t = Main THEN 1 ELSE 2]

\* init_queue(). The locals of the code, and: call, the index of t's call; got, what
\* its dequeues returned (0: false). q is the queue's, kept by Main: free, the
\* free_lists (the places init_queue leaves as malloc() gave them are 0); value, the
\* values of the nodes; linked and unlinked, the values in the order in which next,
\* and head, took them; blind: a thread trusted a tail that it saw too late or too
\* early.
MsInit ==
  \E c \in MsClients :
    StartWith([n \in {"n2", "n3", "n6", "n7"} |-> <<POISON_IDX, 0>>]
                @@ [n \in {"n0", "n1"} |-> <<0, 0>>] @@ [n \in {"head", "tail"} |-> <<1, 0>>],
              [t \in Tid |-> CASE t = Main -> c[1][1] [] t = Second -> c[2][1]
                               [] OTHER -> "done"],
              [client |-> c, call |-> 1, node |-> 0, tmp |-> <<0, 0>>, head |-> <<0, 0>>,
               tail |-> <<0, 0>>, next |-> <<0, 0>>, ret |-> 0, got |-> << >>,
               q |-> [free |-> (Main :> <<2, 3, 0, 0>>) @@ (Second :> <<6, 7, 0, 0>>),
                      value |-> [n \in Nodes |-> 0],
                      linked |-> << >>, unlinked |-> << >>, blind |-> FALSE]], Nodes)

Q == regs[Main].q

\* t goes on at l with the locals r, and the queue becomes q.
MsGoes(t, l, r, q) == Goto(t, l) /\ regs' = [regs EXCEPT ![t] = r, ![Main].q = q]

\* t's call is done.
Returns(t, r, q) ==
  MsGoes(t, IF r.call < Len(Calls(t)) THEN Calls(t)[r.call + 1] ELSE "done",
            [r EXCEPT !.call = @ + 1], q)

\* new_node() and the value of the node.
MsNew(t) ==
  LET r == regs[t]
      i == SelectInSeq(Q.free[t], LAMBDA m : m # 0)
      n == Q.free[t][i]
  IN  /\ pc[t] = "enq"
      /\ Accesses(t, n, TRUE)
      /\ MsGoes(t, "load", [r EXCEPT !.node = n],
                [Q EXCEPT !.free[t][i] = 0, !.value[n] = 10 * t + r.call])

\* reclaim(n) and return true.
MsReclaim(t, r, q, n) ==
  LET i == SelectInSeq(q.free[t], LAMBDA m : m = 0)
  IN  IF n = 0 \/ i = 0 THEN MsGoes(t, "failed", r, q)
                        ELSE Returns(t, r, [q EXCEPT !.free[t][i] = n])

\* A compare_exchange of tail, from the value t knows to node.
Swings(t, node) ==
  LET tail == regs[t].tail
  IN  \/ Succeeds(t, "tail", tail, Link(node, tail), "release")
      \/ Fails(t, "tail", tail, "relaxed")

\* enqueue(), once it has its node
MsEnqueue(t) ==
  LET r == regs[t]
      next == NextIn(Ptr(r.tail))
  IN
  \/ /\ pc[t] = "load"
     /\ Reads(t, NextIn(r.node), "relaxed",
              LAMBDA v : GoesWith(t, "null", [r EXCEPT !.tmp = <<0, v[2]>>]))
  \/ pc[t] = "null" /\ Writes(t, NextIn(r.node), "relaxed", r.tmp) /\ Goes(t, "tail")
  \/ /\ pc[t] = "tail"
     /\ Reads(t, "tail", "acquire", LAMBDA v : GoesWith(t, "next", [r EXCEPT !.tail = v]))
  \/ /\ pc[t] = "next"
     /\ Reads(t, next, "acquire", LAMBDA v : GoesWith(t, "again", [r EXCEPT !.next = v]))
  \/ /\ pc[t] = "again"
     /\ Reads(t, "tail", "relaxed",
              LAMBDA v : MsGoes(t, IF v # r.tail THEN "tail"
                                   ELSE CASE Ptr(r.next) = POISON_IDX -> "failed"
                                          [] Ptr(r.next) = 0 -> "link"
                                          [] OTHER -> "other", r,
                                [Q EXCEPT !.blind = @ \/ (v = r.tail /\ v # Latest("tail"))]))
  \/ /\ pc[t] = "link"
     /\ \/ /\ Succeeds(t, next, r.next, Link(r.node, r.next), "release")
           /\ MsGoes(t, "swing", r, [Q EXCEPT !.linked = Append(@, Q.value[r.node])])
        \/ Fails(t, next, r.next, "relaxed") /\ Goes(t, "other")
  \/ /\ pc[t] = "other"
     /\ Reads(t, next, "acquire", LAMBDA v : GoesWith(t, "help", [r EXCEPT !.tmp = v]))
  \/ pc[t] = "help" /\ Swings(t, Ptr(r.tmp)) /\ Goes(t, "tail")
  \/ pc[t] = "swing" /\ Swings(t, r.node) /\ Returns(t, r, Q)

\* dequeue()
MsDequeue(t) ==
  LET r == regs[t] IN
  \/ /\ pc[t] = "deq"
     /\ Reads(t, "head", "acquire", LAMBDA v : GoesWith(t, "deqTail", [r EXCEPT !.head = v]))
  \/ /\ pc[t] = "deqTail"
     /\ Reads(t, "tail", "relaxed", LAMBDA v : GoesWith(t, "deqNext", [r EXCEPT !.tail = v]))
  \/ /\ pc[t] = "deqNext"
     /\ Reads(t, NextIn(Ptr(r.head)), "acquire",
              LAMBDA v : GoesWith(t, "deqAgain", [r EXCEPT !.next = v]))
  \/ /\ pc[t] = "deqAgain"
     /\ Reads(t, "head", "relaxed",
              LAMBDA v : IF v # r.head THEN Goes(t, "deq")
                         ELSE IF Ptr(r.head) # Ptr(r.tail)
                         THEN MsGoes(t, "value", r, [Q EXCEPT !.blind = @ \/ Ptr(r.next) = 0])
                         ELSE CASE Ptr(r.next) = POISON_IDX -> Goes(t, "failed")
                                [] Ptr(r.next) = 0 -> Returns(t, [r EXCEPT !.got = Append(@, 0)], Q)
                                [] OTHER -> Goes(t, "deqHelp"))
  \/ pc[t] = "deqHelp" /\ Swings(t, Ptr(r.next)) /\ Goes(t, "deq")
  \/ /\ pc[t] = "value"
     /\ Accesses(t, Ptr(r.next), FALSE)
     /\ GoesWith(t, "unlink", [r EXCEPT !.ret = Q.value[Ptr(r.next)]])
  \/ /\ pc[t] = "unlink"
     /\ \/ /\ Succeeds(t, "head", r.head, Link(Ptr(r.next), r.head), "release")
           /\ MsReclaim(t, [r EXCEPT !.got = Append(@, r.ret)],
                        [Q EXCEPT !.unlinked = Append(@, r.ret)], Ptr(r.head))
        \/ Fails(t, "head", r.head, "relaxed") /\ Goes(t, "deq")

MsStep(t) == MsNew(t) \/ MsEnqueue(t) \/ MsDequeue(t)

-----------------------------------------------------------------------------

\* Values leave the queue in the order they came in; a thread that enqueued finds
\* it non-empty; no assertion of the code fails, head and tail are never null and
\* nobody races for a node's value. So it is with the client of main.cc, and with
\* the others as long as no thread is blind: an enqueue whose second, relaxed look
\* at tail gives it a tail that was replaced may link to a node that was dequeued
\* and used again; a dequeue that reads tail relaxed may know that head has a
\* successor, not find it, and make head null.
MsFifo ==
  regs[Main].client = mainC \/ ~Q.blind =>
    /\ IsPrefix(Q.unlinked, Q.linked)
    /\ 0 \notin {Ptr(Latest("head")), Ptr(Latest("tail"))}
    /\ raced = {}
    /\ \A t \in Two : pc[t] # "failed" /\ ("enq" \in ToSet(Calls(t)) => 0 \notin ToSet(regs[t].got))
=============================================================================
