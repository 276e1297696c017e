---------------------------- MODULE ChaseLevDeque ----------------------------
(***************************************************************************)
(* chase-lev-deque/: the owner pushes and takes at the bottom of a deque,  *)
(* a thief steals at its top. The arrays are numbered in the order of      *)
(* their allocation, the second by resize(); calloc() fills both with      *)
(* zeros. What only the owner writes (bottom, array, size, the buffers),   *)
(* it reads as it last wrote it. Numbers of type size_t: -1 is SIZE_MAX.   *)
(***************************************************************************)
EXTENDS Programs

EMPTY == -1 \* 0xffffffff as an int
ABORT == -2 \* 0xfffffffe as an int
Size == << "size1", "size2" >>
Slots == << << "a0", "a1" >>, << "b0", "b1", "b2", "b3" >> >>
Slot(a, i) == Slots[a][i + 1]
Below(m, n) == m # -1 /\ (n = -1 \/ m < n)

\* What the owner does: push x > 0, take 0; and how often the thief steals. The
\* first client is main.cc; the second is short enough for both to want the last
\* element; the third takes from a deque that was never filled.
mainCc == [ops |-> << 1, 2, 4, 0, 0 >>, steals |-> 1]
DequeClients == {mainCc, [ops |-> << 1, 2, 0, 0 >>, steals |-> 2], [ops |-> << 0 >>, steals |-> 1]}

Pushed(ops) == SelectSeq(ops, LAMBDA x : x > 0)

\* create(). b, t, a, n, x, i: the locals of the code, for the call the thread is
\* in. got: what its takes or steals returned. resized: the owner's epoch when it
\* stored the new array. blind: the thief found that array without knowing what
\* the owner did before. under: the owner took 1 from a bottom of 0.
DequeInit ==
  \E c \in DequeClients :
    StartWith([x \in {"top", "bottom", "size2"} \cup ToSet(Slots[1]) \cup ToSet(Slots[2]) |-> 0]
                @@ [array |-> 1, size1 |-> 2],
              [t \in Tid |-> CASE t = Main -> IF c.ops[1] = 0 THEN "take" ELSE "push"
                               [] t = Second -> "steal" [] OTHER -> "done"],
              [client |-> c, calls |-> 1, b |-> 0, t |-> 0, a |-> 1, n |-> 0, x |-> 0, i |-> 0,
               got |-> << >>, resized |-> 0, blind |-> FALSE, under |-> FALSE], {})

\* The owner's next call, once its locals are r.
NextCall(r) ==
  LET k == r.calls + 1
      ops == r.client.ops
  IN  GoesWith(Main, IF k > Len(ops) THEN "done" ELSE IF ops[k] = 0 THEN "take" ELSE "push",
                     [r EXCEPT !.calls = k])

Array == Latest("array")
ArraySize == Latest(Size[Array])
Op == regs[Main].client.ops[regs[Main].calls]

\* push()
DequePush ==
  LET r == regs[Main] IN
  \/ /\ pc[Main] = "push"
     /\ LET b == Latest("bottom")
        IN  Reads(Main, "top", "acquire",
                  LAMBDA t : GoesWith(Main, IF b - t \in 0..ArraySize - 1 THEN "slot" ELSE "resize",
                                            [r EXCEPT !.b = b]))
  \/ pc[Main] = "slot" /\ Writes(Main, Slot(Array, r.b % ArraySize), "relaxed", Op) /\ Goes(Main, "fence")
  \/ pc[Main] = "fence" /\ Orders(Main, "release") /\ Goes(Main, "bottom")
  \/ pc[Main] = "bottom" /\ Writes(Main, "bottom", "relaxed", r.b + 1) /\ NextCall(r)

\* Mutant of AllCopied: the loop of resize() ends one element early.
AllCopiedButOne(i, bottom) == i + 1 >= bottom

\* The end of the loop of resize(), at the element i.
AllCopied(i, bottom) == i >= bottom

\* resize()
DequeResize ==
  LET r == regs[Main] IN
  \/ /\ pc[Main] = "resize"
     /\ Reads(Main, "top", "relaxed", LAMBDA t : GoesWith(Main, "size", [r EXCEPT !.i = t]))
  \/ /\ pc[Main] = "size"
     /\ Writes(Main, Size[Array + 1], "relaxed", 2 * ArraySize)
     /\ Goes(Main, IF AllCopied(r.i, r.b) THEN "array" ELSE "copy")
  \/ /\ pc[Main] = "copy"
     /\ Writes(Main, Slot(Array + 1, r.i % (2 * ArraySize)), "relaxed",
               Latest(Slot(Array, r.i % ArraySize)))
     /\ GoesWith(Main, IF AllCopied(r.i + 1, r.b) THEN "array" ELSE "copy", [r EXCEPT !.i = @ + 1])
  \/ /\ pc[Main] = "array"
     /\ Writes(Main, "array", "relaxed", Array + 1)
     /\ GoesWith(Main, "slot", [r EXCEPT !.resized = thr[Main].epoch + 1])

\* Mutant of DequeTakeFence: the fence is no SC fence.
DequeTakeWeak == pc[Main] = "order" /\ Orders(Main, "acq_rel") /\ Goes(Main, "top")

\* The fence of take(), between its store to bottom and its load of top.
DequeTakeFence == pc[Main] = "order" /\ Orders(Main, "seq_cst") /\ Goes(Main, "top")

\* take()
DequeTake ==
  LET r == regs[Main]
      Took(x) == [r EXCEPT !.x = x, !.got = Append(@, x)]
  IN
  \/ /\ pc[Main] = "take"
     /\ Writes(Main, "bottom", "relaxed", Latest("bottom") - 1)
     /\ GoesWith(Main, "order", [r EXCEPT !.b = Latest("bottom") - 1,
                                          !.under = Latest("bottom") = 0])
  \/ DequeTakeFence
  \/ /\ pc[Main] = "top"
     /\ Reads(Main, "top", "relaxed",
              LAMBDA t : IF Below(r.b, t) THEN GoesWith(Main, "restore", Took(EMPTY))
                         ELSE IF t = r.b THEN GoesWith(Main, "cas", [r EXCEPT !.t = t])
                         ELSE NextCall(Took(Latest(Slot(Array, r.b % ArraySize)))))
  \/ /\ pc[Main] = "cas"
     /\ \/ /\ Succeeds(Main, "top", r.t, r.t + 1, "seq_cst")
           /\ GoesWith(Main, "restore", Took(Latest(Slot(Array, r.b % ArraySize))))
        \/ Fails(Main, "top", r.t, "relaxed") /\ GoesWith(Main, "restore", Took(EMPTY))
  \/ pc[Main] = "restore" /\ Writes(Main, "bottom", "relaxed", r.b + 1) /\ NextCall(r)

\* steal() returns x; the thief steals again or is done.
Stole(r, x) ==
  GoesWith(Second, IF r.calls < r.client.steals THEN "steal" ELSE "done",
                   [r EXCEPT !.got = Append(@, x), !.calls = @ + 1])

DequeSteal ==
  LET r == regs[Second] IN
  \/ /\ pc[Second] = "steal"
     /\ Reads(Second, "top", "acquire", LAMBDA t : GoesWith(Second, "order", [r EXCEPT !.t = t]))
  \/ pc[Second] = "order" /\ Orders(Second, "seq_cst") /\ Goes(Second, "bottom")
  \/ /\ pc[Second] = "bottom"
     /\ Reads(Second, "bottom", "acquire",
              LAMBDA b : IF Below(r.t, b) THEN Goes(Second, "array") ELSE Stole(r, EMPTY))
  \/ /\ pc[Second] = "array"
     /\ Reads(Second, "array", "relaxed",
              LAMBDA a : GoesWith(Second, "size",
                           [r EXCEPT !.a = a, !.blind = @ \/ (a = 2 /\ thr[Second].clock[Main]
                                                                   < regs[Main].resized)]))
  \/ /\ pc[Second] = "size"
     /\ Reads(Second, Size[r.a], "relaxed",
              LAMBDA n : GoesWith(Second, IF n = 0 THEN "crashed" ELSE "slot", [r EXCEPT !.n = n]))
  \/ /\ pc[Second] = "slot"
     /\ Reads(Second, Slot(r.a, r.t % r.n), "relaxed",
              LAMBDA x : GoesWith(Second, "cas", [r EXCEPT !.x = x]))
  \/ /\ pc[Second] = "cas"
     /\ \/ Succeeds(Second, "top", r.t, r.t + 1, "seq_cst") /\ Stole(r, r.x)
        \/ Fails(Second, "top", r.t, "relaxed") /\ Stole(r, ABORT)

DequeStep(t) ==
  \/ t = Main /\ (DequePush \/ DequeResize \/ DequeTake)
  \/ t = Second /\ DequeSteal

-----------------------------------------------------------------------------

Got(x) == {<<t, k>> \in Two \X (1..2) : k <= Len(regs[t].got) /\ regs[t].got[k] = x}

\* No element is taken or stolen twice, though both ends may want the last one
\* and each reads the other's end relaxed, between two SC fences.
DequeOnce == \A x \in {1, 2, 4} : Cardinality(Got(x)) <= 1

\* What main.cc asserts at its end.
DequeAssertion ==
  LET a == regs[Second].got[1]
      b == regs[Main].got[1]
      c == regs[Main].got[2]
      few == {1, 2, 4, EMPTY}
  IN  /\ a \in few /\ b \in few /\ (c \in few \ {EMPTY} \/ a = EMPTY)
      /\ EMPTY \notin {a, b, c} => a + b + c = 7

\* A thief that finds the array of a resize knows, unless it is blind, what the
\* owner wrote into it: else it divides by a size of 0, or steals what was never
\* pushed, and the assertion of main.cc fails. Nobody else gets such elements,
\* unless a take sent bottom below 0.
DequeResults ==
  ~regs[Second].blind /\ ~regs[Main].under =>
    /\ pc[Second] # "crashed"
    /\ \A t \in Two :
         ToSet(regs[t].got) \subseteq ToSet(Pushed(regs[t].client.ops)) \cup {EMPTY, ABORT}
    /\ regs[Main].client = mainCc /\ (\A t \in Two : pc[t] = "done") => DequeAssertion
=============================================================================
