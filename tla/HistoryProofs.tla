----------------------------- MODULE HistoryProofs -----------------------------
(***************************************************************************)
(* Proofs about what the clocks of Tsan11 stand for: a clock that knows an *)
(* epoch of a thread knows all the thread knew when it reached the epoch.  *)
(* For any threads, locations, orders and size of the buffer.              *)
(***************************************************************************)
EXTENDS StoreBufferProofs, SequenceTheorems

\* The views, and what a thread publishes with an epoch.
Views == [Loc -> [seen : Nat, wrote : SUBSET Nat]]

Publications == [view : Views, clock : Clock]

\* A view of stores that were made.
Within(l, v) ==
  \A x \in Loc : v[x].seen <= End(l[x].buf) /\ \A w \in v[x].wrote : w <= End(l[x].buf)

IsHistory(h) ==
  h = [view |-> h.view, past |-> h.past, own |-> h.own, fenced |-> h.fenced,
       floor |-> h.floor, sc |-> h.sc, scPast |-> h.scPast]

\* The views and what was published: one publication for each epoch.
HistoryIn(h, th, l) ==
  /\ h.view \in [Tid -> Views] /\ \A t \in Tid : Within(l, h.view[t])
  /\ h.past \in [Tid -> Seq(Publications)]
  /\ \A t \in Tid : /\ Len(h.past[t]) = th[t].epoch
                    /\ \A e \in 1..th[t].epoch : Within(l, h.past[t][e].view)

\* The clocks that know all of what they stand for, and nothing of a thread that
\* does not exist yet or of an epoch that it has not reached.
Closed(past, c) ==
  \A u \in Tid : c[u] \in DOMAIN past[u] => Leq(past[u][c[u]].clock, c)

Reached(th, c) ==
  \A u \in Tid : IF th[u].status = "invalid" THEN c[u] = 0 ELSE c[u] <= th[u].epoch

GoodClocks(th, past) == {c \in Clock : Reached(th, c) /\ Closed(past, c)}

\* What a thread published last is in its clock, and a thread that does not exist
\* yet has published its first epoch only.
Published(th, past) ==
  \A t \in Tid : /\ th[t].epoch >= 1 /\ Leq(past[t][th[t].epoch].clock, th[t].clock)
                 /\ th[t].status = "invalid" =>
                      th[t].epoch = 1 /\ th[t].clock = Raised(Zero, t, 1)

HistInv(h, th, l) == IsHistory(h) /\ HistoryIn(h, th, l) /\ Published(th, h.past)

\* The clocks of a state know all of what they stand for.
GoodInv == ClocksIn(GoodClocks(thr, hist.past)) /\ HistInv(hist, thr, loc)

-----------------------------------------------------------------------------
(* The history. *)

\* A sequence with an element more.
LEMMA AppendFacts ==
  ASSUME NEW S, NEW s \in Seq(S), NEW e \in S
  PROVE  /\ Append(s, e) \in Seq(S) /\ Len(Append(s, e)) = Len(s) + 1
         /\ Append(s, e)[Len(s) + 1] = e
         /\ \A i \in 1..Len(s) : Append(s, e)[i] = s[i]
         /\ DOMAIN s = 1..Len(s) /\ Len(s) \in Nat
BY AppendProperties, LenProperties

\* What is learnt comes from the thread's own view or from what was published with
\* an epoch that the clock knows.
LEMMA LearnFacts ==
  ASSUME NEW l, HistoryIn(hist, thr, l), NEW v \in Views, Within(l, v), NEW c \in Clock,
         \A x \in Loc : End(l[x].buf) \in Nat
  PROVE  /\ Learn(v, c) \in Views /\ Within(l, Learn(v, c))
         /\ \A x \in Loc :
              /\ \A w \in Learn(v, c)[x].wrote :
                   \/ w \in v[x].wrote
                   \/ \E u \in Tid : /\ c[u] \in DOMAIN hist.past[u]
                                     /\ w \in hist.past[u][c[u]].view[x].wrote
              /\ \/ Learn(v, c)[x].seen = v[x].seen
                 \/ \E u \in Tid : /\ c[u] \in DOMAIN hist.past[u]
                                   /\ Learn(v, c)[x].seen = hist.past[u][c[u]].view[x].seen
              /\ v[x].wrote \subseteq Learn(v, c)[x].wrote
<1> DEFINE knows == {u \in Tid : c[u] \in DOMAIN hist.past[u]}
           Known(x) == {v[x]} \cup {hist.past[u][c[u]].view[x] : u \in knows}
           seen(x) == Max({k.seen : k \in Known(x)})
           wrote(x) == UNION {k.wrote : k \in Known(x)}
<1>1. Learn(v, c) = [x \in Loc |-> [seen |-> seen(x), wrote |-> wrote(x)]]
  BY DEF Learn
<1>2. ASSUME NEW u \in knows
      PROVE  hist.past[u][c[u]].view \in Views /\ Within(l, hist.past[u][c[u]].view)
  <2>1. u \in Tid /\ c[u] \in DOMAIN hist.past[u] /\ hist.past[u] \in Seq(Publications)
        /\ Len(hist.past[u]) = thr[u].epoch
    BY DEF HistoryIn
  <2>2. DOMAIN hist.past[u] = 1..thr[u].epoch /\ hist.past[u][c[u]] \in Publications
    BY <2>1
  <2> QED
    BY <2>1, <2>2 DEF HistoryIn, Publications
<1>3. ASSUME NEW x \in Loc, NEW k \in Known(x)
      PROVE  /\ k.seen \in Nat /\ k.wrote \in SUBSET Nat
             /\ k.seen <= End(l[x].buf) /\ \A w \in k.wrote : w <= End(l[x].buf)
             /\ k = v[x] \/ \E u \in Tid : /\ c[u] \in DOMAIN hist.past[u]
                                           /\ k = hist.past[u][c[u]].view[x]
  <2>1. CASE k = v[x]
    BY <2>1 DEF Views, Within
  <2>2. ASSUME NEW u \in knows, k = hist.past[u][c[u]].view[x]
        PROVE  /\ k.seen \in Nat /\ k.wrote \in SUBSET Nat
               /\ k.seen <= End(l[x].buf) /\ \A w \in k.wrote : w <= End(l[x].buf)
    BY <1>2, <2>2 DEF Views, Within
  <2> QED
    BY <2>1, <2>2
<1>4. ASSUME NEW x \in Loc
      PROVE  /\ seen(x) \in Nat /\ seen(x) <= End(l[x].buf)
             /\ \E k \in Known(x) : seen(x) = k.seen
  <2> DEFINE S == {k.seen : k \in Known(x)}
  <2>1. S \in SUBSET Nat /\ S # {} /\ \A s \in S : s <= End(l[x].buf)
    BY <1>3
  <2>2. seen(x) = Max(S)
    OBVIOUS
  <2> HIDE DEF seen
  <2>3. Max(S) \in S
    <3> HIDE DEF S
    <3> QED
      BY <2>1, MaxFacts
  <2> QED
    BY <2>1, <2>2, <2>3
<1>5. ASSUME NEW x \in Loc
      PROVE  /\ wrote(x) \in SUBSET Nat /\ \A w \in wrote(x) : w <= End(l[x].buf)
             /\ \A w \in wrote(x) : \E k \in Known(x) : w \in k.wrote
             /\ v[x].wrote \subseteq wrote(x)
  BY <1>3
<1> HIDE DEF seen, wrote, Known, knows
<1>6. \A x \in Loc : Learn(v, c)[x].seen = seen(x) /\ Learn(v, c)[x].wrote = wrote(x)
  BY <1>1
<1>7. Learn(v, c) \in Views
  BY <1>1, <1>4, <1>5 DEF Views
<1>8. Within(l, Learn(v, c))
  BY <1>4, <1>5, <1>6 DEF Within
<1>9. ASSUME NEW x \in Loc
      PROVE  /\ \A w \in Learn(v, c)[x].wrote :
                  \/ w \in v[x].wrote
                  \/ \E u \in Tid : /\ c[u] \in DOMAIN hist.past[u]
                                    /\ w \in hist.past[u][c[u]].view[x].wrote
             /\ \/ Learn(v, c)[x].seen = v[x].seen
                \/ \E u \in Tid : /\ c[u] \in DOMAIN hist.past[u]
                                  /\ Learn(v, c)[x].seen = hist.past[u][c[u]].view[x].seen
             /\ v[x].wrote \subseteq Learn(v, c)[x].wrote
  BY <1>3, <1>4, <1>5, <1>6
<1> QED
  BY <1>7, <1>8, <1>9

\* What a step that ends an epoch leaves: the publication of view v and clock c.
Publishes(past, t, v, c) ==
  [past EXCEPT ![t] = Append(@, [view |-> v, clock |-> c])]

\* The fields of the history that SC operations are about.
SameOrder(r, h) ==
  r.own = h.own /\ r.fenced = h.fenced /\ r.floor = h.floor /\ r.sc = h.sc /\ r.scPast = h.scPast

\* What Publish makes of each part of the history.
LEMMA PublishFacts ==
  ASSUME NEW h, IsHistory(h), NEW th, NEW v, NEW r, r = Publish(h, th, v)
  PROVE  /\ IsHistory(r) /\ SameOrder(r, h)
         /\ r.view = [h.view EXCEPT ![th.tid] = v]
         /\ r.past = Publishes(h.past, th.tid, v, th.clock)
<1> DEFINE nv == [h.view EXCEPT ![th.tid] = v]
           np == Publishes(h.past, th.tid, v, th.clock)
<1>1. r = [[h EXCEPT !.view = nv] EXCEPT !.past = np]
  BY DEF Publish, Publishes, IsHistory
<1> HIDE DEF nv, np
<1>2. r = [view |-> nv, past |-> np, own |-> h.own, fenced |-> h.fenced,
           floor |-> h.floor, sc |-> h.sc, scPast |-> h.scPast]
  BY <1>1 DEF IsHistory
<1>3. r.view = nv /\ r.past = np /\ IsHistory(r) /\ SameOrder(r, h)
  BY <1>2 DEF IsHistory, SameOrder
<1> QED
  BY <1>3 DEF nv, np

\* A view that is set.
ViewSet(h, t, v) == [h EXCEPT !.view[t] = v]

\* Setting the view of a thread changes nothing else.
LEMMA ViewSetFacts ==
  ASSUME NEW h, IsHistory(h), NEW t \in Tid, NEW v, NEW r, r = ViewSet(h, t, v)
  PROVE  /\ IsHistory(r) /\ SameOrder(r, h) /\ r.past = h.past
         /\ r.view = [h.view EXCEPT ![t] = v]
<1> DEFINE nv == [h.view EXCEPT ![t] = v]
<1>1. r = [h EXCEPT !.view = nv]
  BY DEF ViewSet
<1> HIDE DEF nv
<1>2. r = [view |-> nv, past |-> h.past, own |-> h.own, fenced |-> h.fenced,
           floor |-> h.floor, sc |-> h.sc, scPast |-> h.scPast]
  BY <1>1 DEF IsHistory
<1>3. r.view = nv /\ r.past = h.past /\ IsHistory(r) /\ SameOrder(r, h)
  BY <1>2 DEF IsHistory, SameOrder
<1> QED
  BY <1>3 DEF nv

\* The view v with the store at p of x.
WithStore(v, x, p) == [v EXCEPT ![x] = [seen |-> p, wrote |-> @.wrote \cup {p}]]

\* The view v with the read of p of x.
WithRead(v, x, p) == [v EXCEPT ![x].seen = Later(@, p)]

\* What HistStore makes of each part of the history.
LEMMA HistStoreFacts ==
  ASSUME IsHistory(hist), NEW th, NEW t \in Tid, th.tid = t, NEW x \in Loc, NEW p, NEW mo,
         NEW v, v = Learn(hist.view[t], th.clock),
         NEW r, r = HistStore(th, x, p, mo)
  PROVE  /\ IsHistory(r)
         /\ r.view = [hist.view EXCEPT ![t] = WithStore(v, x, p)]
         /\ r.past = Publishes(hist.past, t, WithStore(v, x, p), th.clock)
         /\ r.own = [hist.own EXCEPT ![t][x] = p]
         /\ r.fenced = hist.fenced /\ r.floor = hist.floor
         /\ r.sc = IF mo = "seq_cst" THEN [hist.sc EXCEPT ![x] = @ \cup {p}] ELSE hist.sc
         /\ r.scPast = IF mo = "seq_cst" THEN [hist.scPast EXCEPT ![x] = v[x].wrote]
                                         ELSE hist.scPast
<1> DEFINE nv == WithStore(v, x, p)
           h == Publish(hist, th, nv)
           o == [h.own EXCEPT ![t][x] = p]
           s == [h.sc EXCEPT ![x] = @ \cup {p}]
           q == [h.scPast EXCEPT ![x] = v[x].wrote]
<1>1. r = IF mo = "seq_cst"
          THEN [h EXCEPT !.own[t][x] = p, !.sc[x] = @ \cup {p}, !.scPast[x] = v[x].wrote]
          ELSE [h EXCEPT !.own[t][x] = p]
  BY DEF HistStore, WithStore
<1>2. /\ IsHistory(h) /\ h.view = [hist.view EXCEPT ![t] = nv]
      /\ h.past = Publishes(hist.past, t, nv, th.clock)
      /\ h.own = hist.own /\ h.fenced = hist.fenced /\ h.floor = hist.floor
      /\ h.sc = hist.sc /\ h.scPast = hist.scPast
  BY PublishFacts DEF SameOrder
<1> HIDE DEF nv, h
<1>3. /\ [h EXCEPT !.own[t][x] = p] = [h EXCEPT !.own = o]
      /\ [h EXCEPT !.own[t][x] = p, !.sc[x] = @ \cup {p}, !.scPast[x] = v[x].wrote]
           = [[[h EXCEPT !.own = o] EXCEPT !.sc = s] EXCEPT !.scPast = q]
  BY <1>2 DEF IsHistory
<1> HIDE DEF o, s, q
<1>4. [h EXCEPT !.own = o]
        = [view |-> h.view, past |-> h.past, own |-> o, fenced |-> h.fenced,
           floor |-> h.floor, sc |-> h.sc, scPast |-> h.scPast]
  BY <1>2 DEF IsHistory
<1>5. [[[h EXCEPT !.own = o] EXCEPT !.sc = s] EXCEPT !.scPast = q]
        = [view |-> h.view, past |-> h.past, own |-> o, fenced |-> h.fenced,
           floor |-> h.floor, sc |-> s, scPast |-> q]
  <2> DEFINE m == [view |-> h.view, past |-> h.past, own |-> o, fenced |-> h.fenced,
                   floor |-> h.floor, sc |-> h.sc, scPast |-> h.scPast]
             n == [view |-> h.view, past |-> h.past, own |-> o, fenced |-> h.fenced,
                   floor |-> h.floor, sc |-> s, scPast |-> h.scPast]
  <2>1. [m EXCEPT !.sc = s] = n
    OBVIOUS
  <2>2. [n EXCEPT !.scPast = q]
          = [view |-> h.view, past |-> h.past, own |-> o, fenced |-> h.fenced,
             floor |-> h.floor, sc |-> s, scPast |-> q]
    OBVIOUS
  <2>3. [h EXCEPT !.own = o] = m
    BY <1>4
  <2> HIDE DEF m, n
  <2> QED
    BY <2>1, <2>2, <2>3
<1>6. r = IF mo = "seq_cst"
          THEN [view |-> h.view, past |-> h.past, own |-> o, fenced |-> h.fenced,
                floor |-> h.floor, sc |-> s, scPast |-> q]
          ELSE [view |-> h.view, past |-> h.past, own |-> o, fenced |-> h.fenced,
                floor |-> h.floor, sc |-> h.sc, scPast |-> h.scPast]
  BY <1>1, <1>3, <1>4, <1>5
<1>7. /\ IsHistory(r) /\ r.view = h.view /\ r.past = h.past /\ r.own = o
      /\ r.fenced = h.fenced /\ r.floor = h.floor
      /\ r.sc = IF mo = "seq_cst" THEN s ELSE h.sc
      /\ r.scPast = IF mo = "seq_cst" THEN q ELSE h.scPast
  BY <1>6 DEF IsHistory
<1>8. o = [hist.own EXCEPT ![t][x] = p] /\ s = [hist.sc EXCEPT ![x] = @ \cup {p}]
      /\ q = [hist.scPast EXCEPT ![x] = v[x].wrote]
  BY <1>2 DEF o, s, q
<1> QED
  BY <1>2, <1>7, <1>8 DEF nv

\* What an SC fence of t makes of fenced and floor.
FencedNow(h, t) == [x \in Loc |-> Later(h.fenced[x], h.own[t][x])]

FloorNow(h, t) ==
  [h.floor EXCEPT ![t] = [x \in Loc |-> Max({@[x], FencedNow(h, t)[x]} \cup h.sc[x])]]

\* What HistFence makes of each part of the history.
LEMMA HistFenceFacts ==
  ASSUME NEW h, IsHistory(h), NEW t \in Tid, NEW r, r = HistFence(h, t)
  PROVE  /\ IsHistory(r) /\ r.view = h.view /\ r.past = h.past /\ r.own = h.own
         /\ r.sc = h.sc /\ r.scPast = h.scPast
         /\ r.fenced = FencedNow(h, t) /\ r.floor = FloorNow(h, t)
<1> DEFINE f == FencedNow(h, t)
           g == FloorNow(h, t)
<1>1. r = [[h EXCEPT !.fenced = f] EXCEPT !.floor = g]
  BY DEF HistFence, IsHistory, FencedNow, FloorNow
<1> HIDE DEF f, g
<1>2. r = [view |-> h.view, past |-> h.past, own |-> h.own, fenced |-> f,
           floor |-> g, sc |-> h.sc, scPast |-> h.scPast]
  BY <1>1 DEF IsHistory
<1>3. r.floor = g
  BY <1>2
<1> QED
  BY <1>2, <1>3 DEF IsHistory, f, g

-----------------------------------------------------------------------------
(* Clocks that know all of what they stand for. *)

\* The publications, as far as clocks are concerned.
PastIn(th, past) ==
  past \in [Tid -> Seq(Publications)] /\ \A u \in Tid : Len(past[u]) = th[u].epoch

\* Threads stay created, and what they published stays.
Extends(th, past, th2, past2) ==
  \A u \in Tid : th[u].status # "invalid" =>
    /\ th2[u].status # "invalid" /\ th[u].epoch <= th2[u].epoch
    /\ \A i \in 1..th[u].epoch : past2[u][i] = past[u][i]

\* What one thread published.
LEMMA PastFacts ==
  ASSUME NEW th, NEW past, PastIn(th, past), NEW u \in Tid
  PROVE  /\ th[u].epoch \in Nat /\ DOMAIN past[u] = 1..th[u].epoch
         /\ \A i \in DOMAIN past[u] : i >= 1 /\ past[u][i].clock \in Clock
<1>1. past[u] \in Seq(Publications) /\ Len(past[u]) = th[u].epoch
  BY DEF PastIn
<1>2. DOMAIN past[u] = 1..Len(past[u]) /\ Len(past[u]) \in Nat
      /\ \A i \in DOMAIN past[u] : past[u][i] \in Publications
  BY <1>1
<1> QED
  BY <1>1, <1>2 DEF Publications

\* They are a lattice.
LEMMA GoodLattice ==
  ASSUME NEW th, NEW past, PastIn(th, past)
  PROVE  Lattice(GoodClocks(th, past))
<1> DEFINE G == GoodClocks(th, past)
<1>1. G \subseteq Clock
  BY DEF GoodClocks
<1>2. Zero \in G
  <2>1. Zero \in Clock /\ \A u \in Tid : Zero[u] = 0
    BY ClockFacts DEF Zero
  <2>2. ASSUME NEW u \in Tid
        PROVE  /\ IF th[u].status = "invalid" THEN Zero[u] = 0 ELSE Zero[u] <= th[u].epoch
               /\ Zero[u] \notin DOMAIN past[u]
    BY <2>1, PastFacts
  <2> QED
    BY <2>1, <2>2 DEF GoodClocks, Reached, Closed
<1>3. ASSUME NEW a \in G, NEW b \in G PROVE Join(a, b) \in G
  <2> DEFINE j == Join(a, b)
  <2>1. a \in Clock /\ b \in Clock /\ j \in Clock /\ Leq(a, j) /\ Leq(b, j)
    BY <1>1, ClockFacts
  <2>2. \A u \in Tid : j[u] = a[u] \/ j[u] = b[u]
    BY <2>1 DEF Join
  <2> HIDE DEF j
  <2>3. Reached(th, j)
    BY <2>2 DEF GoodClocks, Reached
  <2>4. ASSUME NEW u \in Tid, j[u] \in DOMAIN past[u] PROVE Leq(past[u][j[u]].clock, j)
    <3>1. past[u][j[u]].clock \in Clock
      BY <2>4, PastFacts
    <3>2. CASE j[u] = a[u]
      <4>1. Leq(past[u][j[u]].clock, a)
        BY <2>4, <3>2 DEF GoodClocks, Closed
      <4> QED
        BY <2>1, <3>1, <4>1, LeqTransitive
    <3>3. CASE j[u] = b[u]
      <4>1. Leq(past[u][j[u]].clock, b)
        BY <2>4, <3>3 DEF GoodClocks, Closed
      <4> QED
        BY <2>1, <3>1, <4>1, LeqTransitive
    <3> QED
      BY <2>2, <3>2, <3>3
  <2>5. j \in G
    BY <2>1, <2>3, <2>4 DEF GoodClocks, Closed
  <2> QED
    BY <2>5 DEF j
<1> QED
  BY <1>1, <1>2, <1>3 DEF Lattice

\* A good clock stays good.
LEMMA GoodStays ==
  ASSUME NEW th, NEW past, PastIn(th, past), NEW th2, NEW past2, PastIn(th2, past2),
         Extends(th, past, th2, past2)
  PROVE  GoodClocks(th, past) \subseteq GoodClocks(th2, past2)
<1> SUFFICES ASSUME NEW c \in GoodClocks(th, past) PROVE c \in GoodClocks(th2, past2)
  OBVIOUS
<1>1. c \in Clock /\ Reached(th, c) /\ Closed(past, c)
  BY DEF GoodClocks
<1>2. ASSUME NEW u \in Tid
      PROVE  /\ IF th2[u].status = "invalid" THEN c[u] = 0 ELSE c[u] <= th2[u].epoch
             /\ c[u] \in DOMAIN past2[u] => Leq(past2[u][c[u]].clock, c)
  <2>1. c[u] \in Nat
    BY <1>1 DEF Clock
  <2>2. th[u].epoch \in Nat /\ DOMAIN past[u] = 1..th[u].epoch
        /\ th2[u].epoch \in Nat /\ DOMAIN past2[u] = 1..th2[u].epoch
    BY PastFacts
  <2>3. CASE th[u].status = "invalid"
    BY <1>1, <2>1, <2>2, <2>3 DEF Reached
  <2>4. CASE th[u].status # "invalid"
    <3>1. c[u] <= th[u].epoch /\ th[u].epoch <= th2[u].epoch /\ th2[u].status # "invalid"
          /\ \A i \in 1..th[u].epoch : past2[u][i] = past[u][i]
      BY <1>1, <2>4 DEF Reached, Extends
    <3>2. ASSUME c[u] \in DOMAIN past2[u] PROVE Leq(past2[u][c[u]].clock, c)
      <4>1. c[u] \in 1..th[u].epoch
        BY <2>1, <2>2, <3>1, <3>2
      <4> QED
        BY <1>1, <2>2, <3>1, <4>1 DEF Closed
    <3> QED
      BY <2>1, <2>2, <3>1, <3>2
  <2> QED
    BY <2>3, <2>4
<1> QED
  BY <1>1, <1>2 DEF GoodClocks, Reached, Closed

\* A thread stamps its clock with its epoch and acquires a good clock: that is good
\* if it covers what the thread published with the epoch.
LEMMA AcquiredGood ==
  ASSUME NEW th, NEW past, PastIn(th, past), NEW t \in Tid, th[t].status # "invalid",
         NEW a \in GoodClocks(th, past), NEW d \in GoodClocks(th, past),
         NEW c, c = Join(Raised(a, t, th[t].epoch), d),
         Leq(past[t][th[t].epoch].clock, c)
  PROVE  c \in GoodClocks(th, past) /\ Leq(a, c)
<1> DEFINE e == th[t].epoch
           r == Raised(a, t, e)
<1>1. a \in Clock /\ d \in Clock
  BY DEF GoodClocks
<1>2. e \in Nat
  BY PastFacts
<1>3. a[t] <= e /\ d[t] <= e
  BY DEF GoodClocks, Reached
<1>4. r \in Clock /\ r[t] = e /\ (\A u \in Tid \ {t} : r[u] = a[u]) /\ Leq(a, r)
  BY <1>1, <1>2, <1>3, RaisedFacts
<1> HIDE DEF r
<1>5. c = Join(r, d)
  BY DEF r
<1>6. c \in Clock /\ Leq(r, c) /\ Leq(d, c)
  BY <1>1, <1>4, <1>5, ClockFacts
<1>7. Leq(a, c)
  BY <1>1, <1>4, <1>6, LeqTransitive
<1>8. c[t] = e /\ \A u \in Tid \ {t} : c[u] = a[u] \/ c[u] = d[u]
  <2>1. \A u \in Tid : c[u] = r[u] \/ c[u] = d[u]
    BY <1>5 DEF Join
  <2>2. c[t] \in Nat /\ r[t] <= c[t]
    BY <1>4, <1>6 DEF Leq, Clock
  <2> QED
    BY <1>2, <1>3, <1>4, <2>1, <2>2
<1>9. Reached(th, c)
  <2> SUFFICES ASSUME NEW u \in Tid
               PROVE  IF th[u].status = "invalid" THEN c[u] = 0 ELSE c[u] <= th[u].epoch
    BY DEF Reached
  <2>1. CASE u = t
    BY <1>2, <1>8, <2>1
  <2>2. CASE u # t
    BY <1>1, <1>8, <2>2 DEF GoodClocks, Reached
  <2> QED
    BY <2>1, <2>2
<1>10. ASSUME NEW u \in Tid, c[u] \in DOMAIN past[u] PROVE Leq(past[u][c[u]].clock, c)
  <2>1. past[u][c[u]].clock \in Clock
    BY <1>10, PastFacts
  <2>2. CASE u = t
    BY <1>8, <2>2
  <2>3. CASE u # t /\ c[u] = a[u]
    <3>1. Leq(past[u][c[u]].clock, a)
      BY <1>1, <1>10, <2>3 DEF GoodClocks, Closed
    <3> QED
      BY <1>1, <1>6, <1>7, <2>1, <3>1, LeqTransitive
  <2>4. CASE u # t /\ c[u] = d[u]
    <3>1. Leq(past[u][c[u]].clock, d)
      BY <1>1, <1>10, <2>4 DEF GoodClocks, Closed
    <3> QED
      BY <1>1, <1>6, <2>1, <3>1, LeqTransitive
  <2> QED
    BY <1>8, <2>2, <2>3, <2>4
<1> QED
  BY <1>6, <1>7, <1>9, <1>10 DEF GoodClocks, Closed

\* More clocks.
LEMMA ClocksInMore ==
  ASSUME NEW G, NEW H, G \subseteq H, ClocksIn(G)
  PROVE  ClocksIn(H)
<1>1. ThreadStates(G) \subseteq ThreadStates(H)
  BY DEF ThreadStates
<1>2. StoreElems(G) \subseteq StoreElems(H)
  BY DEF StoreElems
<1>3. Buffers(G) \subseteq Buffers(H)
  <2> SUFFICES ASSUME NEW b \in Buffers(G) PROVE b \in Buffers(H)
    OBVIOUS
  <2>1. PICK S \in SUBSET Nat : b.stores \in [S -> StoreElems(G)]
    BY DEF Buffers
  <2>2. b.stores \in [S -> StoreElems(H)]
    BY <1>2, <2>1
  <2>3. b.stores \in UNION {[T -> StoreElems(H)] : T \in SUBSET Nat}
    BY <2>2
  <2> QED
    BY <2>3 DEF Buffers
<1>4. SyncClocks(G) \subseteq SyncClocks(H)
  BY DEF SyncClocks, Vvcs
<1>5. SyncVars(G) \subseteq SyncVars(H)
  BY <1>3, <1>4 DEF SyncVars
<1>6. ThreadsIn(H)
  BY <1>1 DEF ClocksIn, ThreadsIn
<1>7. LocationsIn(H)
  BY <1>5 DEF ClocksIn, LocationsIn
<1>8. MutexIn(H)
  BY DEF ClocksIn, MutexIn
<1> QED
  BY <1>6, <1>7, <1>8 DEF ClocksIn

-----------------------------------------------------------------------------
(* The steps of the history. *)

\* The latest store of no location goes back.
EndsGrow == \A x \in Loc : End(loc[x].buf) <= End(loc'[x].buf)

\* A step that keeps the history, and what is known of the past.
Kept ==
  HistInv(hist', thr', loc') /\ Extends(thr, hist.past, thr', hist'.past)

\* t enters an epoch, with which it publishes view pv and clock pc; its view is
\* then v.
Ticks(t, pv, pc, v) ==
  /\ thr'[t].epoch = thr[t].epoch + 1 /\ thr'[t].status # "invalid"
  /\ \A u \in Tid \ {t} : thr'[u] = thr[u]
  /\ pc \in Clock /\ Leq(pc, thr'[t].clock)
  /\ pv \in Views /\ Within(loc', pv) /\ v \in Views /\ Within(loc', v)
  /\ IsHistory(hist')
  /\ hist'.past = Publishes(hist.past, t, pv, pc)
  /\ hist'.view = [hist.view EXCEPT ![t] = v]

\* t learns, and only its view changes.
Learns(t, v) ==
  /\ v \in Views /\ Within(loc', v)
  /\ IsHistory(hist') /\ hist'.past = hist.past
  /\ hist'.view = [hist.view EXCEPT ![t] = v]

\* Views stay within the stores.
LEMMA WithinGrows ==
  ASSUME NEW l, NEW l2, NEW v \in Views, Within(l, v),
         \A x \in Loc : /\ End(l[x].buf) \in Nat /\ End(l2[x].buf) \in Nat
                        /\ End(l[x].buf) <= End(l2[x].buf)
  PROVE  Within(l2, v)
<1> SUFFICES ASSUME NEW x \in Loc
             PROVE  v[x].seen <= End(l2[x].buf) /\ \A w \in v[x].wrote : w <= End(l2[x].buf)
  BY DEF Within
<1>1. v[x].seen \in Nat /\ v[x].wrote \in SUBSET Nat
  BY DEF Views
<1>2. v[x].seen <= End(l[x].buf) /\ \A w \in v[x].wrote : w <= End(l[x].buf)
  BY DEF Within
<1> QED
  BY <1>1, <1>2

\* The ends are positions.
LEMMA EndsTyped ==
  ASSUME ClocksIn(Clock)
  PROVE  \A x \in Loc : End(loc[x].buf) \in Nat
<1> SUFFICES ASSUME NEW x \in Loc PROVE End(loc[x].buf) \in Nat
  OBVIOUS
<1>1. loc[x].buf \in Buffers(Clock)
  BY DEF ClocksIn, LocationsIn, SyncVars
<1> QED
  BY <1>1, BufferParts DEF End

\* The history of one thread.
PastOf(h, th, l, u) ==
  /\ Within(l, h.view[u]) /\ Len(h.past[u]) = th[u].epoch
  /\ \A e \in 1..th[u].epoch : Within(l, h.past[u][e].view)

\* The history is right if that of each thread is.
LEMMA PastOfThread ==
  ASSUME NEW h, NEW th, NEW l, h.view \in [Tid -> Views], h.past \in [Tid -> Seq(Publications)]
  PROVE  HistoryIn(h, th, l) <=> \A u \in Tid : PastOf(h, th, l, u)
BY DEF HistoryIn, PastOf

\* The history of a thread that the step does not touch.
LEMMA PastOfOthers ==
  ASSUME NEW l2, HistoryIn(hist, thr, loc),
         \A x \in Loc : /\ End(loc[x].buf) \in Nat /\ End(l2[x].buf) \in Nat
                        /\ End(loc[x].buf) <= End(l2[x].buf),
         NEW h2, NEW th2, NEW u \in Tid,
         h2.view[u] = hist.view[u], h2.past[u] = hist.past[u], th2[u].epoch = thr[u].epoch
  PROVE  PastOf(h2, th2, l2, u)
<1>1. /\ hist.view[u] \in Views /\ Within(loc, hist.view[u])
      /\ hist.past[u] \in Seq(Publications) /\ Len(hist.past[u]) = thr[u].epoch
      /\ \A e \in 1..thr[u].epoch : Within(loc, hist.past[u][e].view)
  BY DEF HistoryIn
<1>2. Within(l2, hist.view[u])
  BY <1>1, WithinGrows
<1>3. ASSUME NEW e \in 1..thr[u].epoch PROVE Within(l2, hist.past[u][e].view)
  <2>1. hist.past[u][e] \in Publications
    BY <1>1
  <2>2. hist.past[u][e].view \in Views
    BY <2>1 DEF Publications
  <2> QED
    BY <1>1, <2>2, WithinGrows
<1> QED
  BY <1>1, <1>2, <1>3 DEF PastOf

\* What a step leaves of the ends.
LEMMA EndsAfter ==
  ASSUME ClocksIn(Clock), ClocksIn(Clock)', EndsGrow
  PROVE  \A x \in Loc : /\ End(loc[x].buf) \in Nat /\ End(loc'[x].buf) \in Nat
                        /\ End(loc[x].buf) <= End(loc'[x].buf)
<1> SUFFICES ASSUME NEW x \in Loc
             PROVE  /\ End(loc[x].buf) \in Nat /\ End(loc'[x].buf) \in Nat
                    /\ End(loc[x].buf) <= End(loc'[x].buf)
  OBVIOUS
<1>1. loc'[x].buf \in Buffers(Clock)
  BY DEF ClocksIn, LocationsIn, SyncVars
<1>2. End(loc'[x].buf) \in Nat
  BY <1>1, BufferParts DEF End
<1> QED
  BY <1>2, EndsTyped DEF EndsGrow

\* A step that enters an epoch keeps the history, and what was published before.
LEMMA TickKept ==
  ASSUME ClocksIn(Clock), ClocksIn(Clock)', HistInv(hist, thr, loc), EndsGrow,
         NEW t \in Tid, thr[t].status # "invalid",
         NEW pv, NEW pc, NEW v, Ticks(t, pv, pc, v)
  PROVE  Kept /\ hist'.past[t][thr'[t].epoch] = [view |-> pv, clock |-> pc]
<1> DEFINE p == [view |-> pv, clock |-> pc]
<1>1. /\ thr'[t].epoch = thr[t].epoch + 1 /\ thr'[t].status # "invalid"
      /\ \A u \in Tid \ {t} : thr'[u] = thr[u]
      /\ Leq(pc, thr'[t].clock)
      /\ p \in Publications /\ p.view = pv /\ p.clock = pc
      /\ Within(loc', pv) /\ v \in Views /\ Within(loc', v)
      /\ IsHistory(hist')
      /\ hist'.past = [hist.past EXCEPT ![t] = Append(@, p)]
      /\ hist'.view = [hist.view EXCEPT ![t] = v]
  BY DEF Ticks, Publishes, Publications
<1> HIDE DEF p
<1>2. HistoryIn(hist, thr, loc) /\ Published(thr, hist.past)
      /\ hist.view \in [Tid -> Views] /\ hist.past \in [Tid -> Seq(Publications)]
  BY DEF HistInv, HistoryIn
<1>3. /\ hist.past[t] \in Seq(Publications) /\ Len(hist.past[t]) = thr[t].epoch
      /\ \A e \in 1..thr[t].epoch : Within(loc, hist.past[t][e].view)
      /\ thr[t].epoch \in Nat
  <2>1. hist.past[t] \in Seq(Publications) /\ Len(hist.past[t]) = thr[t].epoch
        /\ \A e \in 1..thr[t].epoch : Within(loc, hist.past[t][e].view)
    BY <1>2 DEF HistoryIn
  <2> QED
    BY <2>1
<1>4. /\ hist'.past[t] \in Seq(Publications) /\ Len(hist'.past[t]) = thr'[t].epoch
      /\ hist'.past[t][thr'[t].epoch] = p
      /\ \A i \in 1..thr[t].epoch : hist'.past[t][i] = hist.past[t][i]
  <2>1. hist'.past[t] = Append(hist.past[t], p)
    BY <1>1, <1>2
  <2> QED
    BY <1>1, <1>3, <2>1, AppendFacts
<1>5. hist'.view \in [Tid -> Views] /\ hist'.past \in [Tid -> Seq(Publications)]
  <2>1. Append(hist.past[t], p) \in Seq(Publications)
    BY <1>1, <1>3
  <2> QED
    BY <1>1, <1>2, <2>1
<1>6. \A u \in Tid \ {t} : hist'.view[u] = hist.view[u] /\ hist'.past[u] = hist.past[u]
                           /\ thr'[u] = thr[u]
  BY <1>1, <1>2
<1>7. \A x \in Loc : /\ End(loc[x].buf) \in Nat /\ End(loc'[x].buf) \in Nat
                     /\ End(loc[x].buf) <= End(loc'[x].buf)
  BY EndsAfter
<1>8. PastOf(hist', thr', loc', t)
  <2>1. hist'.view[t] = v
    BY <1>1, <1>2
  <2>2. ASSUME NEW e \in 1..thr'[t].epoch PROVE Within(loc', hist'.past[t][e].view)
    <3>1. CASE e = thr'[t].epoch
      BY <1>1, <1>4, <3>1
    <3>2. CASE e # thr'[t].epoch
      <4>1. e \in 1..thr[t].epoch
        BY <1>1, <1>3, <3>2
      <4>2. hist.past[t][e] \in Publications
        BY <1>3, <4>1
      <4>3. hist.past[t][e].view \in Views /\ Within(loc, hist.past[t][e].view)
        BY <1>3, <4>1, <4>2 DEF Publications
      <4> QED
        BY <1>4, <1>7, <4>1, <4>3, WithinGrows
    <3> QED
      BY <3>1, <3>2
  <2> QED
    BY <1>1, <1>4, <2>1, <2>2 DEF PastOf
<1>9. ASSUME NEW u \in Tid \ {t} PROVE PastOf(hist', thr', loc', u)
  BY <1>2, <1>6, <1>7, PastOfOthers
<1>10. HistoryIn(hist', thr', loc')
  BY <1>5, <1>8, <1>9, PastOfThread
<1>11. Published(thr', hist'.past)
  <2> SUFFICES ASSUME NEW u \in Tid
               PROVE  /\ thr'[u].epoch >= 1
                      /\ Leq(hist'.past[u][thr'[u].epoch].clock, thr'[u].clock)
                      /\ thr'[u].status = "invalid" =>
                           thr'[u].epoch = 1 /\ thr'[u].clock = Raised(Zero, u, 1)
    BY DEF Published
  <2>1. CASE u = t
    BY <1>1, <1>3, <1>4, <2>1
  <2>2. CASE u # t
    BY <1>2, <1>6, <2>2 DEF Published
  <2> QED
    BY <2>1, <2>2
<1>12. Extends(thr, hist.past, thr', hist'.past)
  <2> SUFFICES ASSUME NEW u \in Tid, thr[u].status # "invalid"
               PROVE  /\ thr'[u].status # "invalid" /\ thr[u].epoch <= thr'[u].epoch
                      /\ \A i \in 1..thr[u].epoch : hist'.past[u][i] = hist.past[u][i]
    BY DEF Extends
  <2>1. CASE u = t
    BY <1>1, <1>3, <1>4, <2>1
  <2>2. CASE u # t
    <3>1. Len(hist.past[u]) = thr[u].epoch /\ hist.past[u] \in Seq(Publications)
      BY <1>2 DEF HistoryIn
    <3> QED
      BY <1>6, <2>2, <3>1
  <2> QED
    BY <2>1, <2>2
<1> QED
  BY <1>1, <1>4, <1>10, <1>11, <1>12 DEF Kept, HistInv, p

\* The same where no epoch is entered, and threads only learn.
LEMMA LearnKept ==
  ASSUME ClocksIn(Clock), ClocksIn(Clock)', HistInv(hist, thr, loc), EndsGrow,
         NEW t \in Tid, NEW v, Learns(t, v),
         \A u \in Tid : /\ thr'[u].epoch = thr[u].epoch
                        /\ Leq(thr[u].clock, thr'[u].clock)
                        /\ IF thr[u].status = "invalid" THEN thr'[u] = thr[u]
                                                        ELSE thr'[u].status # "invalid"
  PROVE  Kept
<1>1. /\ v \in Views /\ Within(loc', v) /\ IsHistory(hist') /\ hist'.past = hist.past
      /\ hist'.view = [hist.view EXCEPT ![t] = v]
  BY DEF Learns
<1>2. HistoryIn(hist, thr, loc) /\ Published(thr, hist.past)
      /\ hist.view \in [Tid -> Views] /\ hist.past \in [Tid -> Seq(Publications)]
  BY DEF HistInv, HistoryIn
<1>3. \A x \in Loc : /\ End(loc[x].buf) \in Nat /\ End(loc'[x].buf) \in Nat
                     /\ End(loc[x].buf) <= End(loc'[x].buf)
  BY EndsAfter
<1>4. hist'.view \in [Tid -> Views] /\ hist'.past \in [Tid -> Seq(Publications)]
      /\ hist'.view[t] = v
      /\ \A u \in Tid \ {t} : hist'.view[u] = hist.view[u]
  BY <1>1, <1>2
<1>5. ASSUME NEW u \in Tid PROVE PastOf(hist', thr', loc', u)
  <2> DEFINE g == [view |-> hist.view, past |-> hist.past]
  <2>1. PastOf(g, thr', loc', u)
    BY <1>2, <1>3, PastOfOthers
  <2>2. CASE u = t
    BY <1>1, <1>4, <2>1, <2>2 DEF PastOf
  <2>3. CASE u # t
    BY <1>1, <1>4, <2>1, <2>3 DEF PastOf
  <2> QED
    BY <2>2, <2>3
<1>6. HistoryIn(hist', thr', loc')
  BY <1>4, <1>5, PastOfThread
<1>7. Published(thr', hist'.past)
  <2> SUFFICES ASSUME NEW u \in Tid
               PROVE  /\ thr'[u].epoch >= 1
                      /\ Leq(hist'.past[u][thr'[u].epoch].clock, thr'[u].clock)
                      /\ thr'[u].status = "invalid" =>
                           thr'[u].epoch = 1 /\ thr'[u].clock = Raised(Zero, u, 1)
    BY DEF Published
  <2>1. /\ thr[u].epoch >= 1 /\ Leq(hist.past[u][thr[u].epoch].clock, thr[u].clock)
        /\ thr[u].status = "invalid" => thr[u].epoch = 1 /\ thr[u].clock = Raised(Zero, u, 1)
    BY <1>2 DEF Published
  <2>2. thr[u].clock \in Clock /\ thr'[u].clock \in Clock
    BY DEF ClocksIn, ThreadsIn, ThreadStates
  <2>3. Len(hist.past[u]) = thr[u].epoch /\ hist.past[u] \in Seq(Publications)
    BY <1>2 DEF HistoryIn
  <2>4. thr[u].epoch \in DOMAIN hist.past[u]
    BY <2>1, <2>3
  <2>5. hist.past[u][thr[u].epoch].clock \in Clock
    <3>1. hist.past[u][thr[u].epoch] \in Publications
      BY <2>3, <2>4
    <3> QED
      BY <3>1 DEF Publications
  <2>6. Leq(hist.past[u][thr[u].epoch].clock, thr'[u].clock)
    BY <2>1, <2>2, <2>5, LeqTransitive
  <2> QED
    BY <1>1, <2>1, <2>6
<1>8. Extends(thr, hist.past, thr', hist'.past)
  <2> SUFFICES ASSUME NEW u \in Tid, thr[u].status # "invalid"
               PROVE  /\ thr'[u].status # "invalid" /\ thr[u].epoch <= thr'[u].epoch
                      /\ \A i \in 1..thr[u].epoch : hist'.past[u][i] = hist.past[u][i]
    BY DEF Extends
  <2>1. thr[u].epoch \in Nat
    BY DEF ClocksIn, ThreadsIn, ThreadStates
  <2> QED
    BY <1>1, <2>1
<1> QED
  BY <1>1, <1>6, <1>7, <1>8 DEF Kept, HistInv

\* Views with a read or a store more.
LEMMA WithReadFacts ==
  ASSUME NEW l, NEW v \in Views, Within(l, v), NEW x \in Loc, NEW p \in Nat,
         End(l[x].buf) \in Nat, p <= End(l[x].buf), NEW w, w = WithRead(v, x, p)
  PROVE  /\ w \in Views /\ Within(l, w)
         /\ \A z \in Loc : w[z].wrote = v[z].wrote
         /\ w[x].seen = Later(v[x].seen, p)
         /\ \A z \in Loc \ {x} : w[z] = v[z]
<1> DEFINE s == Later(v[x].seen, p)
           r == [seen |-> s, wrote |-> v[x].wrote]
<1>1. /\ v[x] \in [seen : Nat, wrote : SUBSET Nat]
      /\ \A z \in Loc : v[z].seen <= End(l[z].buf) /\ \A q \in v[z].wrote : q <= End(l[z].buf)
  BY DEF Views, Within
<1>2. s \in Nat /\ s <= End(l[x].buf)
  BY <1>1 DEF Later
<1>3. w = [v EXCEPT ![x] = [v[x] EXCEPT !.seen = s]]
  BY DEF WithRead, Views
<1>4. [v[x] EXCEPT !.seen = s] = r
  BY <1>1
<1>5. r \in [seen : Nat, wrote : SUBSET Nat] /\ r.seen = s /\ r.wrote = v[x].wrote
  BY <1>1, <1>2
<1> HIDE DEF s, r
<1>6. w = [v EXCEPT ![x] = r]
  BY <1>3, <1>4
<1>7. w \in Views /\ w[x] = r /\ \A z \in Loc \ {x} : w[z] = v[z]
  BY <1>5, <1>6 DEF Views
<1>8. ASSUME NEW z \in Loc
      PROVE  /\ w[z].wrote = v[z].wrote /\ w[z].seen <= End(l[z].buf)
             /\ \A q \in w[z].wrote : q <= End(l[z].buf)
  <2>1. CASE z = x
    BY <1>1, <1>2, <1>5, <1>7, <2>1
  <2>2. CASE z # x
    BY <1>1, <1>7, <2>2
  <2> QED
    BY <2>1, <2>2
<1> QED
  BY <1>5, <1>7, <1>8 DEF Within, s

\* A view with a store more.
LEMMA WithStoreFacts ==
  ASSUME NEW l, NEW v \in Views, Within(l, v), NEW x \in Loc, NEW p \in Nat,
         End(l[x].buf) \in Nat, p <= End(l[x].buf), NEW w, w = WithStore(v, x, p)
  PROVE  /\ w \in Views /\ Within(l, w)
         /\ w[x].wrote = v[x].wrote \cup {p} /\ w[x].seen = p
         /\ \A z \in Loc \ {x} : w[z] = v[z]
<1> DEFINE r == [seen |-> p, wrote |-> v[x].wrote \cup {p}]
<1>1. /\ v[x] \in [seen : Nat, wrote : SUBSET Nat]
      /\ \A z \in Loc : v[z].seen <= End(l[z].buf) /\ \A q \in v[z].wrote : q <= End(l[z].buf)
  BY DEF Views, Within
<1>2. w = [v EXCEPT ![x] = r]
  BY DEF WithStore, Views
<1>3. r \in [seen : Nat, wrote : SUBSET Nat] /\ r.seen = p /\ r.wrote = v[x].wrote \cup {p}
  BY <1>1
<1> HIDE DEF r
<1>4. w \in Views /\ w[x] = r /\ \A z \in Loc \ {x} : w[z] = v[z]
  BY <1>2, <1>3 DEF Views
<1>5. ASSUME NEW z \in Loc
      PROVE  /\ w[z].seen <= End(l[z].buf) /\ \A q \in w[z].wrote : q <= End(l[z].buf)
  <2>1. CASE z = x
    BY <1>1, <1>3, <1>4, <2>1
  <2>2. CASE z # x
    BY <1>1, <1>4, <2>2
  <2> QED
    BY <2>1, <2>2
<1> QED
  BY <1>3, <1>4, <1>5 DEF Within

\* The publications that go with a history.
LEMMA HistoryPast ==
  ASSUME NEW h, NEW th, NEW l, HistInv(h, th, l)
  PROVE  PastIn(th, h.past) /\ HistoryIn(h, th, l) /\ IsHistory(h) /\ Published(th, h.past)
BY DEF HistInv, HistoryIn, PastIn

\* Good clocks before a step, and after it.
LEMMA GoodAfter ==
  ASSUME GoodInv, Kept, NEW H, H = GoodClocks(thr', hist'.past)
  PROVE  Lattice(H) /\ ClocksIn(H)
<1>1. PastIn(thr, hist.past) /\ PastIn(thr', hist'.past)
  BY HistoryPast DEF GoodInv, Kept
<1>2. GoodClocks(thr, hist.past) \subseteq H
  BY <1>1, GoodStays DEF Kept
<1> QED
  BY <1>1, <1>2, GoodLattice, ClocksInMore DEF GoodInv

\* A thread that acquires a good clock has a good clock, and forgets nothing.
LEMMA GoodAcquires ==
  ASSUME GoodInv, Kept, NEW H, H = GoodClocks(thr', hist'.past),
         NEW t \in Running, thr'[t].status # "invalid", Acquires(H, t, thr'[t].epoch)
  PROVE  thr'[t].clock \in H /\ Leq(thr[t].clock, thr'[t].clock)
<1>1. Lattice(H) /\ ClocksIn(H)
  BY GoodAfter
<1>2. t \in Tid /\ thr[t].clock \in H
  BY <1>1, RunningParts
<1>3. PastIn(thr', hist'.past) /\ Leq(hist'.past[t][thr'[t].epoch].clock, thr'[t].clock)
  BY <1>2, HistoryPast DEF Kept, Published
<1>4. PICK d \in H : thr'[t].clock = Join(Raised(thr[t].clock, t, thr'[t].epoch), d)
  BY DEF Acquires
<1> DEFINE c == thr'[t].clock
<1>5. c = Join(Raised(thr[t].clock, t, thr'[t].epoch), d)
      /\ Leq(hist'.past[t][thr'[t].epoch].clock, c)
  BY <1>3, <1>4
<1> HIDE DEF c
<1>6. c \in H /\ Leq(thr[t].clock, c)
  BY <1>2, <1>3, <1>5, AcquiredGood
<1> QED
  BY <1>6 DEF c

\* A stamp is an acquire of nothing.
LEMMA StampAcquires ==
  ASSUME NEW G, Lattice(G), ClocksIn(G), NEW t \in Running, NEW e \in Nat,
         thr'[t].clock = Raised(thr[t].clock, t, e)
  PROVE  Acquires(G, t, e)
<1>1. thr[t].clock \in Clock /\ t \in Tid
  BY RunningParts
<1>2. Raised(thr[t].clock, t, e) \in Clock
  BY <1>1, RaisedType
<1>3. Zero \in G /\ Join(Raised(thr[t].clock, t, e), Zero) = Raised(thr[t].clock, t, e)
  BY <1>2, ZeroFacts DEF Lattice
<1> QED
  BY <1>3 DEF Acquires

\* All clocks are clocks.
LEMMA GoodTyped ==
  ASSUME GoodInv
  PROVE  ClocksIn(Clock) /\ HistInv(hist, thr, loc) /\ IsHistory(hist)
         /\ HistoryIn(hist, thr, loc)
<1>1. GoodClocks(thr, hist.past) \subseteq Clock
  BY DEF GoodClocks
<1> QED
  BY <1>1, ClocksInMore DEF GoodInv, HistInv

\* What goes for the good clocks after a step.
LEMMA GoodConclude ==
  ASSUME Kept, NEW H, H = GoodClocks(thr', hist'.past), ClocksIn(H)'
  PROVE  GoodInv'
<1>1. HistInv(hist', thr', loc')
  BY DEF Kept
<1>2. ClocksIn(GoodClocks(thr, hist.past))'
  BY DEF ClocksIn, ThreadsIn, LocationsIn, MutexIn
<1> QED
  BY <1>1, <1>2 DEF GoodInv

-----------------------------------------------------------------------------
(* What each step makes of the history. *)

\* What t knows once its clock is c.
LEMMA LearntFacts ==
  ASSUME ClocksIn(Clock), ClocksIn(Clock)', HistInv(hist, thr, loc), EndsGrow,
         NEW t \in Tid, NEW c \in Clock, NEW v, v = Learn(hist.view[t], c)
  PROVE  v \in Views /\ Within(loc', v) /\ hist.view[t] \in Views /\ Within(loc', hist.view[t])
<1>1. HistoryIn(hist, thr, loc) /\ hist.view[t] \in Views /\ Within(loc, hist.view[t])
  BY DEF HistInv, HistoryIn
<1>2. \A x \in Loc : /\ End(loc[x].buf) \in Nat /\ End(loc'[x].buf) \in Nat
                     /\ End(loc[x].buf) <= End(loc'[x].buf)
  BY EndsAfter
<1>3. v \in Views /\ Within(loc, v)
  BY <1>1, <1>2, LearnFacts
<1> QED
  BY <1>1, <1>2, <1>3, WithinGrows

\* A buffer whose end grows, and its location.
LEMMA EndsGrowAt ==
  ASSUME ClocksIn(Clock), NEW x \in Loc, NEW sync, NEW r, NewLocation(x, sync, r),
         End(loc[x].buf) <= End(r)
  PROVE  EndsGrow
<1> SUFFICES ASSUME NEW z \in Loc PROVE End(loc[z].buf) <= End(loc'[z].buf)
  BY DEF EndsGrow
<1>1. End(loc[z].buf) \in Nat
  BY EndsTyped
<1>2. CASE z = x
  BY <1>2 DEF NewLocation
<1>3. CASE z # x
  BY <1>1, <1>3 DEF NewLocation
<1> QED
  BY <1>2, <1>3

\* A load.
LEMMA LoadHistory ==
  ASSUME KeepsHistory, ClocksIn(Clock), HistInv(hist, thr, loc),
         NEW t \in Running, NEW x \in Loc, NEW mo, NEW p, LoadAt(t, x, mo, p),
         NEW v, v = Learn(hist.view[t], thr'[t].clock)
  PROVE  /\ ClocksIn(Clock)' /\ EndsGrow /\ v \in Views /\ Within(loc', v)
         /\ Learns(t, WithRead(v, x, p)) /\ SameOrder(hist', hist)
         /\ \A z \in Loc : End(loc'[z].buf) = End(loc[z].buf)
<1> DEFINE th == ScReads(thr[t], mo)
           b == loc[x].buf
           r == FetchStore(b, th, p)
<1>1. /\ t \in Tid /\ thr[t] \in ThreadStates(Clock) /\ thr[t].tid = t
      /\ b \in Buffers(Clock) /\ Sound(b) /\ ctx.sfence \in Clock
  BY StateParts, ClockLattice
<1>2. /\ NewThread(t, "running", thr[t].epoch, thr[t].lastRelease, thr[t].slimit,
                   thr[t].swrite, ScReads(thr[t], mo).sread)
      /\ Acquires(Clock, t, thr[t].epoch)
      /\ NewLocation(x, loc[x].sync, FetchStore(loc[x].buf, ScReads(thr[t], mo), p))
      /\ p \in Held(loc[x].buf)
      /\ thr'[t].clock \in Clock => ClocksIn(Clock)'
  BY LoadStep, ClockLattice
<1>3. thr[t].epoch \in Nat
  BY <1>1, ThreadParts
<1>4. thr'[t].clock \in Clock /\ ClocksIn(Clock)'
  BY <1>2, <1>3, AcquiredType
<1>5. th \in ThreadStates(Clock) /\ th.tid = t
  BY <1>1, ScReadsFacts
<1>6. NewLocation(x, loc[x].sync, r) /\ p \in Held(b)
  BY <1>2
<1> HIDE DEF th, b
<1>7. IF AtEnd(b, th.tid) THEN r = b ELSE Moved(b, th, p, r)
  BY <1>1, <1>5, <1>6, FetchStoreFacts
<1>8. End(r) = End(b) /\ End(b) \in Nat
  BY <1>1, <1>7, BufferParts DEF Moved, End
<1>9. \A z \in Loc : End(loc'[z].buf) = End(loc[z].buf)
  BY <1>6, <1>8 DEF NewLocation, b
<1>10. EndsGrow
  BY <1>9, EndsTyped DEF EndsGrow
<1>11. v \in Views /\ Within(loc', v)
  BY <1>1, <1>4, <1>10, LearntFacts
<1>12. p \in Nat /\ p <= End(b)
  BY <1>1, <1>6, HeldFacts, <1>8
<1>13. WithRead(v, x, p) \in Views /\ Within(loc', WithRead(v, x, p))
  <2>1. End(loc'[x].buf) = End(b)
    BY <1>9 DEF b
  <2> QED
    BY <1>8, <1>11, <1>12, <2>1, WithReadFacts
<1>14. hist' = [hist EXCEPT !.view[t] = WithRead(v, x, p)]
  <2> DEFINE c == ClockAt(x, p)
             done == IF IsAcquireOrder(mo) THEN Acquire(th, c) ELSE NonAcquireLoad(th, c)
  <2>1. /\ thr' = [thr EXCEPT ![t] = done]
        /\ hist' = [hist EXCEPT !.view[t] = ReadView(done, x, p)]
    BY DEF LoadAt, Recorded, th
  <2>2. c \in Clock
    BY <1>6, ClockAtIn, ClockLattice DEF b
  <2>3. done.tid = t
    BY <1>5, <2>2, ReadFacts, ClockLattice
  <2> HIDE DEF done
  <2>4. thr'[t] = done
    BY <1>1, <2>1 DEF ClocksIn, ThreadsIn
  <2>5. ReadView(done, x, p) = WithRead(v, x, p)
    BY <2>3, <2>4 DEF ReadView, WithRead
  <2> QED
    BY <2>1, <2>5
<1>15. /\ IsHistory(hist') /\ SameOrder(hist', hist) /\ hist'.past = hist.past
       /\ hist'.view = [hist.view EXCEPT ![t] = WithRead(v, x, p)]
  <2> DEFINE w == WithRead(v, x, p)
  <2>1. IsHistory(hist)
    BY DEF HistInv
  <2>2. PICK r2 : r2 = hist'
    OBVIOUS
  <2>3. r2 = ViewSet(hist, t, w)
    BY <1>14, <2>2 DEF ViewSet
  <2> HIDE DEF w
  <2>4. /\ IsHistory(r2) /\ SameOrder(r2, hist) /\ r2.past = hist.past
        /\ r2.view = [hist.view EXCEPT ![t] = w]
    BY <1>1, <2>1, <2>3, ViewSetFacts
  <2> QED
    BY <2>2, <2>4 DEF w
<1>16. Learns(t, WithRead(v, x, p))
  BY <1>13, <1>15 DEF Learns
<1> QED
  BY <1>4, <1>9, <1>10, <1>11, <1>15, <1>16

\* What a store with order mo at position p of x makes of the SC order; v is what t
\* knows of.
OrderStored(t, x, p, mo, v) ==
  /\ hist'.own = [hist.own EXCEPT ![t][x] = p]
  /\ hist'.fenced = hist.fenced /\ hist'.floor = hist.floor
  /\ hist'.sc = IF mo = "seq_cst" THEN [hist.sc EXCEPT ![x] = @ \cup {p}] ELSE hist.sc
  /\ hist'.scPast = IF mo = "seq_cst" THEN [hist.scPast EXCEPT ![x] = v[x].wrote]
                                      ELSE hist.scPast

\* What a store of t to x with order mo does; th is the ThreadState that it gives to
\* the buffer.
StoredBy(t, x, mo, th, v) ==
  /\ ClocksIn(Clock)' /\ EndsGrow /\ v \in Views /\ Within(loc', v)
  /\ Ticks(t, WithStore(v, x, End(loc'[x].buf)), thr'[t].clock,
              WithStore(v, x, End(loc'[x].buf)))
  /\ OrderStored(t, x, End(loc'[x].buf), mo, v)
  /\ th \in ThreadStates(Clock) /\ th.tid = t /\ th.epoch = thr'[t].epoch
  /\ th.lastRelease = thr[t].lastRelease
  /\ Stored(loc[x].buf, th, mo = "seq_cst", loc'[x].buf)
  /\ \A z \in Loc \ {x} : loc'[z] = loc[z]

\* The buffer that th has stored to.
LEMMA BufferedFacts ==
  ASSUME ClocksIn(Clock), NEW t \in Running, NEW x \in Loc, NEW th \in ThreadStates(Clock),
         NEW mo, NEW r, r = Buffered(x, th, mo)
  PROVE  /\ r \in Buffers(Clock) /\ Sound(r) /\ Stored(loc[x].buf, th, mo = "seq_cst", r)
         /\ End(r) = End(loc[x].buf) + 1 /\ End(loc[x].buf) \in Nat
<1> DEFINE isSc == mo = "seq_cst"
           b == loc[x].buf
           d == loc[x].sync.clk
<1>1. b \in Buffers(Clock) /\ Sound(b) /\ d \in Clock /\ isSc \in BOOLEAN
  BY StateParts, ClockLattice
<1>2. r = BufferStore(b, th, d, isSc)
  BY DEF Buffered
<1> HIDE DEF isSc, b, d
<1>3. r \in Buffers(Clock) /\ Sound(r) /\ Stored(b, th, isSc, r)
  BY <1>1, <1>2, BufferStoreFacts
<1>4. End(b) \in Nat
  BY <1>1, BufferParts
<1>5. End(r) = End(b) + 1
  BY <1>3 DEF Stored, End
<1> QED
  BY <1>3, <1>4, <1>5 DEF isSc, b

\* What a store makes of the history, once it is known what it makes of the rest.
LEMMA StoreHistory ==
  ASSUME ClocksIn(Clock), ClocksIn(Clock)', HistInv(hist, thr, loc),
         NEW t \in Running, NEW x \in Loc, NEW mo, NEW done, done.tid = t,
         done.clock = thr'[t].clock, thr'[t].epoch = thr[t].epoch + 1,
         thr'[t].status = "running", \A u \in Tid \ {t} : thr'[u] = thr[u],
         NEW th \in ThreadStates(Clock), th.tid = t, th.epoch = thr[t].epoch + 1,
         th.lastRelease = thr[t].lastRelease,
         NEW sync, NewLocation(x, sync, Buffered(x, th, mo)),
         hist' = HistStore(done, x, End(loc[x].buf) + 1, mo),
         NEW v, v = Learn(hist.view[t], thr'[t].clock)
  PROVE  StoredBy(t, x, mo, th, v)
<1> DEFINE r == Buffered(x, th, mo)
           p == End(r)
<1>1. /\ r \in Buffers(Clock) /\ Sound(r) /\ Stored(loc[x].buf, th, mo = "seq_cst", r)
      /\ End(r) = End(loc[x].buf) + 1 /\ End(loc[x].buf) \in Nat
  BY BufferedFacts
<1>2. NewLocation(x, sync, r)
  OBVIOUS
<1> HIDE DEF r
<1>3. t \in Tid /\ p = End(loc[x].buf) + 1 /\ p \in Nat /\ End(loc[x].buf) <= End(r)
  BY <1>1, RunningParts, ClockLattice
<1> HIDE DEF p
<1>4. EndsGrow
  BY <1>2, <1>3, EndsGrowAt
<1>5. thr'[t].clock \in Clock
  BY <1>3 DEF ClocksIn, ThreadsIn, ThreadStates
<1>6. v \in Views /\ Within(loc', v)
  BY <1>3, <1>4, <1>5, LearntFacts
<1>7. loc'[x].buf = r /\ End(loc'[x].buf) = p /\ \A z \in Loc \ {x} : loc'[z] = loc[z]
  BY <1>2 DEF NewLocation, p
<1>8. WithStore(v, x, p) \in Views /\ Within(loc', WithStore(v, x, p))
  BY <1>3, <1>6, <1>7, WithStoreFacts
<1>9. hist' = HistStore(done, x, p, mo) /\ v = Learn(hist.view[t], done.clock) /\ IsHistory(hist)
  BY <1>3 DEF HistInv
<1>10. /\ IsHistory(hist')
       /\ hist'.view = [hist.view EXCEPT ![t] = WithStore(v, x, p)]
       /\ hist'.past = Publishes(hist.past, t, WithStore(v, x, p), done.clock)
       /\ OrderStored(t, x, p, mo, v)
  <2>1. PICK r2 : r2 = HistStore(done, x, p, mo)
    OBVIOUS
  <2>2. /\ IsHistory(r2)
        /\ r2.view = [hist.view EXCEPT ![t] = WithStore(v, x, p)]
        /\ r2.past = Publishes(hist.past, t, WithStore(v, x, p), done.clock)
        /\ r2.own = [hist.own EXCEPT ![t][x] = p]
        /\ r2.fenced = hist.fenced /\ r2.floor = hist.floor
        /\ r2.sc = IF mo = "seq_cst" THEN [hist.sc EXCEPT ![x] = @ \cup {p}] ELSE hist.sc
        /\ r2.scPast = IF mo = "seq_cst" THEN [hist.scPast EXCEPT ![x] = v[x].wrote]
                                          ELSE hist.scPast
    BY <1>3, <1>9, <2>1, HistStoreFacts
  <2>3. r2 = hist'
    BY <1>9, <2>1
  <2> QED
    BY <2>2, <2>3 DEF OrderStored
<1>11. Leq(thr'[t].clock, thr'[t].clock)
  BY <1>5 DEF Leq, Clock
<1>12. Ticks(t, WithStore(v, x, p), thr'[t].clock, WithStore(v, x, p))
  BY <1>5, <1>8, <1>10, <1>11 DEF Ticks
<1> QED
  BY <1>1, <1>4, <1>6, <1>7, <1>10, <1>12 DEF StoredBy

\* AtomicStore: what it makes of the history.
LEMMA StoreEffect ==
  ASSUME KeepsHistory, ClocksIn(Clock), HistInv(hist, thr, loc),
         NEW t \in Running, NEW x \in Loc, NEW mo, Store(t, x, mo),
         NEW th, th = Stamped(Ticked(thr[t]))
  PROVE  StoredBy(t, x, mo, th, Learn(hist.view[t], thr'[t].clock))
<1>1. t \in Tid /\ thr[t] \in ThreadStates(Clock) /\ thr[t].tid = t /\ thr[t].epoch \in Nat
  BY RunningParts, ThreadParts, ClockLattice
<1>2. /\ th \in ThreadStates(Clock) /\ th.tid = t /\ th.epoch = thr[t].epoch + 1
      /\ th.lastRelease = thr[t].lastRelease
  BY <1>1, NextEpochFacts
<1>3. /\ NewThread(t, "running", thr[t].epoch + 1,
                   IF IsReleaseOrder(mo) THEN thr[t].epoch + 1 ELSE thr[t].lastRelease,
                   thr[t].slimit, thr[t].swrite, thr[t].sread)
      /\ Acquires(Clock, t, thr[t].epoch + 1)
      /\ thr'[t].clock = th.clock
      /\ \E sync : NewLocation(x, sync, Buffered(x, th, mo))
      /\ ctx'.sfence = ctx.sfence
      /\ ctx'.swrite = IF mo = "seq_cst" THEN Raised(ctx.swrite, t, thr[t].epoch + 1)
                                         ELSE ctx.swrite
      /\ thr'[t].clock \in Clock => ClocksIn(Clock)'
  BY StoreStep, ClockLattice
<1>4. th.clock \in Clock /\ ClocksIn(Clock)'
  BY <1>2, <1>3, ThreadParts
<1>5. PICK sync : NewLocation(x, sync, Buffered(x, th, mo))
  BY <1>3
<1>6. thr'[t].epoch = thr[t].epoch + 1 /\ thr'[t].status = "running"
      /\ \A u \in Tid \ {t} : thr'[u] = thr[u]
  BY <1>3 DEF NewThread, ThreadIs
<1>7. hist' = HistStore(th, x, End(loc[x].buf) + 1, mo)
  BY DEF Store, Recorded
<1> QED
  BY <1>2, <1>3, <1>4, <1>5, <1>6, <1>7, StoreHistory

\* AtomicRMW, and AtomicCAS that succeeds: what it makes of the history.
LEMMA RmwEffect ==
  ASSUME KeepsHistory, ClocksIn(Clock), HistInv(hist, thr, loc),
         NEW t \in Running, NEW x \in Loc, NEW mo, NEW keep \in BOOLEAN, Rmw(t, x, mo, keep),
         NEW th, th = ScReads(Stamped(Ticked(thr[t])), mo)
  PROVE  StoredBy(t, x, mo, th, Learn(hist.view[t], thr'[t].clock))
<1>1. t \in Tid /\ thr[t] \in ThreadStates(Clock) /\ thr[t].tid = t /\ thr[t].epoch \in Nat
      /\ thr[t].epoch + 1 \in Nat /\ ctx.sfence \in Clock /\ loc[x].sync.clk \in Clock
  BY RunningParts, ThreadParts, ClockLattice, StateParts
<1>2. /\ th \in ThreadStates(Clock) /\ th.tid = t /\ th.epoch = thr[t].epoch + 1
      /\ th.lastRelease = thr[t].lastRelease
  <2> DEFINE st == Stamped(Ticked(thr[t]))
  <2>1. /\ st \in ThreadStates(Clock) /\ st.tid = t /\ st.epoch = thr[t].epoch + 1
        /\ st.lastRelease = thr[t].lastRelease
    BY <1>1, NextEpochFacts
  <2>2. th = ScReads(st, mo)
    OBVIOUS
  <2> HIDE DEF st
  <2> QED
    BY <1>1, <2>1, <2>2, ScReadsFacts
<1>3. /\ NewThread(t, "running", thr[t].epoch + 1,
                   IF IsReleaseOrder(mo) THEN thr[t].epoch + 1 ELSE thr[t].lastRelease,
                   thr[t].slimit, thr[t].swrite, ScReads(thr[t], mo).sread)
      /\ Acquires(Clock, t, thr[t].epoch + 1)
      /\ \E sync : NewLocation(x, sync, Buffered(x, th, mo))
      /\ ctx'.sfence = ctx.sfence
      /\ ctx'.swrite = IF mo = "seq_cst" THEN Raised(ctx.swrite, t, thr[t].epoch + 1)
                                         ELSE ctx.swrite
      /\ thr'[t].clock \in Clock => ClocksIn(Clock)'
  BY RmwStep, ClockLattice
<1>4. ClocksIn(Clock)'
  BY <1>1, <1>3, AcquiredType
<1>5. PICK sync : NewLocation(x, sync, Buffered(x, th, mo))
  BY <1>3
<1>6. thr'[t].epoch = thr[t].epoch + 1 /\ thr'[t].status = "running"
      /\ \A u \in Tid \ {t} : thr'[u] = thr[u]
  BY <1>3 DEF NewThread, ThreadIs
<1> DEFINE c == loc[x].sync.clk
           done == IF IsAcquireOrder(mo) THEN Acquire(th, c) ELSE NonAcquireLoad(th, c)
           fin == Released(done, mo)
<1>7. thr' = [thr EXCEPT ![t] = fin] /\ hist' = HistStore(done, x, End(loc[x].buf) + 1, mo)
  BY DEF Rmw, Recorded
<1>8. done \in ThreadStates(Clock) /\ done.tid = t
  <2>1. c \in Clock
    BY <1>1
  <2> HIDE DEF c
  <2>2. done \in ThreadStates(Clock) /\ done.tid = th.tid
    BY <1>2, <2>1, ReadFacts, ClockLattice
  <2> QED
    BY <1>2, <2>2
<1> HIDE DEF done
<1>9. fin.clock = done.clock
  BY <1>8, ReleasedFacts
<1> HIDE DEF fin
<1>10. done.clock = thr'[t].clock
  BY <1>1, <1>7, <1>9 DEF ClocksIn, ThreadsIn
<1> QED
  BY <1>2, <1>4, <1>5, <1>6, <1>7, <1>8, <1>10, StoreHistory

\* AtomicCAS that succeeds with mo_relaxed: the same, though t is not stamped.
LEMMA CasRelaxedEffect ==
  ASSUME KeepsHistory, ClocksIn(Clock), HistInv(hist, thr, loc),
         NEW t \in Running, NEW x \in Loc, CasRelaxed(t, x), NEW th, th = Ticked(thr[t])
  PROVE  StoredBy(t, x, "relaxed", th, Learn(hist.view[t], thr'[t].clock))
<1>1. t \in Tid /\ thr[t] \in ThreadStates(Clock) /\ thr[t].tid = t /\ thr[t].epoch \in Nat
  BY RunningParts, ThreadParts, ClockLattice
<1>2. /\ th \in ThreadStates(Clock) /\ th.tid = t /\ th.epoch = thr[t].epoch + 1
      /\ th.lastRelease = thr[t].lastRelease /\ th.clock = thr[t].clock
  BY <1>1, TickedFacts
<1>3. /\ NewThread(t, "running", thr[t].epoch + 1, thr[t].lastRelease,
                   thr[t].slimit, thr[t].swrite, thr[t].sread)
      /\ thr'[t].clock = thr[t].clock
      /\ NewLocation(x, loc[x].sync, Buffered(x, th, "relaxed"))
      /\ ClocksIn(Clock)'
  BY CasRelaxedStep, ClockLattice
<1>4. th.clock = thr'[t].clock
  BY <1>2, <1>3
<1>6. thr'[t].epoch = thr[t].epoch + 1 /\ thr'[t].status = "running"
      /\ \A u \in Tid \ {t} : thr'[u] = thr[u]
  BY <1>3 DEF NewThread, ThreadIs
<1>7. hist' = HistStore(th, x, End(loc[x].buf) + 1, "relaxed")
  BY DEF CasRelaxed, Recorded
<1> QED
  BY <1>2, <1>3, <1>4, <1>6, <1>7, StoreHistory

\* A step that publishes the view w and its new clock, and what it keeps.
LEMMA PublishHistory ==
  ASSUME ClocksIn(Clock)', HistInv(hist, thr, loc),
         NEW t \in Tid, NEW done, done.tid = t, done.clock = thr'[t].clock,
         thr'[t].epoch = thr[t].epoch + 1, thr'[t].status # "invalid",
         \A u \in Tid \ {t} : thr'[u] = thr[u],
         NEW w \in Views, Within(loc', w), hist' = Publish(hist, done, w)
  PROVE  Ticks(t, w, thr'[t].clock, w) /\ SameOrder(hist', hist)
<1>1. thr'[t].clock \in Clock
  BY DEF ClocksIn, ThreadsIn, ThreadStates
<1>2. Leq(thr'[t].clock, thr'[t].clock)
  BY <1>1 DEF Leq, Clock
<1>3. IsHistory(hist)
  BY DEF HistInv
<1>4. PICK r2 : r2 = hist'
  OBVIOUS
<1>5. /\ IsHistory(r2) /\ SameOrder(r2, hist)
      /\ r2.view = [hist.view EXCEPT ![done.tid] = w]
      /\ r2.past = Publishes(hist.past, done.tid, w, done.clock)
  BY <1>3, <1>4, PublishFacts
<1>6. /\ IsHistory(hist') /\ SameOrder(hist', hist)
      /\ hist'.view = [hist.view EXCEPT ![t] = w]
      /\ hist'.past = Publishes(hist.past, t, w, thr'[t].clock)
  BY <1>4, <1>5
<1> QED
  BY <1>1, <1>2, <1>6 DEF Ticks

\* What a step does that enters an epoch with view w, and stores nothing.
PublishedBy(t, w) ==
  /\ ClocksIn(Clock)' /\ EndsGrow /\ Ticks(t, w, thr'[t].clock, w) /\ SameOrder(hist', hist)

\* AtomicCAS that fails.
LEMMA CasFailEffect ==
  ASSUME KeepsHistory, ClocksIn(Clock), HistInv(hist, thr, loc),
         NEW t \in Running, NEW x \in Loc, NEW fmo, CasFail(t, x, fmo),
         NEW v, v = Learn(hist.view[t], thr'[t].clock)
  PROVE  /\ PublishedBy(t, WithRead(v, x, End(loc[x].buf)))
         /\ v \in Views /\ Within(loc', v)
         /\ \A z \in Loc : End(loc'[z].buf) = End(loc[z].buf)
<1> DEFINE k == Ticked(thr[t])
           th == ScReads(k, fmo)
           c == loc[x].sync.clk
           done == IF IsAcquireOrder(fmo) THEN Acquire(th, c) ELSE th
           b == loc[x].buf
           r == AdvanceToEnd(b, th)
           w == WithRead(v, x, End(b))
<1>1. t \in Tid /\ thr[t] \in ThreadStates(Clock) /\ thr[t].tid = t /\ thr[t].epoch \in Nat
      /\ thr[t].epoch + 1 \in Nat /\ ctx.sfence \in Clock /\ c \in Clock
      /\ b \in Buffers(Clock) /\ Sound(b)
  BY RunningParts, ThreadParts, ClockLattice, StateParts
<1>2. k \in ThreadStates(Clock) /\ k.tid = t
  BY <1>1, TickedFacts
<1>3. /\ thr' = [thr EXCEPT ![t] = done]
      /\ hist' = Publish(hist, done, ReadView(done, x, End(b)))
  BY DEF CasFail, Recorded
<1>4. /\ NewThread(t, "running", thr[t].epoch + 1, thr[t].lastRelease,
                   thr[t].slimit, thr[t].swrite, ScReads(thr[t], fmo).sread)
      /\ IF IsAcquireOrder(fmo) THEN Acquires(Clock, t, thr[t].epoch + 1)
                                ELSE thr'[t].clock = thr[t].clock
      /\ NewLocation(x, loc[x].sync, AdvanceToEnd(loc[x].buf, ScReads(Ticked(thr[t]), fmo)))
      /\ thr'[t].clock \in Clock => ClocksIn(Clock)'
  BY CasFailStep, ClockLattice
<1>5. NewLocation(x, loc[x].sync, r)
  BY <1>4
<1> HIDE DEF k
<1>6. th \in ThreadStates(Clock) /\ th.tid = t
  BY <1>1, <1>2, ScReadsFacts
<1> HIDE DEF th, c, b
<1>7. done.tid = t
  <2>1. CASE IsAcquireOrder(fmo)
    <3>1. done = Acquire(th, c)
      BY <2>1
    <3> HIDE DEF done
    <3> QED
      BY <1>1, <1>6, <3>1, AcquireFacts, ClockLattice
  <2>2. CASE ~IsAcquireOrder(fmo)
    BY <1>6, <2>2
  <2> QED
    BY <2>1, <2>2
<1> HIDE DEF done
<1>8. thr'[t].clock \in Clock /\ ClocksIn(Clock)'
  <2>1. CASE IsAcquireOrder(fmo)
    BY <1>1, <1>4, <2>1, AcquiredType
  <2>2. CASE ~IsAcquireOrder(fmo)
    <3>1. thr[t].clock \in Clock
      BY <1>1, ThreadParts
    <3> QED
      BY <1>4, <2>2, <3>1
  <2> QED
    BY <2>1, <2>2
<1>9. IF b.active[th.tid].at = End(b) THEN r = b ELSE Moved(b, th, End(b), r)
  BY <1>1, <1>6, AdvanceToEndFacts
<1>10. End(r) = End(b) /\ End(b) \in Nat
  BY <1>1, <1>9, BufferParts DEF Moved, End
<1>11. \A z \in Loc : End(loc'[z].buf) = End(loc[z].buf)
  BY <1>5, <1>10 DEF NewLocation, b
<1>12. EndsGrow
  BY <1>11, EndsTyped DEF EndsGrow
<1>13. v \in Views /\ Within(loc', v)
  BY <1>1, <1>8, <1>12, LearntFacts
<1>14. w \in Views /\ Within(loc', w)
  <2>1. End(loc'[x].buf) = End(b)
    BY <1>11 DEF b
  <2> QED
    BY <1>10, <1>13, <2>1, WithReadFacts
<1>15. done = thr'[t] /\ ReadView(done, x, End(b)) = w
  <2>1. done = thr'[t]
    BY <1>1, <1>3 DEF ClocksIn, ThreadsIn
  <2> QED
    BY <1>7, <2>1 DEF ReadView, WithRead
<1> HIDE DEF w
<1>16. thr'[t].epoch = thr[t].epoch + 1 /\ thr'[t].status # "invalid"
       /\ \A u \in Tid \ {t} : thr'[u] = thr[u]
  BY <1>4 DEF NewThread, ThreadIs
<1>17. done.tid = t /\ done.clock = thr'[t].clock /\ hist' = Publish(hist, done, w)
  BY <1>3, <1>7, <1>15
<1>18. Ticks(t, w, thr'[t].clock, w) /\ SameOrder(hist', hist)
  BY <1>1, <1>8, <1>14, <1>16, <1>17, PublishHistory
<1> QED
  BY <1>8, <1>11, <1>12, <1>13, <1>18 DEF PublishedBy, w, b

\* The mutex, and a thread that finishes.
LEMMA LockEffect ==
  ASSUME KeepsHistory, ClocksIn(Clock), HistInv(hist, thr, loc), NEW t \in Running, Lock(t),
         NEW v, v = Learn(hist.view[t], thr'[t].clock)
  PROVE  PublishedBy(t, v) /\ v \in Views /\ Within(loc', v) /\ loc' = loc
<1> DEFINE k == Ticked(thr[t])
           c == mutex.clk
           done == Acquire(k, c)
<1>1. t \in Tid /\ thr[t] \in ThreadStates(Clock) /\ thr[t].tid = t /\ thr[t].epoch \in Nat
      /\ thr[t].epoch + 1 \in Nat
  BY RunningParts, ThreadParts, ClockLattice
<1>2. c \in Clock
  BY DEF ClocksIn, MutexIn
<1>3. k \in ThreadStates(Clock) /\ k.tid = t
  BY <1>1, TickedFacts
<1>4. /\ thr' = [thr EXCEPT ![t] = done] /\ loc' = loc
      /\ hist' = Publish(hist, done, Learn(hist.view[t], done.clock))
  BY DEF Lock, Recorded
<1> HIDE DEF k, c
<1>5. done.tid = t
  BY <1>2, <1>3, AcquireFacts, ClockLattice
<1> HIDE DEF done
<1>6. /\ NewThread(t, "running", thr[t].epoch + 1, thr[t].lastRelease,
                   thr[t].slimit, thr[t].swrite, thr[t].sread)
      /\ Acquires(Clock, t, thr[t].epoch + 1)
      /\ thr'[t].clock \in Clock => ClocksIn(Clock)'
  BY LockStep, ClockLattice
<1>7. thr'[t].clock \in Clock /\ ClocksIn(Clock)'
  BY <1>1, <1>6, AcquiredType
<1>8. EndsGrow
  BY <1>4, EndsTyped DEF EndsGrow
<1>9. v \in Views /\ Within(loc', v)
  BY <1>1, <1>7, <1>8, LearntFacts
<1>10. done = thr'[t]
  BY <1>1, <1>4 DEF ClocksIn, ThreadsIn
<1>11. thr'[t].epoch = thr[t].epoch + 1 /\ thr'[t].status # "invalid"
       /\ \A u \in Tid \ {t} : thr'[u] = thr[u]
  BY <1>6 DEF NewThread, ThreadIs
<1>12. done.tid = t /\ done.clock = thr'[t].clock /\ hist' = Publish(hist, done, v)
  BY <1>4, <1>5, <1>10
<1>13. Ticks(t, v, thr'[t].clock, v) /\ SameOrder(hist', hist)
  BY <1>1, <1>7, <1>9, <1>11, <1>12, PublishHistory
<1> QED
  BY <1>4, <1>7, <1>8, <1>9, <1>13 DEF PublishedBy

\* MutexUnlock and OnFinished only stamp and publish.
LEMMA StampEffect ==
  ASSUME KeepsHistory, ClocksIn(Clock), HistInv(hist, thr, loc), NEW t \in Running,
         Unlock(t) \/ Finish(t)
  PROVE  /\ PublishedBy(t, hist.view[t]) /\ loc' = loc
         /\ thr'[t].clock = Raised(thr[t].clock, t, thr'[t].epoch)
<1> DEFINE k == Stamped(Ticked(thr[t]))
           w == hist.view[t]
<1>1. t \in Tid /\ thr[t] \in ThreadStates(Clock) /\ thr[t].tid = t /\ thr[t].epoch \in Nat
      /\ thr[t].epoch + 1 \in Nat /\ thr[t].clock \in Clock
  BY RunningParts, ThreadParts, ClockLattice
<1>2. k \in ThreadStates(Clock) /\ k.tid = t /\ k.clock = Raised(thr[t].clock, t, thr[t].epoch + 1)
  BY <1>1, NextEpochFacts
<1>3. loc' = loc /\ \E done : done.tid = k.tid /\ done.clock = k.clock /\ hist' = Publish(hist, done, w)
  <2>1. CASE Unlock(t)
    BY <2>1 DEF Unlock, Recorded
  <2>2. CASE Finish(t)
    <3>1. loc' = loc /\ hist' = Publish(hist, [k EXCEPT !.status = "finished"], w)
      BY <2>2 DEF Finish, Recorded
    <3> HIDE DEF k
    <3>2. [k EXCEPT !.status = "finished"].tid = k.tid
          /\ [k EXCEPT !.status = "finished"].clock = k.clock
      BY <1>2 DEF ThreadStates
    <3> QED
      BY <3>1, <3>2
  <2> QED
    BY <2>1, <2>2
<1> HIDE DEF k
<1>4. PICK done : done.tid = t /\ done.clock = k.clock /\ hist' = Publish(hist, done, w)
  BY <1>2, <1>3
<1>5. /\ thr'[t].epoch = thr[t].epoch + 1 /\ thr'[t].status # "invalid"
      /\ \A u \in Tid \ {t} : thr'[u] = thr[u]
      /\ thr'[t].clock = Raised(thr[t].clock, t, thr[t].epoch + 1)
      /\ thr'[t].clock \in Clock => ClocksIn(Clock)'
  <2>1. CASE Unlock(t)
    BY <2>1, UnlockStep, ClockLattice DEF NewThread, ThreadIs
  <2>2. CASE Finish(t)
    BY <2>2, FinishStep, ClockLattice DEF NewThread, ThreadIs
  <2> QED
    BY <2>1, <2>2
<1>6. ClocksIn(Clock)'
  BY <1>1, <1>5, RaisedType
<1>7. EndsGrow
  BY <1>3, EndsTyped DEF EndsGrow
<1>8. w \in Views /\ Within(loc', w)
  BY <1>1, <1>3 DEF HistInv, HistoryIn
<1> HIDE DEF w
<1>9. Ticks(t, w, thr'[t].clock, w) /\ SameOrder(hist', hist)
  BY <1>1, <1>2, <1>4, <1>5, <1>6, <1>8, PublishHistory
<1> QED
  BY <1>3, <1>5, <1>6, <1>7, <1>9 DEF PublishedBy, w

\* A fence. What its SC side makes of the history.
OrderFenced(t, mo) ==
  /\ hist'.own = hist.own /\ hist'.sc = hist.sc /\ hist'.scPast = hist.scPast
  /\ IF mo = "seq_cst"
     THEN hist'.fenced = FencedNow(hist, t) /\ hist'.floor = FloorNow(hist, t)
     ELSE hist'.fenced = hist.fenced /\ hist'.floor = hist.floor

FencedHistory(t, mo, th, v) ==
  LET h == Publish(hist, th, hist.view[t])
  IN  [IF mo = "seq_cst" THEN HistFence(h, t) ELSE h EXCEPT !.view[t] = v]

FencedBy(t, mo, c, v) ==
  /\ IsHistory(hist') /\ OrderFenced(t, mo)
  /\ hist'.past = Publishes(hist.past, t, hist.view[t], c)
  /\ hist'.view = [hist.view EXCEPT ![t] = v]

\* What a fence makes of the history, with or without an SC side.
LEMMA FenceHistory ==
  ASSUME IsHistory(hist), hist.view \in [Tid -> Views],
         NEW t \in Tid, NEW mo, NEW th, th.tid = t, NEW v,
         hist' = FencedHistory(t, mo, th, v)
  PROVE  FencedBy(t, mo, th.clock, v)
<1> DEFINE h == Publish(hist, th, hist.view[t])
           k == IF mo = "seq_cst" THEN HistFence(h, t) ELSE h
<1>1. /\ IsHistory(h) /\ SameOrder(h, hist)
      /\ h.view = [hist.view EXCEPT ![th.tid] = hist.view[t]]
      /\ h.past = Publishes(hist.past, th.tid, hist.view[t], th.clock)
  <2>1. PICK w : w = hist.view[t]
    OBVIOUS
  <2>2. h = Publish(hist, th, w)
    BY <2>1
  <2> HIDE DEF h
  <2>3. /\ IsHistory(h) /\ SameOrder(h, hist)
        /\ h.view = [hist.view EXCEPT ![th.tid] = w]
        /\ h.past = Publishes(hist.past, th.tid, w, th.clock)
    BY <2>2, PublishFacts
  <2> QED
    BY <2>1, <2>3
<1>2. PICK r : r = hist'
  OBVIOUS
<1>3. r = ViewSet(k, t, v)
  BY <1>2 DEF ViewSet, FencedHistory
<1>4. h.view = hist.view
  BY <1>1
<1> HIDE DEF h
<1>5. /\ IsHistory(k) /\ k.view = h.view /\ k.past = h.past /\ k.own = h.own
      /\ k.sc = h.sc /\ k.scPast = h.scPast
      /\ IF mo = "seq_cst"
         THEN k.fenced = FencedNow(h, t) /\ k.floor = FloorNow(h, t)
         ELSE k.fenced = h.fenced /\ k.floor = h.floor
  <2>1. CASE mo = "seq_cst"
    <3>1. k = HistFence(h, t)
      BY <2>1
    <3> HIDE DEF k
    <3>2. /\ IsHistory(k) /\ k.view = h.view /\ k.past = h.past /\ k.own = h.own
          /\ k.sc = h.sc /\ k.scPast = h.scPast
          /\ k.fenced = FencedNow(h, t) /\ k.floor = FloorNow(h, t)
      BY <1>1, <3>1, HistFenceFacts
    <3> QED
      BY <2>1, <3>2
  <2>2. CASE mo # "seq_cst"
    BY <1>1, <2>2
  <2> QED
    BY <2>1, <2>2
<1>6. FencedNow(h, t) = FencedNow(hist, t) /\ FloorNow(h, t) = FloorNow(hist, t)
  BY <1>1 DEF SameOrder, FencedNow, FloorNow
<1> HIDE DEF k
<1>7. IsHistory(k)
  BY <1>5
<1>8. /\ IsHistory(r) /\ SameOrder(r, k) /\ r.past = k.past
      /\ r.view = [k.view EXCEPT ![t] = v]
  BY <1>3, <1>7, ViewSetFacts
<1>9. /\ r.own = hist.own /\ r.sc = hist.sc /\ r.scPast = hist.scPast
      /\ IF mo = "seq_cst"
         THEN r.fenced = FencedNow(hist, t) /\ r.floor = FloorNow(hist, t)
         ELSE r.fenced = hist.fenced /\ r.floor = hist.floor
  BY <1>1, <1>5, <1>6, <1>8 DEF SameOrder
<1>10. OrderFenced(t, mo)
  BY <1>2, <1>9 DEF OrderFenced
<1> QED
  BY <1>1, <1>2, <1>4, <1>5, <1>8, <1>10 DEF FencedBy

\* AtomicFence publishes what t knew before its acquire side.
LEMMA FenceEffect ==
  ASSUME KeepsHistory, ClocksIn(Clock), HistInv(hist, thr, loc), NEW t \in Running,
         NEW mo, Fence(t, mo),
         NEW v, v = Learn(hist.view[t], thr'[t].clock),
         NEW e, e = thr[t].epoch + 1
  PROVE  /\ ClocksIn(Clock)' /\ loc' = loc /\ v \in Views /\ Within(loc', v)
         /\ OrderFenced(t, mo)
         /\ Ticks(t, hist.view[t], Raised(thr[t].clock, t, e), v)
         /\ thr'[t].epoch = e
         /\ Leq(Raised(thr[t].clock, t, e), thr'[t].clock)
<1> DEFINE st == Stamped(Ticked(thr[t]))
           th == Released(st, mo)
           c == Raised(thr[t].clock, t, e)
           f == IF mo = "seq_cst" THEN Raised(ctx.sfence, t, e) ELSE ctx.sfence
<1>1. t \in Tid /\ thr[t] \in ThreadStates(Clock) /\ thr[t].tid = t /\ thr[t].epoch \in Nat
      /\ thr[t].epoch + 1 \in Nat /\ thr[t].clock \in Clock
      /\ hist.view[t] \in Views /\ Within(loc, hist.view[t]) /\ IsHistory(hist)
      /\ hist.view \in [Tid -> Views]
  BY RunningParts, ThreadParts, ClockLattice DEF HistInv, HistoryIn
<1>2. /\ st \in ThreadStates(Clock) /\ st.tid = t /\ st.clock = c
  BY <1>1, NextEpochFacts
<1>3. c \in Clock
  BY <1>1, RaisedType
<1>4. PICK g : g = f
  OBVIOUS
<1>5. g = IF mo = "seq_cst" THEN Raised(ctx.sfence, t, e) ELSE ctx.sfence
  BY <1>4
<1>6. /\ NewThread(t, "running", e,
                   IF IsReleaseOrder(mo) THEN e ELSE thr[t].lastRelease,
                   IF mo = "seq_cst" THEN Join(thr[t].slimit, g) ELSE thr[t].slimit,
                   IF mo = "seq_cst" THEN Join(thr[t].swrite, ctx.swrite) ELSE thr[t].swrite,
                   thr[t].sread)
      /\ Acquires(Clock, t, e)
      /\ loc' = loc
      /\ ctx'.sfence = g /\ ctx'.swrite = ctx.swrite
      /\ Raised(thr[t].clock, t, e) \in Clock /\ thr'[t].clock \in Clock => ClocksIn(Clock)'
  BY <1>5, FenceStep, ClockLattice
<1>7. thr'[t].clock \in Clock /\ ClocksIn(Clock)'
  BY <1>1, <1>3, <1>6, AcquiredType
<1>8. EndsGrow
  BY <1>6, EndsTyped DEF EndsGrow
<1>9. v \in Views /\ Within(loc', v)
  BY <1>1, <1>7, <1>8, LearntFacts
<1>10. Leq(c, thr'[t].clock)
  <2>1. PICK d \in Clock : thr'[t].clock = Join(c, d)
    BY <1>6 DEF Acquires
  <2> HIDE DEF c
  <2> QED
    BY <1>3, <2>1, ClockFacts
<1>11. thr'[t].epoch = e /\ thr'[t].status # "invalid"
       /\ \A u \in Tid \ {t} : thr'[u] = thr[u]
  BY <1>6 DEF NewThread, ThreadIs
<1>12. th.tid = t /\ th.clock = c
  BY <1>2, ReleasedFacts
<1>13. hist' = FencedHistory(t, mo, th, v)
  <2> DEFINE sfence == IF mo = "seq_cst" THEN [ctx.sfence EXCEPT ![t] = th.epoch] ELSE ctx.sfence
             sc == IF mo = "seq_cst" THEN SCFence(th, sfence) ELSE th
             rel == IF IsReleaseOrder(mo) THEN [sc EXCEPT !.frel = Join(@, sc.clock)] ELSE sc
             acq == IF IsLoadOrder(mo) THEN Acquire(rel, rel.facq) ELSE rel
             h == Publish(hist, th, hist.view[t])
             k == IF mo = "seq_cst" THEN HistFence(h, t) ELSE h
  <2>1. /\ thr' = [thr EXCEPT ![t] = acq]
        /\ hist' = [k EXCEPT !.view[t] = Learn(@, acq.clock)]
    BY DEF Fence, Recorded
  <2>2. k.view[t] = hist.view[t]
    <3>1. IsHistory(h) /\ h.view = [hist.view EXCEPT ![t] = hist.view[t]]
      <4> HIDE DEF th
      <4>1. PICK w : w = hist.view[t]
        OBVIOUS
      <4>2. h = Publish(hist, th, w)
        BY <4>1
      <4> HIDE DEF h
      <4>3. /\ IsHistory(h) /\ SameOrder(h, hist)
            /\ h.view = [hist.view EXCEPT ![th.tid] = w]
            /\ h.past = Publishes(hist.past, th.tid, w, th.clock)
        BY <1>1, <4>2, PublishFacts
      <4> QED
        BY <1>12, <4>1, <4>3
    <3> HIDE DEF h
    <3>2. h.view[t] = hist.view[t]
      BY <1>1, <3>1
    <3>3. CASE mo = "seq_cst"
      <4>1. HistFence(h, t).view = h.view
        BY <3>1 DEF HistFence, IsHistory
      <4> QED
        BY <3>2, <3>3, <4>1
    <3> QED
      BY <3>2, <3>3
  <2>3. acq = thr'[t]
    <3> HIDE DEF acq
    <3> QED
      BY <1>1, <2>1 DEF ClocksIn, ThreadsIn
  <2> HIDE DEF acq, k
  <2>4. hist' = [k EXCEPT !.view[t] = v]
    BY <2>1, <2>2, <2>3
  <2> QED
    BY <2>4 DEF k, FencedHistory
<1> HIDE DEF th, c
<1>15. /\ IsHistory(hist') /\ OrderFenced(t, mo)
       /\ hist'.past = Publishes(hist.past, t, hist.view[t], th.clock)
       /\ hist'.view = [hist.view EXCEPT ![t] = v]
  <2>1. FencedBy(t, mo, th.clock, v)
    BY <1>1, <1>12, <1>13, FenceHistory
  <2> QED
    BY <2>1 DEF FencedBy
<1>16. Ticks(t, hist.view[t], c, v)
  BY <1>1, <1>3, <1>6, <1>9, <1>10, <1>11, <1>12, <1>15 DEF Ticks
<1> QED
  BY <1>6, <1>7, <1>9, <1>10, <1>11, <1>15, <1>16 DEF c

\* A join.
LEMMA JoinEffect ==
  ASSUME KeepsHistory, ClocksIn(Clock), HistInv(hist, thr, loc), NEW t \in Running,
         NEW u \in Tid, ThreadJoin(t, u),
         NEW v, v = Learn(hist.view[t], thr'[t].clock)
  PROVE  /\ ClocksIn(Clock)' /\ loc' = loc /\ v \in Views /\ Within(loc', v)
         /\ Learns(t, v) /\ SameOrder(hist', hist)
<1> DEFINE done == Acquire(thr[t], thr[u].clock)
<1>1. t \in Tid /\ thr[t] \in ThreadStates(Clock) /\ thr[t].tid = t /\ thr[t].epoch \in Nat
      /\ IsHistory(hist)
  BY RunningParts, ThreadParts, ClockLattice DEF HistInv
<1>2. /\ thr' = [thr EXCEPT ![t] = done, ![u].status = "dead"] /\ loc' = loc
      /\ hist' = [hist EXCEPT !.view[t] = Learn(@, done.clock)]
  BY DEF ThreadJoin, Recorded
<1> HIDE DEF done
<1>3. /\ ThreadIs(t, "running", thr[t].epoch, thr[t].lastRelease,
                  thr[t].slimit, thr[t].swrite, thr[t].sread)
      /\ u # t /\ thr[u].status = "finished"
      /\ ThreadIs(u, "dead", thr[u].epoch, thr[u].lastRelease,
                  thr[u].slimit, thr[u].swrite, thr[u].sread)
      /\ thr'[u].clock = thr[u].clock
      /\ \A w \in Tid \ {t, u} : thr'[w] = thr[w]
      /\ Acquires(Clock, t, thr[t].epoch)
      /\ thr'[t].clock \in Clock => ClocksIn(Clock)'
  BY JoinStep, ClockLattice
<1>4. thr'[t].clock \in Clock /\ ClocksIn(Clock)'
  BY <1>1, <1>3, AcquiredType
<1>5. EndsGrow
  BY <1>2, EndsTyped DEF EndsGrow
<1>6. v \in Views /\ Within(loc', v)
  BY <1>1, <1>4, <1>5, LearntFacts
<1>7. thr'[t] = done
  BY <1>1, <1>2, <1>3 DEF ClocksIn, ThreadsIn
<1>8. PICK r : r = hist'
  OBVIOUS
<1>9. r = ViewSet(hist, t, v)
  BY <1>2, <1>7, <1>8 DEF ViewSet
<1>10. /\ IsHistory(r) /\ SameOrder(r, hist) /\ r.past = hist.past
       /\ r.view = [hist.view EXCEPT ![t] = v]
  BY <1>1, <1>9, ViewSetFacts
<1>11. Learns(t, v) /\ SameOrder(hist', hist)
  BY <1>6, <1>8, <1>10 DEF Learns
<1> QED
  BY <1>2, <1>4, <1>6, <1>11

\* A thread that creates another.
CreatedBy(t, u) ==
  /\ IsHistory(hist') /\ SameOrder(hist', hist)
  /\ hist'.view = [hist.view EXCEPT ![u] = hist.view[t]]
  /\ hist'.past = [Publishes(hist.past, t, hist.view[t], thr'[t].clock)
                     EXCEPT ![u] = << [view |-> hist.view[t], clock |-> thr'[u].clock] >>]

CreatedHistory(h, t, u, c) ==
  [h EXCEPT !.view[u] = h.view[t], !.past[u] = << [view |-> h.view[t], clock |-> c] >>]

\* What a Create makes of the history: the new thread starts with its creator's view.
LEMMA CreateHistory ==
  ASSUME IsHistory(hist), hist.view \in [Tid -> Views], NEW t \in Tid, NEW u \in Tid,
         NEW th, th.tid = t, th.clock = thr'[t].clock,
         NEW h, h = Publish(hist, th, hist.view[t]),
         hist' = CreatedHistory(h, t, u, thr'[u].clock)
  PROVE  CreatedBy(t, u)
<1>1. /\ IsHistory(h) /\ SameOrder(h, hist)
      /\ h.view = [hist.view EXCEPT ![th.tid] = hist.view[t]]
      /\ h.past = Publishes(hist.past, th.tid, hist.view[t], th.clock)
  <2>1. PICK w : w = hist.view[t]
    OBVIOUS
  <2>2. h = Publish(hist, th, w)
    BY <2>1
  <2>3. /\ IsHistory(h) /\ SameOrder(h, hist)
        /\ h.view = [hist.view EXCEPT ![th.tid] = w]
        /\ h.past = Publishes(hist.past, th.tid, w, th.clock)
    BY <2>2, PublishFacts
  <2> QED
    BY <2>1, <2>3
<1>2. h.view = hist.view
  BY <1>1
<1> DEFINE nv == [h.view EXCEPT ![u] = h.view[t]]
           np == [h.past EXCEPT ![u] = << [view |-> h.view[t], clock |-> thr'[u].clock] >>]
<1>3. hist' = [[h EXCEPT !.view = nv] EXCEPT !.past = np]
  <2> DEFINE a == h.view[t]
             b == << [view |-> h.view[t], clock |-> thr'[u].clock] >>
  <2>1. hist' = [h EXCEPT !.view[u] = a, !.past[u] = b]
    BY DEF CreatedHistory
  <2>2. nv = [h.view EXCEPT ![u] = a] /\ np = [h.past EXCEPT ![u] = b]
    OBVIOUS
  <2> HIDE DEF a, b, nv, np
  <2>3. [h EXCEPT !.view[u] = a, !.past[u] = b]
          = [[h EXCEPT !.view = [h.view EXCEPT ![u] = a]]
               EXCEPT !.past = [h.past EXCEPT ![u] = b]]
    BY <1>1 DEF IsHistory
  <2> QED
    BY <2>1, <2>2, <2>3
<1> HIDE DEF nv, np
<1>4. hist' = [view |-> nv, past |-> np, own |-> h.own, fenced |-> h.fenced,
               floor |-> h.floor, sc |-> h.sc, scPast |-> h.scPast]
  BY <1>1, <1>3 DEF IsHistory
<1>5. hist'.view = nv /\ hist'.past = np /\ IsHistory(hist') /\ SameOrder(hist', h)
  <2>1. /\ hist'.view = nv /\ hist'.past = np /\ hist'.own = h.own /\ hist'.fenced = h.fenced
        /\ hist'.floor = h.floor /\ hist'.sc = h.sc /\ hist'.scPast = h.scPast
    BY <1>4
  <2>2. PICK r : r = hist'
    OBVIOUS
  <2>3. r = [view |-> nv, past |-> np, own |-> h.own, fenced |-> h.fenced,
             floor |-> h.floor, sc |-> h.sc, scPast |-> h.scPast]
    BY <1>4, <2>2
  <2>4. IsHistory(r)
    BY <2>3 DEF IsHistory
  <2> QED
    BY <2>1, <2>2, <2>4 DEF SameOrder
<1>6. SameOrder(hist', hist)
  BY <1>1, <1>5 DEF SameOrder
<1>7. hist'.view = [hist.view EXCEPT ![u] = hist.view[t]]
  BY <1>2, <1>5 DEF nv
<1>8. hist'.past = [Publishes(hist.past, t, hist.view[t], thr'[t].clock)
                      EXCEPT ![u] = << [view |-> hist.view[t], clock |-> thr'[u].clock] >>]
  BY <1>1, <1>2, <1>5 DEF np
<1> QED
  BY <1>5, <1>6, <1>7, <1>8 DEF CreatedBy

\* OnCreated and OnStarted do so.
LEMMA CreateEffect ==
  ASSUME KeepsHistory, ClocksIn(Clock), HistInv(hist, thr, loc), NEW t \in Running,
         NEW u \in Tid, Create(t, u)
  PROVE  ClocksIn(Clock)' /\ loc' = loc /\ CreatedBy(t, u)
<1> DEFINE th == Stamped(Ticked(thr[t]))
           f == FirstThread(u, "running")
           new == Acquire(f, th.clock)
           h == Publish(hist, th, hist.view[t])
<1>1. t \in Tid /\ thr[t] \in ThreadStates(Clock) /\ thr[t].tid = t /\ thr[t].epoch \in Nat
      /\ thr[t].epoch + 1 \in Nat /\ thr[t].clock \in Clock
      /\ IsHistory(hist) /\ hist.view \in [Tid -> Views]
  BY RunningParts, ThreadParts, ClockLattice DEF HistInv, HistoryIn
<1>2. /\ ThreadIs(t, "running", thr[t].epoch + 1, thr[t].lastRelease,
                  thr[t].slimit, thr[t].swrite, thr[t].sread)
      /\ u # t /\ thr[u].status = "invalid"
      /\ ThreadIs(u, "running", 1, 0, Zero, Zero, Zero)
      /\ thr'[t].clock = Raised(thr[t].clock, t, thr[t].epoch + 1)
      /\ thr'[u].clock = Join(Raised(Raised(Zero, u, 1), u, 1), thr'[t].clock)
      /\ \A w \in Tid \ {t, u} : thr'[w] = thr[w]
      /\ thr'[t].clock \in Clock /\ thr'[u].clock \in Clock => ClocksIn(Clock)'
  BY CreateStep, ClockLattice
<1>3. thr'[t].clock \in Clock /\ Raised(Raised(Zero, u, 1), u, 1) \in Clock
  BY <1>1, <1>2, RaisedType, ClockFacts
<1>4. ClocksIn(Clock)'
  BY <1>2, <1>3, ClockFacts
<1>5. /\ thr' = [thr EXCEPT ![t] = th, ![u] = new] /\ loc' = loc
      /\ hist' = [h EXCEPT !.view[u] = h.view[t],
                           !.past[u] = << [view |-> h.view[t], clock |-> new.clock] >>]
  BY DEF Create, Recorded
<1>6. th.tid = t
  BY <1>1, NextEpochFacts
<1> HIDE DEF th, new, h
<1>7. th = thr'[t] /\ new = thr'[u]
  BY <1>1, <1>2, <1>5 DEF ClocksIn, ThreadsIn
<1>8. th.clock = thr'[t].clock /\ new.clock = thr'[u].clock
  BY <1>7
<1>9. h = Publish(hist, th, hist.view[t])
  BY DEF h
<1>10. hist' = CreatedHistory(h, t, u, thr'[u].clock)
  BY <1>5, <1>8 DEF CreatedHistory
<1>11. CreatedBy(t, u)
  BY <1>1, <1>6, <1>8, <1>9, <1>10, CreateHistory
<1> QED
  BY <1>4, <1>5, <1>11

\* They keep the history, and what was published before.
LEMMA CreateKept ==
  ASSUME KeepsHistory, ClocksIn(Clock), HistInv(hist, thr, loc), NEW t \in Running,
         NEW u \in Tid, Create(t, u)
  PROVE  Kept
<1>1. ClocksIn(Clock)' /\ loc' = loc /\ CreatedBy(t, u)
  BY CreateEffect
<1>2. /\ ThreadIs(t, "running", thr[t].epoch + 1, thr[t].lastRelease,
                  thr[t].slimit, thr[t].swrite, thr[t].sread)
      /\ u # t /\ thr[u].status = "invalid"
      /\ ThreadIs(u, "running", 1, 0, Zero, Zero, Zero)
      /\ thr'[t].clock = Raised(thr[t].clock, t, thr[t].epoch + 1)
      /\ thr'[u].clock = Join(Raised(Raised(Zero, u, 1), u, 1), thr'[t].clock)
      /\ \A w \in Tid \ {t, u} : thr'[w] = thr[w]
      /\ thr'[t].clock \in Clock /\ thr'[u].clock \in Clock => ClocksIn(Clock)'
  BY CreateStep, ClockLattice
<1>3. /\ t \in Tid /\ thr[t].status = "running" /\ thr[t].epoch \in Nat
      /\ HistoryIn(hist, thr, loc) /\ Published(thr, hist.past)
      /\ hist.view \in [Tid -> Views] /\ hist.past \in [Tid -> Seq(Publications)]
  BY RunningParts, ThreadParts, ClockLattice DEF HistInv, HistoryIn
<1>4. /\ thr'[t].epoch = thr[t].epoch + 1 /\ thr'[t].status = "running"
      /\ thr'[u].epoch = 1 /\ thr'[u].status = "running"
      /\ \A w \in Tid \ {t, u} : thr'[w] = thr[w]
  BY <1>2 DEF ThreadIs
<1>5. /\ hist.view[t] \in Views /\ Within(loc, hist.view[t])
      /\ hist.past[t] \in Seq(Publications) /\ Len(hist.past[t]) = thr[t].epoch
      /\ \A e \in 1..thr[t].epoch : Within(loc, hist.past[t][e].view)
  BY <1>3 DEF HistoryIn
<1> DEFINE p == [view |-> hist.view[t], clock |-> thr'[t].clock]
           q == [view |-> hist.view[t], clock |-> thr'[u].clock]
<1>6. thr'[t].clock \in Clock /\ thr'[u].clock \in Clock
  BY <1>1, <1>3 DEF ClocksIn, ThreadsIn, ThreadStates
<1>7. /\ p \in Publications /\ p.view = hist.view[t] /\ p.clock = thr'[t].clock
      /\ q \in Publications /\ q.view = hist.view[t] /\ q.clock = thr'[u].clock
  BY <1>5, <1>6 DEF Publications
<1>8. /\ IsHistory(hist')
      /\ hist'.view = [hist.view EXCEPT ![u] = hist.view[t]]
      /\ hist'.past = [[hist.past EXCEPT ![t] = Append(@, p)] EXCEPT ![u] = << q >>]
  BY <1>1 DEF CreatedBy, Publishes
<1> HIDE DEF p, q
<1>9. /\ Append(hist.past[t], p) \in Seq(Publications)
      /\ Len(Append(hist.past[t], p)) = thr'[t].epoch
      /\ Append(hist.past[t], p)[thr'[t].epoch] = p
      /\ \A i \in 1..thr[t].epoch : Append(hist.past[t], p)[i] = hist.past[t][i]
  BY <1>4, <1>5, <1>7, AppendFacts
<1>10. << q >> \in Seq(Publications) /\ Len(<< q >>) = 1 /\ << q >>[1] = q
  BY <1>7
<1>11. hist'.view \in [Tid -> Views] /\ hist'.past \in [Tid -> Seq(Publications)]
  BY <1>3, <1>5, <1>8, <1>9, <1>10
<1>12. /\ hist'.past[t] = Append(hist.past[t], p) /\ hist'.past[u] = << q >>
       /\ \A w \in Tid \ {t, u} : hist'.past[w] = hist.past[w]
       /\ hist'.view[u] = hist.view[t]
       /\ \A w \in Tid \ {u} : hist'.view[w] = hist.view[w]
  BY <1>2, <1>3, <1>8
<1>13. \A x \in Loc : /\ End(loc[x].buf) \in Nat /\ End(loc'[x].buf) \in Nat
                      /\ End(loc[x].buf) <= End(loc'[x].buf)
  BY <1>1, EndsTyped
<1>14. ASSUME NEW w \in Tid \ {t, u} PROVE PastOf(hist', thr', loc', w)
  BY <1>3, <1>4, <1>12, <1>13, PastOfOthers
<1>15. PastOf(hist', thr', loc', t)
  <2>1. ASSUME NEW e \in 1..thr'[t].epoch PROVE Within(loc', hist'.past[t][e].view)
    <3>1. CASE e = thr'[t].epoch
      BY <1>1, <1>5, <1>7, <1>9, <1>12, <3>1
    <3>2. CASE e # thr'[t].epoch
      <4>1. e \in 1..thr[t].epoch
        BY <1>3, <1>4, <3>2
      <4> QED
        BY <1>1, <1>5, <1>9, <1>12, <4>1
    <3> QED
      BY <3>1, <3>2
  <2>2. Within(loc', hist'.view[t]) /\ Len(hist'.past[t]) = thr'[t].epoch
    BY <1>1, <1>2, <1>3, <1>5, <1>9, <1>12
  <2> QED
    BY <2>1, <2>2 DEF PastOf
<1>16. PastOf(hist', thr', loc', u)
  <2>1. Within(loc', hist'.view[u]) /\ Len(hist'.past[u]) = thr'[u].epoch
    BY <1>1, <1>4, <1>5, <1>10, <1>12
  <2>2. ASSUME NEW e \in 1..thr'[u].epoch PROVE Within(loc', hist'.past[u][e].view)
    <3>1. e = 1
      BY <1>4
    <3> QED
      BY <1>1, <1>5, <1>7, <1>10, <1>12, <3>1
  <2> QED
    BY <2>1, <2>2 DEF PastOf
<1>17. HistoryIn(hist', thr', loc')
  BY <1>11, <1>14, <1>15, <1>16, PastOfThread
<1>18. \A w \in Tid : Leq(thr'[w].clock, thr'[w].clock)
  <2> SUFFICES ASSUME NEW w \in Tid PROVE Leq(thr'[w].clock, thr'[w].clock)
    OBVIOUS
  <2>1. thr'[w].clock \in Clock
    BY <1>1 DEF ClocksIn, ThreadsIn, ThreadStates
  <2> QED
    BY <2>1 DEF Leq, Clock
<1>19. Published(thr', hist'.past)
  <2> SUFFICES ASSUME NEW w \in Tid
               PROVE  /\ thr'[w].epoch >= 1
                      /\ Leq(hist'.past[w][thr'[w].epoch].clock, thr'[w].clock)
                      /\ thr'[w].status = "invalid" =>
                           thr'[w].epoch = 1 /\ thr'[w].clock = Raised(Zero, w, 1)
    BY DEF Published
  <2>1. CASE w = t
    BY <1>3, <1>4, <1>7, <1>9, <1>12, <1>18, <2>1
  <2>2. CASE w = u
    BY <1>4, <1>7, <1>10, <1>12, <1>18, <2>2
  <2>3. CASE w \notin {t, u}
    BY <1>3, <1>4, <1>12, <2>3 DEF Published
  <2> QED
    BY <2>1, <2>2, <2>3
<1>20. Extends(thr, hist.past, thr', hist'.past)
  <2> SUFFICES ASSUME NEW w \in Tid, thr[w].status # "invalid"
               PROVE  /\ thr'[w].status # "invalid" /\ thr[w].epoch <= thr'[w].epoch
                      /\ \A i \in 1..thr[w].epoch : hist'.past[w][i] = hist.past[w][i]
    BY DEF Extends
  <2>1. CASE w = t
    BY <1>3, <1>4, <1>9, <1>12, <2>1
  <2>2. CASE w \notin {t, u}
    <3>1. thr[w].epoch \in Nat
      BY DEF ClocksIn, ThreadsIn, ThreadStates
    <3> QED
      BY <1>4, <1>12, <2>2, <3>1
  <2> QED
    BY <1>2, <2>1, <2>2
<1> QED
  BY <1>8, <1>17, <1>19, <1>20 DEF Kept, HistInv

\* What is acquired adds to what was known.
LEMMA AcquiresMore ==
  ASSUME ClocksIn(Clock), NEW t \in Running, NEW e \in Nat, thr[t].clock[t] <= e,
         Acquires(Clock, t, e)
  PROVE  Leq(thr[t].clock, thr'[t].clock)
<1>1. t \in Tid /\ thr[t].clock \in Clock
  BY RunningParts, ClockLattice
<1>2. Raised(thr[t].clock, t, e) \in Clock /\ Leq(thr[t].clock, Raised(thr[t].clock, t, e))
  BY <1>1, RaisedFacts
<1> DEFINE a == thr[t].clock
           r == Raised(a, t, e)
<1>3. PICK d \in Clock : thr'[t].clock = Join(r, d)
  BY DEF Acquires
<1>4. r \in Clock /\ a \in Clock /\ Leq(a, r)
  BY <1>1, <1>2
<1> HIDE DEF r, a
<1>5. Join(r, d) \in Clock /\ Leq(r, Join(r, d))
  BY <1>4, ClockFacts
<1>6. Leq(a, thr'[t].clock)
  BY <1>3, <1>4, <1>5, LeqTransitive
<1> QED
  BY <1>6 DEF a

-----------------------------------------------------------------------------
(* Clocks that know all of what they stand for, in every reachable state. *)

\* What every step of a thread starts from.
LEMMA GoodThread ==
  ASSUME GoodInv, NEW t \in Running
  PROVE  /\ ClocksIn(Clock) /\ HistInv(hist, thr, loc)
         /\ t \in Tid /\ thr[t].status # "invalid" /\ thr[t].epoch \in Nat
         /\ thr[t].clock \in Clock /\ thr[t].epoch + 1 \in Nat
<1>1. ClocksIn(Clock) /\ HistInv(hist, thr, loc)
  BY GoodTyped
<1>2. /\ t \in Tid /\ thr[t] \in ThreadStates(Clock) /\ thr[t].status = "running"
  BY <1>1, RunningParts, ClockLattice
<1> QED
  BY <1>1, <1>2, ThreadParts

\* A load.
LEMMA LoadGood ==
  ASSUME KeepsHistory, GoodInv, NEW t \in Running, NEW x \in Loc, NEW mo, NEW p,
         LoadAt(t, x, mo, p)
  PROVE  GoodInv' /\ Kept /\ Leq(thr[t].clock, thr'[t].clock)
<1> DEFINE v == Learn(hist.view[t], thr'[t].clock)
<1>1. /\ ClocksIn(Clock) /\ HistInv(hist, thr, loc)
      /\ t \in Tid /\ thr[t].status # "invalid" /\ thr[t].epoch \in Nat
      /\ thr[t].clock \in Clock /\ thr[t].epoch + 1 \in Nat
  BY GoodThread
<1>2. /\ ClocksIn(Clock)' /\ EndsGrow /\ v \in Views /\ Within(loc', v)
      /\ Learns(t, WithRead(v, x, p)) /\ SameOrder(hist', hist)
      /\ \A z \in Loc : End(loc'[z].buf) = End(loc[z].buf)
  BY <1>1, LoadHistory
<1>3. PICK w : w = WithRead(v, x, p)
  OBVIOUS
<1> HIDE DEF v
<1>4. Learns(t, w)
  BY <1>2, <1>3
<1>5. /\ NewThread(t, "running", thr[t].epoch, thr[t].lastRelease, thr[t].slimit,
                   thr[t].swrite, ScReads(thr[t], mo).sread)
      /\ Acquires(Clock, t, thr[t].epoch)
      /\ NewLocation(x, loc[x].sync, FetchStore(loc[x].buf, ScReads(thr[t], mo), p))
      /\ p \in Held(loc[x].buf)
      /\ thr'[t].clock \in Clock => ClocksIn(Clock)'
  BY <1>1, LoadStep, ClockLattice
<1>6. /\ thr'[t].epoch = thr[t].epoch /\ thr'[t].status # "invalid"
      /\ \A u \in Tid \ {t} : thr'[u] = thr[u]
  BY <1>5 DEF NewThread, ThreadIs
<1>7. thr[t].clock[t] <= thr[t].epoch
  BY <1>1 DEF GoodInv, ClocksIn, ThreadsIn, GoodClocks, Reached
<1>8. Leq(thr[t].clock, thr'[t].clock)
  BY <1>1, <1>5, <1>7, AcquiresMore
<1>9. ASSUME NEW u \in Tid
      PROVE  /\ thr'[u].epoch = thr[u].epoch
             /\ Leq(thr[u].clock, thr'[u].clock)
             /\ IF thr[u].status = "invalid" THEN thr'[u] = thr[u]
                                             ELSE thr'[u].status # "invalid"
  <2>1. CASE u = t
    BY <1>1, <1>6, <1>8, <2>1
  <2>2. CASE u # t
    <3>1. thr[u].clock \in Clock
      BY <1>1 DEF ClocksIn, ThreadsIn, ThreadStates
    <3>2. Leq(thr[u].clock, thr[u].clock)
      BY <3>1 DEF Leq, Clock
    <3> QED
      BY <1>6, <2>2, <3>2
  <2> QED
    BY <2>1, <2>2
<1>10. Kept
  BY <1>1, <1>2, <1>4, <1>9, LearnKept
<1>11. PICK H : H = GoodClocks(thr', hist'.past)
  OBVIOUS
<1>12. Lattice(H) /\ ClocksIn(H)
  BY <1>10, <1>11, GoodAfter
<1>13. /\ NewThread(t, "running", thr[t].epoch, thr[t].lastRelease, thr[t].slimit,
                    thr[t].swrite, ScReads(thr[t], mo).sread)
       /\ Acquires(H, t, thr[t].epoch)
       /\ NewLocation(x, loc[x].sync, FetchStore(loc[x].buf, ScReads(thr[t], mo), p))
       /\ p \in Held(loc[x].buf)
       /\ thr'[t].clock \in H => ClocksIn(H)'
  BY <1>12, LoadStep
<1>14. Acquires(H, t, thr'[t].epoch)
  BY <1>6, <1>13
<1>15. thr'[t].clock \in H
  BY <1>6, <1>10, <1>11, <1>14, GoodAcquires
<1> QED
  BY <1>8, <1>10, <1>11, <1>13, <1>15, GoodConclude

\* The steps that enter an epoch, once it is known what they acquire.
LEMMA TickGood ==
  ASSUME GoodInv, ClocksIn(Clock)', EndsGrow, NEW t \in Running,
         NEW pv, NEW pc, NEW v, Ticks(t, pv, pc, v),
         NEW H, H = GoodClocks(thr', hist'.past),
         Lattice(H) /\ ClocksIn(H) => \/ Acquires(H, t, thr'[t].epoch)
                                      \/ thr'[t].clock = thr[t].clock,
         Lattice(H) /\ ClocksIn(H) /\ thr'[t].clock \in H => ClocksIn(H)'
  PROVE  GoodInv' /\ Kept /\ Leq(thr[t].clock, thr'[t].clock)
<1>1. /\ ClocksIn(Clock) /\ HistInv(hist, thr, loc)
      /\ t \in Tid /\ thr[t].status # "invalid" /\ thr[t].epoch \in Nat
      /\ thr[t].clock \in Clock /\ thr[t].epoch + 1 \in Nat
  BY GoodThread
<1>2. Kept
  BY <1>1, TickKept
<1>3. Lattice(H) /\ ClocksIn(H)
  BY <1>2, GoodAfter
<1>4. thr'[t].clock \in H /\ Leq(thr[t].clock, thr'[t].clock)
  <2>1. CASE Acquires(H, t, thr'[t].epoch)
    <3>1. thr'[t].status # "invalid"
      BY DEF Ticks
    <3> QED
      BY <1>2, <2>1, <3>1, GoodAcquires
  <2>2. CASE thr'[t].clock = thr[t].clock
    <3>1. thr[t].clock \in H
      BY <1>3, RunningParts
    <3>2. Leq(thr[t].clock, thr[t].clock)
      BY <1>1 DEF Leq, Clock
    <3> QED
      BY <2>2, <3>1, <3>2
  <2> QED
    BY <1>3, <2>1, <2>2
<1> QED
  BY <1>2, <1>3, <1>4, GoodConclude

\* A step of t keeps the clocks good, and t forgets nothing.
StepGood(t) == GoodInv' /\ Kept /\ Leq(thr[t].clock, thr'[t].clock)

\* A store, once it is known what it does and what it acquires.
LEMMA StoredGood ==
  ASSUME GoodInv, NEW t \in Running, NEW x \in Loc, NEW mo, NEW th, NEW v,
         StoredBy(t, x, mo, th, v),
         NEW H, H = GoodClocks(thr', hist'.past),
         Lattice(H) /\ ClocksIn(H) => \/ Acquires(H, t, thr'[t].epoch)
                                      \/ thr'[t].clock = thr[t].clock,
         Lattice(H) /\ ClocksIn(H) /\ thr'[t].clock \in H => ClocksIn(H)'
  PROVE  StepGood(t)
<1> DEFINE w == WithStore(v, x, End(loc'[x].buf))
           c == thr'[t].clock
<1>1. ClocksIn(Clock)' /\ EndsGrow /\ Ticks(t, w, c, w)
  BY DEF StoredBy
<1> HIDE DEF w, c
<1>2. PICK w2, c2 : w2 = w /\ c2 = c
  OBVIOUS
<1>3. Ticks(t, w2, c2, w2)
  BY <1>1, <1>2
<1> QED
  BY <1>1, <1>3, TickGood DEF StepGood

\* AtomicStore keeps the clocks good.
LEMMA StoreGood ==
  ASSUME KeepsHistory, GoodInv, NEW t \in Running, NEW x \in Loc, NEW mo, Store(t, x, mo)
  PROVE  StepGood(t)
<1>1. ClocksIn(Clock) /\ HistInv(hist, thr, loc)
  BY GoodThread
<1>2. PICK th : th = Stamped(Ticked(thr[t]))
  OBVIOUS
<1>3. PICK v : v = Learn(hist.view[t], thr'[t].clock)
  OBVIOUS
<1>4. StoredBy(t, x, mo, th, v)
  BY <1>1, <1>2, <1>3, StoreEffect
<1>5. PICK H : H = GoodClocks(thr', hist'.past)
  OBVIOUS
<1>6. ASSUME Lattice(H), ClocksIn(H)
      PROVE  /\ NewThread(t, "running", thr[t].epoch + 1,
                          IF IsReleaseOrder(mo) THEN thr[t].epoch + 1 ELSE thr[t].lastRelease,
                          thr[t].slimit, thr[t].swrite, thr[t].sread)
             /\ Acquires(H, t, thr[t].epoch + 1)
             /\ thr'[t].clock = th.clock
             /\ \E sync : NewLocation(x, sync, Buffered(x, th, mo))
             /\ ctx'.sfence = ctx.sfence
             /\ ctx'.swrite = IF mo = "seq_cst" THEN Raised(ctx.swrite, t, thr[t].epoch + 1)
                                                ELSE ctx.swrite
             /\ thr'[t].clock \in H => ClocksIn(H)'
  BY <1>2, <1>6, StoreStep
<1>7. thr'[t].epoch = thr[t].epoch + 1
  BY <1>4 DEF StoredBy, Ticks
<1> QED
  BY <1>4, <1>5, <1>6, <1>7, StoredGood

\* AtomicRMW and AtomicCAS keep the clocks good.
LEMMA RmwGood ==
  ASSUME KeepsHistory, GoodInv, NEW t \in Running, NEW x \in Loc, NEW mo,
         NEW keep \in BOOLEAN, Rmw(t, x, mo, keep)
  PROVE  StepGood(t)
<1>1. ClocksIn(Clock) /\ HistInv(hist, thr, loc)
  BY GoodThread
<1>2. PICK th : th = ScReads(Stamped(Ticked(thr[t])), mo)
  OBVIOUS
<1>3. PICK v : v = Learn(hist.view[t], thr'[t].clock)
  OBVIOUS
<1>4. StoredBy(t, x, mo, th, v)
  BY <1>1, <1>2, <1>3, RmwEffect
<1>5. PICK H : H = GoodClocks(thr', hist'.past)
  OBVIOUS
<1>6. ASSUME Lattice(H), ClocksIn(H)
      PROVE  /\ NewThread(t, "running", thr[t].epoch + 1,
                          IF IsReleaseOrder(mo) THEN thr[t].epoch + 1 ELSE thr[t].lastRelease,
                          thr[t].slimit, thr[t].swrite, ScReads(thr[t], mo).sread)
             /\ Acquires(H, t, thr[t].epoch + 1)
             /\ \E sync : NewLocation(x, sync, Buffered(x, th, mo))
             /\ ctx'.sfence = ctx.sfence
             /\ ctx'.swrite = IF mo = "seq_cst" THEN Raised(ctx.swrite, t, thr[t].epoch + 1)
                                                ELSE ctx.swrite
             /\ thr'[t].clock \in H => ClocksIn(H)'
  BY <1>2, <1>6, RmwStep
<1>7. thr'[t].epoch = thr[t].epoch + 1
  BY <1>4 DEF StoredBy, Ticks
<1> QED
  BY <1>4, <1>5, <1>6, <1>7, StoredGood

\* AtomicCAS with mo_relaxed keeps the clocks good.
LEMMA CasRelaxedGood ==
  ASSUME KeepsHistory, GoodInv, NEW t \in Running, NEW x \in Loc, CasRelaxed(t, x)
  PROVE  StepGood(t)
<1>1. ClocksIn(Clock) /\ HistInv(hist, thr, loc)
  BY GoodThread
<1>2. PICK th : th = Ticked(thr[t])
  OBVIOUS
<1>3. PICK v : v = Learn(hist.view[t], thr'[t].clock)
  OBVIOUS
<1>4. StoredBy(t, x, "relaxed", th, v)
  BY <1>1, <1>2, <1>3, CasRelaxedEffect
<1>5. PICK H : H = GoodClocks(thr', hist'.past)
  OBVIOUS
<1>6. ASSUME Lattice(H), ClocksIn(H)
      PROVE  /\ NewThread(t, "running", thr[t].epoch + 1, thr[t].lastRelease,
                          thr[t].slimit, thr[t].swrite, thr[t].sread)
             /\ thr'[t].clock = thr[t].clock
             /\ NewLocation(x, loc[x].sync, Buffered(x, th, "relaxed"))
             /\ ClocksIn(H)'
  BY <1>2, <1>6, CasRelaxedStep
<1> QED
  BY <1>4, <1>5, <1>6, StoredGood

\* AtomicCAS that fails keeps the clocks good.
LEMMA CasFailGood ==
  ASSUME KeepsHistory, GoodInv, NEW t \in Running, NEW x \in Loc, NEW fmo, CasFail(t, x, fmo)
  PROVE  StepGood(t)
<1>1. ClocksIn(Clock) /\ HistInv(hist, thr, loc)
  BY GoodThread
<1>2. PICK th : th = ScReads(Ticked(thr[t]), fmo)
  OBVIOUS
<1>3. PICK v : v = Learn(hist.view[t], thr'[t].clock)
  OBVIOUS
<1> DEFINE w == WithRead(v, x, End(loc[x].buf))
<1>4. /\ PublishedBy(t, w) /\ v \in Views /\ Within(loc', v)
      /\ \A z \in Loc : End(loc'[z].buf) = End(loc[z].buf)
  BY <1>1, <1>3, CasFailEffect
<1>5. PICK H : H = GoodClocks(thr', hist'.past)
  OBVIOUS
<1>6. ASSUME Lattice(H), ClocksIn(H)
      PROVE  /\ NewThread(t, "running", thr[t].epoch + 1, thr[t].lastRelease,
                          thr[t].slimit, thr[t].swrite, ScReads(thr[t], fmo).sread)
             /\ IF IsAcquireOrder(fmo) THEN Acquires(H, t, thr[t].epoch + 1)
                                       ELSE thr'[t].clock = thr[t].clock
             /\ NewLocation(x, loc[x].sync, AdvanceToEnd(loc[x].buf, th))
             /\ thr'[t].clock \in H => ClocksIn(H)'
  BY <1>2, <1>6, CasFailStep
<1> HIDE DEF w
<1>7. PICK c : c = thr'[t].clock
  OBVIOUS
<1>8. ClocksIn(Clock)' /\ EndsGrow /\ Ticks(t, w, c, w) /\ thr'[t].epoch = thr[t].epoch + 1
  BY <1>4, <1>7 DEF PublishedBy, Ticks
<1> QED
  BY <1>5, <1>6, <1>8, TickGood DEF StepGood

\* AtomicFence keeps the clocks good.
LEMMA FenceGood ==
  ASSUME KeepsHistory, GoodInv, NEW t \in Running, NEW mo, Fence(t, mo)
  PROVE  StepGood(t)
<1>1. ClocksIn(Clock) /\ HistInv(hist, thr, loc) /\ t \in Tid /\ thr[t].clock \in Clock
      /\ thr[t].epoch + 1 \in Nat
  BY GoodThread
<1>2. PICK e : e = thr[t].epoch + 1
  OBVIOUS
<1>3. PICK v : v = Learn(hist.view[t], thr'[t].clock)
  OBVIOUS
<1>4. /\ ClocksIn(Clock)' /\ loc' = loc /\ v \in Views /\ Within(loc', v)
      /\ OrderFenced(t, mo)
      /\ Ticks(t, hist.view[t], Raised(thr[t].clock, t, e), v)
      /\ thr'[t].epoch = e
      /\ Leq(Raised(thr[t].clock, t, e), thr'[t].clock)
  BY <1>1, <1>2, <1>3, FenceEffect
<1>5. EndsGrow
  BY <1>1, <1>4, EndsTyped DEF EndsGrow
<1>6. PICK pv, pc : pv = hist.view[t] /\ pc = Raised(thr[t].clock, t, e)
  OBVIOUS
<1>7. Ticks(t, pv, pc, v)
  BY <1>4, <1>6
<1>8. Kept /\ hist'.past[t][thr'[t].epoch] = [view |-> pv, clock |-> pc]
  BY <1>1, <1>4, <1>5, <1>7, TickKept, GoodThread
<1>9. PICK H : H = GoodClocks(thr', hist'.past)
  OBVIOUS
<1>10. Lattice(H) /\ ClocksIn(H)
  BY <1>8, <1>9, GoodAfter
<1>11. pc \in H
  <2>1. thr[t].clock \in H /\ Zero \in H
    BY <1>10, RunningParts DEF Lattice
  <2>2. PastIn(thr', hist'.past)
    BY <1>8, HistoryPast DEF Kept
  <2>3. pc \in Clock
    BY <1>7 DEF Ticks
  <2>4. pc = Join(Raised(thr[t].clock, t, thr'[t].epoch), Zero)
    BY <1>4, <1>6, <2>3, ZeroFacts
  <2>5. Leq(hist'.past[t][thr'[t].epoch].clock, pc)
    BY <1>8, <2>3 DEF Leq, Clock
  <2>6. thr'[t].status # "invalid"
    BY <1>7 DEF Ticks
  <2> DEFINE a == thr[t].clock
  <2>7. a \in H /\ pc = Join(Raised(a, t, thr'[t].epoch), Zero)
    BY <2>1, <2>4
  <2> HIDE DEF a
  <2> QED
    BY <1>1, <1>9, <2>1, <2>2, <2>5, <2>6, <2>7, AcquiredGood
<1>12. PICK f : f = IF mo = "seq_cst" THEN Raised(ctx.sfence, t, e) ELSE ctx.sfence
  OBVIOUS
<1>13. /\ NewThread(t, "running", e,
                    IF IsReleaseOrder(mo) THEN e ELSE thr[t].lastRelease,
                    IF mo = "seq_cst" THEN Join(thr[t].slimit, f) ELSE thr[t].slimit,
                    IF mo = "seq_cst" THEN Join(thr[t].swrite, ctx.swrite) ELSE thr[t].swrite,
                    thr[t].sread)
       /\ Acquires(H, t, e)
       /\ loc' = loc
       /\ ctx'.sfence = f /\ ctx'.swrite = ctx.swrite
       /\ Raised(thr[t].clock, t, e) \in H /\ thr'[t].clock \in H => ClocksIn(H)'
  BY <1>2, <1>10, <1>12, FenceStep
<1>14. thr'[t].clock \in H => ClocksIn(H)'
  BY <1>6, <1>11, <1>13
<1> QED
  BY <1>4, <1>5, <1>7, <1>9, <1>13, <1>14, TickGood DEF StepGood

\* MutexLock, MutexUnlock and OnFinished keep the clocks good.
LEMMA MutexGood ==
  ASSUME KeepsHistory, GoodInv, NEW t \in Running, Lock(t) \/ Unlock(t) \/ Finish(t)
  PROVE  StepGood(t)
<1>1. ClocksIn(Clock) /\ HistInv(hist, thr, loc) /\ thr[t].epoch + 1 \in Nat
  BY GoodThread
<1>2. PICK H : H = GoodClocks(thr', hist'.past)
  OBVIOUS
<1>3. CASE Lock(t)
  <2>1. PICK w : w = Learn(hist.view[t], thr'[t].clock)
    OBVIOUS
  <2>2. PublishedBy(t, w) /\ w \in Views /\ Within(loc', w) /\ loc' = loc
    BY <1>1, <1>3, <2>1, LockEffect
  <2>3. ASSUME Lattice(H), ClocksIn(H)
        PROVE  /\ NewThread(t, "running", thr[t].epoch + 1, thr[t].lastRelease,
                            thr[t].slimit, thr[t].swrite, thr[t].sread)
               /\ Acquires(H, t, thr[t].epoch + 1)
               /\ thr'[t].clock \in H => ClocksIn(H)'
    BY <1>3, <2>3, LockStep
  <2>4. PICK c : c = thr'[t].clock
    OBVIOUS
  <2>5. ClocksIn(Clock)' /\ EndsGrow /\ Ticks(t, w, c, w) /\ thr'[t].epoch = thr[t].epoch + 1
    BY <2>2, <2>4 DEF PublishedBy, Ticks
  <2> QED
    BY <1>2, <2>3, <2>5, TickGood DEF StepGood
<1>4. CASE Unlock(t) \/ Finish(t)
  <2>1. /\ PublishedBy(t, hist.view[t]) /\ loc' = loc
        /\ thr'[t].clock = Raised(thr[t].clock, t, thr'[t].epoch)
    BY <1>1, <1>4, StampEffect
  <2>2. PICK w, c : w = hist.view[t] /\ c = thr'[t].clock
    OBVIOUS
  <2>3. ClocksIn(Clock)' /\ EndsGrow /\ Ticks(t, w, c, w) /\ thr'[t].epoch = thr[t].epoch + 1
    BY <2>1, <2>2 DEF PublishedBy, Ticks
  <2>4. ASSUME Lattice(H), ClocksIn(H)
        PROVE  /\ Acquires(H, t, thr'[t].epoch)
               /\ thr'[t].clock \in H => ClocksIn(H)'
    <3>1. Acquires(H, t, thr'[t].epoch)
      BY <1>1, <2>1, <2>3, <2>4, StampAcquires
    <3>2. CASE Unlock(t)
      <4>1. /\ NewThread(t, "running", thr[t].epoch + 1, thr[t].lastRelease,
                         thr[t].slimit, thr[t].swrite, thr[t].sread)
            /\ thr'[t].clock = Raised(thr[t].clock, t, thr[t].epoch + 1)
            /\ thr'[t].clock \in H => ClocksIn(H)'
        BY <2>4, <3>2, UnlockStep
      <4> QED
        BY <3>1, <4>1
    <3>3. CASE Finish(t)
      <4>1. /\ NewThread(t, "finished", thr[t].epoch + 1, thr[t].lastRelease,
                         thr[t].slimit, thr[t].swrite, thr[t].sread)
            /\ thr'[t].clock = Raised(thr[t].clock, t, thr[t].epoch + 1)
            /\ thr'[t].clock \in H => ClocksIn(H)'
        BY <2>4, <3>3, FinishStep
      <4> QED
        BY <3>1, <4>1
    <3> QED
      BY <1>4, <3>2, <3>3
  <2> QED
    BY <1>2, <2>3, <2>4, TickGood DEF StepGood
<1> QED
  BY <1>3, <1>4

\* OnJoined keeps the clocks good.
LEMMA JoinGood ==
  ASSUME KeepsHistory, GoodInv, NEW t \in Running, NEW u \in Tid, ThreadJoin(t, u)
  PROVE  StepGood(t)
<1>1. /\ ClocksIn(Clock) /\ HistInv(hist, thr, loc)
      /\ t \in Tid /\ thr[t].status # "invalid" /\ thr[t].epoch \in Nat
      /\ thr[t].clock \in Clock /\ thr[t].epoch + 1 \in Nat
  BY GoodThread
<1>2. PICK v : v = Learn(hist.view[t], thr'[t].clock)
  OBVIOUS
<1>3. /\ ClocksIn(Clock)' /\ loc' = loc /\ v \in Views /\ Within(loc', v)
      /\ Learns(t, v) /\ SameOrder(hist', hist)
  BY <1>1, <1>2, JoinEffect
<1>4. EndsGrow
  BY <1>1, <1>3, EndsTyped DEF EndsGrow
<1>5. /\ ThreadIs(t, "running", thr[t].epoch, thr[t].lastRelease,
                  thr[t].slimit, thr[t].swrite, thr[t].sread)
      /\ u # t /\ thr[u].status = "finished"
      /\ ThreadIs(u, "dead", thr[u].epoch, thr[u].lastRelease,
                  thr[u].slimit, thr[u].swrite, thr[u].sread)
      /\ thr'[u].clock = thr[u].clock
      /\ \A w \in Tid \ {t, u} : thr'[w] = thr[w]
      /\ Acquires(Clock, t, thr[t].epoch)
      /\ thr'[t].clock \in Clock => ClocksIn(Clock)'
  BY <1>1, JoinStep, ClockLattice
<1>6. /\ thr'[t].epoch = thr[t].epoch /\ thr'[t].status = "running"
      /\ thr'[u].epoch = thr[u].epoch /\ thr'[u].status = "dead"
  BY <1>5 DEF ThreadIs
<1>7. thr[t].clock[t] <= thr[t].epoch
  BY <1>1 DEF GoodInv, ClocksIn, ThreadsIn, GoodClocks, Reached
<1>8. Leq(thr[t].clock, thr'[t].clock)
  BY <1>1, <1>5, <1>7, AcquiresMore
<1>9. ASSUME NEW w \in Tid
      PROVE  /\ thr'[w].epoch = thr[w].epoch
             /\ Leq(thr[w].clock, thr'[w].clock)
             /\ IF thr[w].status = "invalid" THEN thr'[w] = thr[w]
                                             ELSE thr'[w].status # "invalid"
  <2>1. thr[w].clock \in Clock
    BY <1>1 DEF ClocksIn, ThreadsIn, ThreadStates
  <2>2. Leq(thr[w].clock, thr[w].clock)
    BY <2>1 DEF Leq, Clock
  <2>3. CASE w = t
    BY <1>1, <1>6, <1>8, <2>3
  <2>4. CASE w = u
    BY <1>5, <1>6, <2>2, <2>4
  <2>5. CASE w \notin {t, u}
    BY <1>5, <2>2, <2>5
  <2> QED
    BY <2>3, <2>4, <2>5
<1>10. Kept
  BY <1>1, <1>3, <1>4, <1>9, LearnKept
<1>11. PICK H : H = GoodClocks(thr', hist'.past)
  OBVIOUS
<1>12. Lattice(H) /\ ClocksIn(H)
  BY <1>10, <1>11, GoodAfter
<1>13. /\ ThreadIs(t, "running", thr[t].epoch, thr[t].lastRelease,
                   thr[t].slimit, thr[t].swrite, thr[t].sread)
       /\ u # t /\ thr[u].status = "finished"
       /\ ThreadIs(u, "dead", thr[u].epoch, thr[u].lastRelease,
                   thr[u].slimit, thr[u].swrite, thr[u].sread)
       /\ thr'[u].clock = thr[u].clock
       /\ \A w \in Tid \ {t, u} : thr'[w] = thr[w]
       /\ Acquires(H, t, thr[t].epoch)
       /\ thr'[t].clock \in H => ClocksIn(H)'
  BY <1>12, JoinStep
<1>14. Acquires(H, t, thr'[t].epoch) /\ thr'[t].status # "invalid"
  BY <1>6, <1>13
<1>15. thr'[t].clock \in H
  BY <1>10, <1>11, <1>14, GoodAcquires
<1> QED
  BY <1>8, <1>10, <1>11, <1>13, <1>15, GoodConclude DEF StepGood

\* OnCreated and OnStarted keep the clocks good.
LEMMA CreateGood ==
  ASSUME KeepsHistory, GoodInv, NEW t \in Running, NEW u \in Tid, Create(t, u)
  PROVE  StepGood(t)
<1>1. /\ ClocksIn(Clock) /\ HistInv(hist, thr, loc)
      /\ t \in Tid /\ thr[t].status # "invalid" /\ thr[t].epoch \in Nat
      /\ thr[t].clock \in Clock /\ thr[t].epoch + 1 \in Nat
  BY GoodThread
<1>2. Kept
  BY <1>1, CreateKept
<1>3. PICK H : H = GoodClocks(thr', hist'.past)
  OBVIOUS
<1>4. Lattice(H) /\ ClocksIn(H) /\ PastIn(thr', hist'.past) /\ Published(thr', hist'.past)
  BY <1>2, <1>3, GoodAfter, HistoryPast DEF Kept
<1>5. /\ ThreadIs(t, "running", thr[t].epoch + 1, thr[t].lastRelease,
                  thr[t].slimit, thr[t].swrite, thr[t].sread)
      /\ u # t /\ thr[u].status = "invalid"
      /\ ThreadIs(u, "running", 1, 0, Zero, Zero, Zero)
      /\ thr'[t].clock = Raised(thr[t].clock, t, thr[t].epoch + 1)
      /\ thr'[u].clock = Join(Raised(Raised(Zero, u, 1), u, 1), thr'[t].clock)
      /\ \A w \in Tid \ {t, u} : thr'[w] = thr[w]
      /\ thr'[t].clock \in H /\ thr'[u].clock \in H => ClocksIn(H)'
  BY <1>4, CreateStep
<1>6. /\ thr'[t].epoch = thr[t].epoch + 1 /\ thr'[t].status # "invalid"
      /\ thr'[u].epoch = 1 /\ thr'[u].status # "invalid"
  BY <1>5 DEF ThreadIs
<1>7. Acquires(H, t, thr'[t].epoch)
  BY <1>1, <1>4, <1>5, <1>6, StampAcquires
<1>8. thr'[t].clock \in H /\ Leq(thr[t].clock, thr'[t].clock)
  BY <1>2, <1>3, <1>6, <1>7, GoodAcquires
<1>9. thr'[u].clock \in H
  <2>1. Raised(Raised(Zero, u, 1), u, 1) = Raised(Zero, u, 1)
    <3>1. Zero \in Clock
      BY ClockFacts
    <3> QED
      BY <3>1, RaisedTwice
  <2>2. Zero \in H
    BY <1>4 DEF Lattice
  <2>3. Leq(hist'.past[u][thr'[u].epoch].clock, thr'[u].clock)
    BY <1>4 DEF Published
  <2> DEFINE d == thr'[t].clock
             c == thr'[u].clock
  <2>4. d \in H /\ c = Join(Raised(Zero, u, thr'[u].epoch), d)
    BY <1>5, <1>6, <1>8, <2>1
  <2>5. Leq(hist'.past[u][thr'[u].epoch].clock, c)
    BY <2>3
  <2> HIDE DEF d, c
  <2>6. c \in H
    BY <1>3, <1>4, <1>6, <2>2, <2>4, <2>5, AcquiredGood
  <2> QED
    BY <2>6 DEF c
<1> QED
  BY <1>2, <1>3, <1>5, <1>8, <1>9, GoodConclude DEF StepGood

\* Every step of a thread.
LEMMA StepIsGood ==
  ASSUME KeepsHistory, GoodInv, NEW t \in Running, StepOf(t)
  PROVE  StepGood(t)
<1>1. ASSUME NEW x \in Loc, NEW mo, NEW p, LoadAt(t, x, mo, p) PROVE StepGood(t)
  BY <1>1, LoadGood DEF StepGood
<1>2. ASSUME NEW x \in Loc, NEW mo, Store(t, x, mo) PROVE StepGood(t)
  BY <1>2, StoreGood
<1>3. ASSUME NEW x \in Loc, NEW mo, NEW keep \in BOOLEAN, Rmw(t, x, mo, keep) PROVE StepGood(t)
  BY <1>3, RmwGood
<1>4. ASSUME NEW x \in Loc, CasRelaxed(t, x) PROVE StepGood(t)
  BY <1>4, CasRelaxedGood
<1>5. ASSUME NEW x \in Loc, NEW fmo, CasFail(t, x, fmo) PROVE StepGood(t)
  BY <1>5, CasFailGood
<1>6. ASSUME NEW mo, Fence(t, mo) PROVE StepGood(t)
  BY <1>6, FenceGood
<1>7. ASSUME Lock(t) \/ Unlock(t) \/ Finish(t) PROVE StepGood(t)
  BY <1>7, MutexGood
<1>8. ASSUME NEW u \in Tid, Create(t, u) PROVE StepGood(t)
  BY <1>8, CreateGood
<1>9. ASSUME NEW u \in Tid, ThreadJoin(t, u) PROVE StepGood(t)
  BY <1>9, JoinGood
<1> QED
  BY <1>1, <1>2, <1>3, <1>4, <1>5, <1>6, <1>7, <1>8, <1>9 DEF StepOf

\* The first state.
LEMMA FirstHistory ==
  ASSUME KeepsHistory, Init
  PROVE  /\ IsHistory(hist)
         /\ \A t \in Tid : /\ hist.view[t] = FirstView
                           /\ hist.past[t] = << [view |-> FirstView, clock |-> Raised(Zero, t, 1)] >>
                           /\ thr[t].epoch = 1 /\ thr[t].clock = Raised(Zero, t, 1)
         /\ hist.view \in [Tid -> Views] /\ hist.past \in [Tid -> Seq(Publications)]
         /\ FirstView \in Views /\ Within(loc, FirstView)
         /\ \A x \in Loc : End(loc[x].buf) = 1
<1>1. /\ thr = [t \in Tid |-> FirstThread(t, IF Creator[t] = NoTid THEN "running" ELSE "invalid")]
      /\ loc = [x \in Loc |-> [sync |-> Reset, buf |-> EmptyBuffer]]
      /\ hist = NoHistory
  BY DEF Init, InitWith
<1>2. \A x \in Loc : End(loc[x].buf) = 1
  BY <1>1 DEF EmptyBuffer, End
<1>3. FirstView \in Views /\ Within(loc, FirstView)
  BY <1>2 DEF FirstView, Views, Within
<1>4. ASSUME NEW t \in Tid
      PROVE  [view |-> FirstView, clock |-> Raised(Zero, t, 1)] \in Publications
  <2>1. Raised(Zero, t, 1) \in Clock
    BY ClockFacts, RaisedType
  <2> QED
    BY <1>3, <2>1 DEF Publications
<1>5. ASSUME NEW t \in Tid
      PROVE  /\ hist.view[t] = FirstView
             /\ hist.past[t] = << [view |-> FirstView, clock |-> Raised(Zero, t, 1)] >>
  BY <1>1 DEF NoHistory, Raised
<1>6. hist.view \in [Tid -> Views]
  BY <1>1, <1>3 DEF NoHistory
<1>7. hist.past \in [Tid -> Seq(Publications)]
  <2>1. hist.past = [t \in Tid |-> hist.past[t]]
    BY <1>1 DEF NoHistory
  <2>2. ASSUME NEW t \in Tid PROVE hist.past[t] \in Seq(Publications)
    <3>1. PICK p : p = [view |-> FirstView, clock |-> Raised(Zero, t, 1)]
      OBVIOUS
    <3>2. p \in Publications /\ hist.past[t] = << p >>
      BY <1>4, <1>5, <3>1
    <3> QED
      BY <3>2
  <2> QED
    BY <2>1, <2>2
<1>8. ASSUME NEW t \in Tid PROVE thr[t].epoch = 1 /\ thr[t].clock = Raised(Zero, t, 1)
  BY <1>1 DEF FirstThread, Raised
<1>9. IsHistory(hist)
  BY <1>1 DEF IsHistory, NoHistory
<1> QED
  BY <1>2, <1>3, <1>5, <1>6, <1>7, <1>8, <1>9

\* The first clocks are good.
LEMMA InitGood ==
  ASSUME KeepsHistory, Init
  PROVE  GoodInv
<1>1. /\ IsHistory(hist)
      /\ \A t \in Tid : /\ hist.view[t] = FirstView
                        /\ hist.past[t] = << [view |-> FirstView, clock |-> Raised(Zero, t, 1)] >>
                        /\ thr[t].epoch = 1 /\ thr[t].clock = Raised(Zero, t, 1)
      /\ hist.view \in [Tid -> Views] /\ hist.past \in [Tid -> Seq(Publications)]
      /\ FirstView \in Views /\ Within(loc, FirstView)
      /\ \A x \in Loc : End(loc[x].buf) = 1
  BY FirstHistory
<1>2. \A t \in Tid : /\ Raised(Zero, t, 1) \in Clock
                     /\ Leq(Raised(Zero, t, 1), Raised(Zero, t, 1))
  <2> SUFFICES ASSUME NEW t \in Tid
               PROVE  Raised(Zero, t, 1) \in Clock /\ Leq(Raised(Zero, t, 1), Raised(Zero, t, 1))
    OBVIOUS
  <2>1. Raised(Zero, t, 1) \in Clock
    BY ClockFacts, RaisedType
  <2> QED
    BY <2>1 DEF Leq, Clock
<1>3. ASSUME NEW t \in Tid
      PROVE  /\ Len(hist.past[t]) = 1 /\ hist.past[t][1].view = FirstView
             /\ hist.past[t][1].clock = Raised(Zero, t, 1) /\ DOMAIN hist.past[t] = {1}
  <2>1. PICK p : p = [view |-> FirstView, clock |-> Raised(Zero, t, 1)]
    OBVIOUS
  <2>2. hist.past[t] = << p >>
    BY <1>1, <2>1
  <2>3. Len(hist.past[t]) = 1 /\ hist.past[t][1] = p /\ DOMAIN hist.past[t] = {1}
    BY <2>2
  <2> QED
    BY <2>1, <2>3
<1>4. ASSUME NEW t \in Tid, NEW e \in 1..thr[t].epoch PROVE e = 1
  <2>1. thr[t].epoch = 1
    BY <1>1
  <2> QED
    BY <2>1
<1>5. HistoryIn(hist, thr, loc)
  <2>1. ASSUME NEW t \in Tid PROVE PastOf(hist, thr, loc, t)
    <3>1. hist.view[t] = FirstView /\ thr[t].epoch = 1 /\ Within(loc, FirstView)
      BY <1>1
    <3> QED
      BY <1>3, <1>4, <3>1 DEF PastOf
  <2>2. hist.view \in [Tid -> Views] /\ hist.past \in [Tid -> Seq(Publications)]
    BY <1>1
  <2> QED
    BY <2>1, <2>2, PastOfThread
<1>6. ASSUME NEW u \in Tid PROVE thr[u].epoch = 1
  BY DEF Init, InitWith, FirstThread
<1>7. Published(thr, hist.past)
  <2> SUFFICES ASSUME NEW u \in Tid
               PROVE  /\ thr[u].epoch >= 1 /\ Leq(hist.past[u][thr[u].epoch].clock, thr[u].clock)
                      /\ thr[u].status = "invalid" =>
                           thr[u].epoch = 1 /\ thr[u].clock = Raised(Zero, u, 1)
    BY DEF Published
  <2>1. thr[u].clock = Raised(Zero, u, 1)
    BY <1>1
  <2> QED
    BY <1>2, <1>3, <1>6, <2>1
<1>8. PastIn(thr, hist.past)
  BY <1>1, <1>3, <1>6 DEF PastIn
<1>9. PICK G : G = GoodClocks(thr, hist.past)
  OBVIOUS
<1>10. ASSUME NEW t \in Tid, Creator[t] = NoTid PROVE Raised(Zero, t, 1) \in G
  <2>1. thr[t].status # "invalid"
    BY <1>10 DEF Init, InitWith, FirstThread
  <2> DEFINE c == Raised(Zero, t, 1)
  <2>2. c \in Clock /\ c[t] = 1 /\ \A u \in Tid \ {t} : c[u] = 0
    BY DEF Raised, Zero, Clock
  <2>3. Leq(c, c)
    BY <2>2 DEF Leq, Clock
  <2> HIDE DEF c
  <2>4. Reached(thr, c)
    <3> SUFFICES ASSUME NEW u \in Tid
                 PROVE  IF thr[u].status = "invalid" THEN c[u] = 0 ELSE c[u] <= thr[u].epoch
      BY DEF Reached
    <3>1. thr[u].epoch = 1
      BY <1>6
    <3>2. CASE u = t
      BY <2>1, <2>2, <3>1, <3>2
    <3>3. CASE u # t
      BY <2>2, <3>1, <3>3
    <3> QED
      BY <3>2, <3>3
  <2>5. ASSUME NEW u \in Tid, c[u] \in DOMAIN hist.past[u]
        PROVE  Leq(hist.past[u][c[u]].clock, c)
    <3>1. c[u] = 1
      BY <1>3, <2>5
    <3>2. u = t
      BY <2>2, <3>1
    <3>3. hist.past[u][c[u]].clock = c
      BY <1>3, <3>1, <3>2 DEF c
    <3> QED
      BY <2>3, <3>3
  <2>6. Closed(hist.past, c)
    BY <2>5 DEF Closed
  <2> QED
    BY <1>9, <2>2, <2>4, <2>6 DEF GoodClocks, c
<1>11. ClocksIn(G)
  BY <1>8, <1>9, <1>10, GoodLattice, InitClocks
<1> QED
  BY <1>1, <1>5, <1>7, <1>9, <1>11 DEF GoodInv, HistInv

\* Every clock knows all of what it stands for, in every reachable state: the clocks
\* of threads, fences, locations and StoreElems and the mutex's alike.
THEOREM ClocksAreGood ==
  ASSUME KeepsHistory PROVE Spec => []GoodInv
<1>1. Init => GoodInv
  BY InitGood
<1>2. GoodInv /\ [Next]_vars => GoodInv'
  <2> SUFFICES ASSUME GoodInv, [Next]_vars PROVE GoodInv'
    OBVIOUS
  <2>1. CASE UNCHANGED vars
    <3>1. PICK G : G = GoodClocks(thr, hist.past)
      OBVIOUS
    <3>2. ClocksIn(G)'
      BY <2>1, <3>1, StutterKeeps DEF GoodInv, vars
    <3>3. ClocksIn(GoodClocks(thr, hist.past))'
      BY <2>1, <3>1, <3>2 DEF vars, ClocksIn, ThreadsIn, LocationsIn, MutexIn
    <3> QED
      BY <2>1, <3>3 DEF GoodInv, vars
  <2>2. CASE Next
    <3>1. PICK t \in Running : StepOf(t)
      BY <2>2, StepCases
    <3> QED
      BY <3>1, StepIsGood DEF StepGood
  <2> QED
    BY <2>1, <2>2
<1> QED
  BY <1>1, <1>2, PTL DEF Spec

\* What a clock knows of a thread's epoch comes with all the thread knew when it
\* published that epoch, be it the clock of a thread, of a fence, of a location or a
\* StoreElem's copy (KnowledgeIsTransitive of Tsan11).
THEOREM KnowledgeStaysTransitive ==
  ASSUME KeepsHistory PROVE Spec => []KnowledgeIsTransitive
<1>1. GoodInv => KnowledgeIsTransitive
  <2> SUFFICES ASSUME GoodInv PROVE KnowledgeIsTransitive
    OBVIOUS
  <2>1. PICK G : G = GoodClocks(thr, hist.past)
    OBVIOUS
  <2>2. ClocksIn(G) /\ PastIn(thr, hist.past) /\ Published(thr, hist.past)
    BY <2>1, HistoryPast DEF GoodInv
  <2>3. \A c \in G : Closed(hist.past, c)
    BY <2>1 DEF GoodClocks
  <2>4. ASSUME NEW t \in Tid
        PROVE  /\ Closed(hist.past, thr[t].clock)
               /\ Closed(hist.past, thr[t].frel) /\ Closed(hist.past, thr[t].facq)
    <3>1. /\ thr[t].frel \in G /\ thr[t].facq \in G /\ thr[t].clock \in Clock
          /\ thr[t].status # "invalid" => thr[t].clock \in G
      BY <2>2 DEF ClocksIn, ThreadsIn, ThreadStates
    <3>2. CASE thr[t].status # "invalid"
      BY <2>3, <3>1, <3>2
    <3>3. CASE thr[t].status = "invalid"
      <4>1. /\ thr[t].epoch = 1 /\ thr[t].clock = Raised(Zero, t, 1)
            /\ Leq(hist.past[t][1].clock, thr[t].clock)
        BY <2>2, <3>3 DEF Published
      <4>2. ASSUME NEW u \in Tid, thr[t].clock[u] \in DOMAIN hist.past[u]
            PROVE  Leq(hist.past[u][thr[t].clock[u]].clock, thr[t].clock)
        <5>1. thr[t].clock[u] >= 1
          BY <2>2, <4>2, PastFacts
        <5>2. thr[t].clock[u] = IF u = t THEN 1 ELSE 0
          BY <4>1 DEF Raised, Zero
        <5>3. u = t /\ thr[t].clock[u] = 1
          BY <5>1, <5>2
        <5> QED
          BY <4>1, <5>3
      <4>3. Closed(hist.past, thr[t].clock)
        BY <4>2 DEF Closed
      <4> QED
        BY <2>3, <3>1, <4>3
    <3> QED
      BY <3>2, <3>3
  <2>5. ASSUME NEW x \in Loc
        PROVE  /\ Closed(hist.past, loc[x].sync.clk)
               /\ \A p \in DOMAIN loc[x].buf.stores :
                    Closed(hist.past, loc[x].buf.stores[p].data)
    <3>1. loc[x].sync \in SyncClocks(G) /\ loc[x].buf \in Buffers(G)
      BY <2>2 DEF ClocksIn, LocationsIn, SyncVars
    <3>2. loc[x].sync.clk \in G
      BY <3>1, SyncClocksParts
    <3>3. \A p \in DOMAIN loc[x].buf.stores : loc[x].buf.stores[p] \in StoreElems(G)
      BY <3>1, BufferParts
    <3> QED
      BY <2>3, <3>2, <3>3 DEF StoreElems
  <2> QED
    BY <2>4, <2>5 DEF KnowledgeIsTransitive, Closed
<1> QED
  BY <1>1, ClocksAreGood, PTL
=============================================================================
