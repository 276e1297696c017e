---------------------------- MODULE CoherenceProofs ----------------------------
(***************************************************************************)
(* Proofs that loads are coherent: none reads a store older than one its   *)
(* past made or read, or than one that SC fences and SC stores order       *)
(* before it. A clock covers the stores its thread knows of, by the tags   *)
(* the buffers keep of them; the stores its past read are barred to it.    *)
(* For any threads, locations, orders and size of the buffer.              *)
(***************************************************************************)
EXTENDS HistoryProofs

\* A store with tag g is known to the clock c, or made by t, no later than in its
\* epoch e.
Knows(c, g, t, e) == c[g.tid] >= g.epoch \/ (g.tid = t /\ g.epoch <= e)

\* So are the stores of view v that are still held.
Covered(l, v, c, t, e) ==
  \A x \in Loc : \A w \in v[x].wrote :
    w \in Held(l[x].buf) => Knows(c, Tag(l[x].buf, w), t, e)

\* A thread's own stores are not past its position.
OwnBelow(b) == \A w \in Held(b) : Tag(b, w).epoch > 0 => w <= b.pos[Tag(b, w).tid]

\* What a thread has in its past, and what it published with an epoch, is covered.
ViewsCovered == \A t \in Tid : Covered(loc, hist.view[t], thr[t].clock, t, thr[t].epoch)

PastCovered ==
  \A t \in Tid : \A e \in DOMAIN hist.past[t] :
    Covered(loc, hist.past[t][e].view, hist.past[t][e].clock, t, e)

CoverInv == ViewsCovered /\ PastCovered /\ \A x \in Loc : OwnBelow(loc[x].buf)

-----------------------------------------------------------------------------
(* The tags of a buffer. *)

\* The stores of b that r still holds have kept their tags, and what is marked SC is.
SameTags(b, r) ==
  \A w \in Held(r) : w <= End(b) =>
    /\ w \in Held(b) /\ Tag(r, w).tid = Tag(b, w).tid /\ Tag(r, w).epoch = Tag(b, w).epoch
    /\ Tag(b, w).sc => Tag(r, w).sc

TagsStay == \A x \in Loc : SameTags(loc[x].buf, loc'[x].buf)

\* The tag of a store that is held.
LEMMA TagFacts ==
  ASSUME NEW G, NEW b \in Buffers(G), Sound(b), NEW w \in Held(b)
  PROVE  /\ w \in Nat /\ w >= 1 /\ w <= End(b) /\ End(b) \in Nat
         /\ Tag(b, w).tid \in Tid /\ Tag(b, w).epoch \in Nat /\ Tag(b, w).sc \in BOOLEAN
<1>1. PICK f \in Nat : /\ f >= 1 /\ f <= End(b)
                       /\ DOMAIN b.stores = f..b.last /\ Held(b) = f..End(b)
  BY HeldFacts
<1>2. End(b) \in Nat /\ b.prev \in [tid : Tid, epoch : Nat, sc : BOOLEAN]
      /\ \A p \in DOMAIN b.stores : b.stores[p] \in StoreElems(G)
  BY BufferParts
<1>3. w \in Nat /\ w >= 1 /\ w <= End(b)
  BY <1>1, <1>2
<1>4. CASE w = End(b)
  BY <1>2, <1>3, <1>4 DEF Tag
<1>5. CASE w # End(b)
  <2>1. b.stores[w] \in StoreElems(G) /\ Tag(b, w) = b.stores[w]
    BY <1>2, <1>5 DEF Held, Tag
  <2> QED
    BY <1>2, <1>3, <2>1 DEF StoreElems
<1> QED
  BY <1>4, <1>5

\* A store keeps the tags of the others, and is the end with a tag of its own.
LEMMA StoredTags ==
  ASSUME NEW b \in Buffers(Clock), Sound(b), NEW th \in ThreadStates(Clock), NEW isSc,
         NEW r \in Buffers(Clock), Sound(r), Stored(b, th, isSc, r)
  PROVE  /\ SameTags(b, r) /\ End(r) = End(b) + 1 /\ End(r) \in Held(r)
         /\ Tag(r, End(r)) = [tid |-> th.tid, epoch |-> th.epoch, sc |-> isSc]
         /\ \A w \in Held(r) : w <= End(b) =>
              (Tag(r, w).sc <=> Tag(b, w).sc \/ Marks(th, Tag(b, w), isSc))
         /\ OwnBelow(b) => OwnBelow(r)
<1>1. /\ r.last = End(b)
      /\ r.prev = [tid |-> th.tid, epoch |-> th.epoch, sc |-> isSc]
      /\ r.pos[th.tid] = End(r) /\ \A u \in Tid \ {th.tid} : r.pos[u] = b.pos[u]
      /\ DOMAIN r.stores \subseteq Held(b)
      /\ \A q \in DOMAIN r.stores :
           /\ r.stores[q].tid = Tag(b, q).tid /\ r.stores[q].epoch = Tag(b, q).epoch
           /\ r.stores[q].sc <=> Tag(b, q).sc \/ Marks(th, Tag(b, q), isSc)
  BY DEF Stored
<1>2. End(b) \in Nat /\ End(r) = End(b) + 1 /\ End(r) \in Nat
  BY <1>1, BufferParts DEF End
<1>3. ASSUME NEW w \in Held(r), w <= End(b)
      PROVE  /\ w \in Held(b) /\ Tag(r, w).tid = Tag(b, w).tid
             /\ Tag(r, w).epoch = Tag(b, w).epoch
             /\ Tag(r, w).sc <=> Tag(b, w).sc \/ Marks(th, Tag(b, w), isSc)
  <2>1. w # End(r) /\ w \in Nat
    BY <1>2, <1>3, TagFacts
  <2>2. w \in DOMAIN r.stores /\ Tag(r, w) = r.stores[w]
    BY <2>1 DEF Held, Tag
  <2> QED
    BY <1>1, <2>2
<1>4. End(r) \in Held(r) /\ Tag(r, End(r)) = r.prev
  BY DEF Held, Tag
<1>5. ASSUME OwnBelow(b), NEW w \in Held(r), Tag(r, w).epoch > 0
      PROVE  w <= r.pos[Tag(r, w).tid]
  <2>1. w \in Nat /\ w <= End(r) /\ Tag(r, w).tid \in Tid
    BY TagFacts
  <2>2. CASE Tag(r, w).tid = th.tid
    BY <1>1, <2>1, <2>2
  <2>3. CASE Tag(r, w).tid # th.tid
    <3>1. w # End(r)
      BY <1>1, <1>4, <2>3
    <3>2. w <= End(b)
      BY <1>2, <2>1, <3>1
    <3>3. w \in Held(b) /\ Tag(r, w).tid = Tag(b, w).tid /\ Tag(b, w).epoch > 0
      BY <1>3, <1>5, <3>2
    <3>4. w <= b.pos[Tag(b, w).tid]
      BY <1>5, <3>3 DEF OwnBelow
    <3> QED
      BY <1>1, <2>1, <2>3, <3>3, <3>4
  <2> QED
    BY <2>2, <2>3
<1> QED
  BY <1>1, <1>2, <1>3, <1>4, <1>5 DEF SameTags, OwnBelow

\* A load changes no tag; its thread's position does not go back.
LEMMA MovedTags ==
  ASSUME NEW b \in Buffers(Clock), Sound(b), NEW th \in ThreadStates(Clock), NEW p \in Nat,
         p >= b.pos[th.tid], NEW r, Moved(b, th, p, r)
  PROVE  /\ SameTags(b, r) /\ End(r) = End(b) /\ Held(r) = Held(b)
         /\ \A w \in Held(b) : Tag(r, w) = Tag(b, w)
         /\ OwnBelow(b) => OwnBelow(r)
<1>1. /\ r.stores = b.stores /\ r.last = b.last /\ r.prev = b.prev
      /\ r.pos[th.tid] = p /\ \A u \in Tid \ {th.tid} : r.pos[u] = b.pos[u]
  BY DEF Moved
<1>2. Held(r) = Held(b) /\ End(r) = End(b) /\ \A w \in Held(b) : Tag(r, w) = Tag(b, w)
  BY <1>1 DEF Held, Tag, End
<1>3. ASSUME OwnBelow(b), NEW w \in Held(b), Tag(b, w).epoch > 0
      PROVE  w <= r.pos[Tag(b, w).tid]
  <2>1. w \in Nat /\ Tag(b, w).tid \in Tid /\ w <= b.pos[Tag(b, w).tid]
    BY <1>3, TagFacts DEF OwnBelow
  <2>2. b.pos \in [Tid -> Nat]
    BY BufferParts
  <2>3. b.pos[Tag(b, w).tid] \in Nat
    BY <2>1, <2>2
  <2> QED
    BY <1>1, <2>1, <2>3
<1> QED
  BY <1>2, <1>3 DEF SameTags, OwnBelow

-----------------------------------------------------------------------------
(* What is covered. *)

\* The type of a history's parts.
LEMMA CoverParts ==
  ASSUME GoodInv
  PROVE  /\ \A x \in Loc : loc[x].buf \in Buffers(Clock) /\ Sound(loc[x].buf)
         /\ \A t \in Tid : /\ hist.view[t] \in Views /\ Within(loc, hist.view[t])
                           /\ thr[t].clock \in Clock /\ thr[t].epoch \in Nat
                           /\ DOMAIN hist.past[t] = 1..thr[t].epoch
         /\ \A t \in Tid : \A e \in DOMAIN hist.past[t] :
              /\ hist.past[t][e].view \in Views /\ Within(loc, hist.past[t][e].view)
              /\ hist.past[t][e].clock \in Clock /\ e \in Nat
<1>1. ClocksIn(Clock) /\ HistoryIn(hist, thr, loc)
  BY GoodTyped
<1>2. \A x \in Loc : loc[x].buf \in Buffers(Clock) /\ Sound(loc[x].buf)
  BY <1>1 DEF ClocksIn, LocationsIn, SyncVars
<1>3. ASSUME NEW t \in Tid
      PROVE  /\ hist.view[t] \in Views /\ Within(loc, hist.view[t])
             /\ thr[t].clock \in Clock /\ thr[t].epoch \in Nat
             /\ hist.past[t] \in Seq(Publications) /\ Len(hist.past[t]) = thr[t].epoch
             /\ \A e \in 1..thr[t].epoch : Within(loc, hist.past[t][e].view)
  BY <1>1 DEF HistoryIn, ClocksIn, ThreadsIn, ThreadStates
<1>4. ASSUME NEW t \in Tid, NEW e \in DOMAIN hist.past[t]
      PROVE  /\ hist.past[t][e].view \in Views /\ Within(loc, hist.past[t][e].view)
             /\ hist.past[t][e].clock \in Clock /\ e \in Nat
  <2>1. hist.past[t][e] \in Publications /\ e \in 1..thr[t].epoch
    BY <1>3
  <2> QED
    BY <1>3, <2>1 DEF Publications
<1>5. ASSUME NEW t \in Tid PROVE DOMAIN hist.past[t] = 1..thr[t].epoch
  BY <1>3
<1> QED
  BY <1>2, <1>3, <1>4, <1>5

\* What is covered stays covered, by a clock that knows more.
LEMMA CoveredStays ==
  ASSUME \A x \in Loc : loc[x].buf \in Buffers(Clock) /\ Sound(loc[x].buf), TagsStay,
         NEW v \in Views, Within(loc, v),
         NEW c \in Clock, NEW c2 \in Clock, Leq(c, c2),
         NEW t \in Tid, NEW e \in Nat, NEW e2 \in Nat, e <= e2, Covered(loc, v, c, t, e)
  PROVE  Covered(loc', v, c2, t, e2)
<1> SUFFICES ASSUME NEW x \in Loc, NEW w \in v[x].wrote, w \in Held(loc'[x].buf)
             PROVE  Knows(c2, Tag(loc'[x].buf, w), t, e2)
  BY DEF Covered
<1> DEFINE b == loc[x].buf
           r == loc'[x].buf
           g == Tag(b, w)
<1>1. w <= End(b)
  BY DEF Within
<1>2. w \in Held(b) /\ Tag(r, w).tid = g.tid /\ Tag(r, w).epoch = g.epoch
  BY <1>1 DEF TagsStay, SameTags
<1>3. Knows(c, g, t, e)
  BY <1>2 DEF Covered
<1>4. g.tid \in Tid /\ g.epoch \in Nat
  BY <1>2, TagFacts
<1> HIDE DEF g, r
<1>5. c[g.tid] \in Nat /\ c2[g.tid] \in Nat /\ c[g.tid] <= c2[g.tid]
  BY <1>4 DEF Leq, Clock
<1>6. Knows(c2, g, t, e2)
  BY <1>3, <1>4, <1>5 DEF Knows
<1>7. Knows(c2, Tag(r, w), t, e2)
  BY <1>2, <1>6 DEF Knows
<1> QED
  BY <1>7 DEF r

\* What a good clock learns is covered.
LEMMA LearntCovered ==
  ASSUME GoodInv, CoverInv, NEW t \in Tid, NEW e \in Nat, NEW v \in Views, Within(loc, v),
         NEW c0 \in Clock, Covered(loc, v, c0, t, e),
         NEW c \in Clock, Leq(c0, c), Closed(hist.past, c)
  PROVE  Covered(loc, Learn(v, c), c, t, e)
<1> DEFINE L == Learn(v, c)
<1>1. /\ \A x \in Loc : loc[x].buf \in Buffers(Clock) /\ Sound(loc[x].buf)
      /\ \A u \in Tid : \A i \in DOMAIN hist.past[u] :
           /\ hist.past[u][i].clock \in Clock /\ i \in Nat
           /\ Covered(loc, hist.past[u][i].view, hist.past[u][i].clock, u, i)
  BY CoverParts DEF CoverInv, PastCovered
<1>2. HistoryIn(hist, thr, loc) /\ \A x \in Loc : End(loc[x].buf) \in Nat
  BY GoodTyped, EndsTyped
<1>3. \A x \in Loc : \A w \in L[x].wrote :
        \/ w \in v[x].wrote
        \/ \E u \in Tid : /\ c[u] \in DOMAIN hist.past[u]
                          /\ w \in hist.past[u][c[u]].view[x].wrote
  <2>1. /\ Learn(v, c) \in Views /\ Within(loc, Learn(v, c))
        /\ \A x \in Loc :
             /\ \A w \in Learn(v, c)[x].wrote :
                  \/ w \in v[x].wrote
                  \/ \E u \in Tid : /\ c[u] \in DOMAIN hist.past[u]
                                    /\ w \in hist.past[u][c[u]].view[x].wrote
             /\ \/ Learn(v, c)[x].seen = v[x].seen
                \/ \E u \in Tid : /\ c[u] \in DOMAIN hist.past[u]
                                  /\ Learn(v, c)[x].seen = hist.past[u][c[u]].view[x].seen
             /\ v[x].wrote \subseteq Learn(v, c)[x].wrote
    BY <1>2, LearnFacts
  <2> QED
    BY <2>1
<1> HIDE DEF L
<1> SUFFICES ASSUME NEW x \in Loc, NEW w \in L[x].wrote, w \in Held(loc[x].buf)
             PROVE  Knows(c, Tag(loc[x].buf, w), t, e)
  BY DEF Covered, L
<1> DEFINE g == Tag(loc[x].buf, w)
<1>4. g.tid \in Tid /\ g.epoch \in Nat
  BY <1>1, TagFacts
<1>5. CASE w \in v[x].wrote
  <2>1. Knows(c0, g, t, e)
    BY <1>5 DEF Covered
  <2> HIDE DEF g
  <2>2. c0[g.tid] \in Nat /\ c[g.tid] \in Nat /\ c0[g.tid] <= c[g.tid]
    BY <1>4 DEF Leq, Clock
  <2>3. Knows(c, g, t, e)
    BY <1>4, <2>1, <2>2 DEF Knows
  <2> QED
    BY <2>3 DEF g
<1>6. ASSUME NEW u \in Tid, c[u] \in DOMAIN hist.past[u],
             w \in hist.past[u][c[u]].view[x].wrote
      PROVE  Knows(c, g, t, e)
  <2> DEFINE d == hist.past[u][c[u]].clock
  <2>1. d \in Clock /\ Covered(loc, hist.past[u][c[u]].view, d, u, c[u])
    BY <1>1, <1>6
  <2>2. Leq(d, c)
    BY <1>6 DEF Closed
  <2>3. Knows(d, g, u, c[u])
    BY <1>6, <2>1 DEF Covered
  <2> HIDE DEF g, d
  <2>4. d[g.tid] \in Nat /\ c[g.tid] \in Nat /\ d[g.tid] <= c[g.tid]
    BY <1>4, <2>1, <2>2 DEF Leq, Clock
  <2> QED
    BY <1>4, <2>3, <2>4 DEF Knows
<1> QED
  BY <1>3, <1>5, <1>6

-----------------------------------------------------------------------------
(* The steps. *)

\* A step keeps what is covered, if what it adds is covered.
LEMMA CoverKept ==
  ASSUME GoodInv, GoodInv', CoverInv, TagsStay, \A x \in Loc : OwnBelow(loc'[x].buf),
         \A u \in Tid :
           \/ /\ hist'.view[u] = hist.view[u] /\ Leq(thr[u].clock, thr'[u].clock)
              /\ thr[u].epoch <= thr'[u].epoch
           \/ Covered(loc', hist'.view[u], thr'[u].clock, u, thr'[u].epoch),
         \A u \in Tid : \A e \in DOMAIN hist'.past[u] :
           \/ e \in DOMAIN hist.past[u] /\ hist'.past[u][e] = hist.past[u][e]
           \/ Covered(loc', hist'.past[u][e].view, hist'.past[u][e].clock, u, e)
  PROVE  CoverInv'
<1>1. /\ \A x \in Loc : loc[x].buf \in Buffers(Clock) /\ Sound(loc[x].buf)
      /\ \A t \in Tid : /\ hist.view[t] \in Views /\ Within(loc, hist.view[t])
                        /\ thr[t].clock \in Clock /\ thr[t].epoch \in Nat
      /\ \A t \in Tid : \A e \in DOMAIN hist.past[t] :
           /\ hist.past[t][e].view \in Views /\ Within(loc, hist.past[t][e].view)
           /\ hist.past[t][e].clock \in Clock /\ e \in Nat
  BY CoverParts
<1>2. ASSUME NEW u \in Tid PROVE thr'[u].clock \in Clock /\ thr'[u].epoch \in Nat
  <2>1. ClocksIn(Clock)'
    BY GoodTyped, PTL
  <2> QED
    BY <2>1 DEF ClocksIn, ThreadsIn, ThreadStates
<1>3. ASSUME NEW u \in Tid
      PROVE  Covered(loc', hist'.view[u], thr'[u].clock, u, thr'[u].epoch)
  <2>1. CASE /\ hist'.view[u] = hist.view[u] /\ Leq(thr[u].clock, thr'[u].clock)
             /\ thr[u].epoch <= thr'[u].epoch
    <3>1. Covered(loc, hist.view[u], thr[u].clock, u, thr[u].epoch)
      BY DEF CoverInv, ViewsCovered
    <3>2. PICK v, c, c2, e, e2 : /\ v = hist.view[u] /\ c = thr[u].clock /\ c2 = thr'[u].clock
                                 /\ e = thr[u].epoch /\ e2 = thr'[u].epoch
      OBVIOUS
    <3>3. /\ v \in Views /\ Within(loc, v) /\ c \in Clock /\ c2 \in Clock /\ Leq(c, c2)
          /\ e \in Nat /\ e2 \in Nat /\ e <= e2 /\ Covered(loc, v, c, u, e)
      BY <1>1, <1>2, <2>1, <3>1, <3>2
    <3>4. Covered(loc', v, c2, u, e2)
      BY <1>1, <3>3, CoveredStays
    <3> QED
      BY <2>1, <3>2, <3>4
  <2> QED
    BY <2>1
<1>4. ASSUME NEW u \in Tid, NEW e \in DOMAIN hist'.past[u]
      PROVE  Covered(loc', hist'.past[u][e].view, hist'.past[u][e].clock, u, e)
  <2>1. CASE e \in DOMAIN hist.past[u] /\ hist'.past[u][e] = hist.past[u][e]
    <3>1. PICK v, c : v = hist.past[u][e].view /\ c = hist.past[u][e].clock
      OBVIOUS
    <3>2. v \in Views /\ Within(loc, v) /\ c \in Clock /\ e \in Nat /\ Covered(loc, v, c, u, e)
      BY <1>1, <2>1, <3>1 DEF CoverInv, PastCovered
    <3>3. Leq(c, c) /\ e <= e
      BY <3>2 DEF Leq, Clock
    <3>4. Covered(loc', v, c, u, e)
      BY <1>1, <3>2, <3>3, CoveredStays
    <3> QED
      BY <2>1, <3>1, <3>4
  <2> QED
    BY <2>1
<1> QED
  BY <1>3, <1>4 DEF CoverInv, ViewsCovered, PastCovered

\* What t knows once it stamped its clock and acquired, is covered.
LEMMA NewViewCovered ==
  ASSUME GoodInv, GoodInv', CoverInv, Kept, TagsStay, NEW t \in Tid,
         thr'[t].status # "invalid", thr[t].epoch <= thr'[t].epoch,
         \A u \in Tid : thr[u].status = "invalid" => thr'[u].status = "invalid",
         Leq(thr[t].clock, thr'[t].clock),
         NEW v, v = Learn(hist.view[t], thr'[t].clock)
  PROVE  /\ Covered(loc', v, thr'[t].clock, t, thr'[t].epoch)
         /\ Covered(loc', hist.view[t], thr'[t].clock, t, thr'[t].epoch)
<1>1. /\ \A x \in Loc : loc[x].buf \in Buffers(Clock) /\ Sound(loc[x].buf)
      /\ \A u \in Tid : /\ hist.view[u] \in Views /\ Within(loc, hist.view[u])
                        /\ thr[u].clock \in Clock /\ thr[u].epoch \in Nat
                        /\ DOMAIN hist.past[u] = 1..thr[u].epoch
  BY CoverParts
<1>2. ClocksIn(GoodClocks(thr, hist.past))'
  BY DEF GoodInv
<1>3. PICK c, e2 : c = thr'[t].clock /\ e2 = thr'[t].epoch
  OBVIOUS
<1>4. c \in GoodClocks(thr', hist'.past) /\ e2 \in Nat
  BY <1>2, <1>3 DEF ClocksIn, ThreadsIn, ThreadStates
<1>5. c \in Clock /\ Reached(thr', c) /\ Closed(hist'.past, c)
  BY <1>4 DEF GoodClocks
<1>6. Closed(hist.past, c)
  <2> SUFFICES ASSUME NEW u \in Tid, c[u] \in DOMAIN hist.past[u]
               PROVE  Leq(hist.past[u][c[u]].clock, c)
    BY DEF Closed
  <2>1. c[u] \in 1..thr[u].epoch /\ c[u] >= 1
    BY <1>1
  <2>2. thr[u].status # "invalid"
    <3>1. CASE thr[u].status = "invalid"
      <4>1. c[u] = 0
        BY <1>5, <3>1 DEF Reached
      <4> QED
        BY <2>1, <4>1
    <3> QED
      BY <3>1
  <2>3. hist'.past[u][c[u]] = hist.past[u][c[u]] /\ thr[u].epoch <= thr'[u].epoch
    BY <2>1, <2>2 DEF Kept, Extends
  <2>4. DOMAIN hist'.past[u] = 1..thr'[u].epoch /\ thr'[u].epoch \in Nat
    <3>1. PastIn(thr', hist'.past)
      BY HistoryPast DEF Kept
    <3> QED
      BY <3>1, PastFacts
  <2>5. c[u] \in DOMAIN hist'.past[u]
    BY <1>1, <2>1, <2>3, <2>4
  <2> QED
    BY <1>5, <2>3, <2>5 DEF Closed
<1>7. PICK v0, c0, e : v0 = hist.view[t] /\ c0 = thr[t].clock /\ e = thr[t].epoch
  OBVIOUS
<1>8. /\ v0 \in Views /\ Within(loc, v0) /\ c0 \in Clock /\ e \in Nat /\ Leq(c0, c)
      /\ Covered(loc, v0, c0, t, e) /\ e <= e2 /\ v = Learn(v0, c)
  BY <1>1, <1>3, <1>7 DEF CoverInv, ViewsCovered
<1>9. Covered(loc, v, c, t, e)
  BY <1>5, <1>6, <1>8, LearntCovered
<1>10. v \in Views /\ Within(loc, v)
  <2>1. HistoryIn(hist, thr, loc) /\ \A x \in Loc : End(loc[x].buf) \in Nat
    BY GoodTyped, EndsTyped
  <2>2. /\ Learn(v0, c) \in Views /\ Within(loc, Learn(v0, c))
        /\ \A x \in Loc :
             /\ \A w \in Learn(v0, c)[x].wrote :
                  \/ w \in v0[x].wrote
                  \/ \E u \in Tid : /\ c[u] \in DOMAIN hist.past[u]
                                    /\ w \in hist.past[u][c[u]].view[x].wrote
             /\ \/ Learn(v0, c)[x].seen = v0[x].seen
                \/ \E u \in Tid : /\ c[u] \in DOMAIN hist.past[u]
                                  /\ Learn(v0, c)[x].seen = hist.past[u][c[u]].view[x].seen
             /\ v0[x].wrote \subseteq Learn(v0, c)[x].wrote
    BY <1>5, <1>8, <2>1, LearnFacts
  <2> QED
    BY <1>8, <2>2
<1>11. Leq(c, c)
  BY <1>5 DEF Leq, Clock
<1>12. Covered(loc', v, c, t, e2)
  BY <1>1, <1>4, <1>5, <1>8, <1>9, <1>10, <1>11, CoveredStays
<1>13. Covered(loc', v0, c, t, e2)
  BY <1>1, <1>4, <1>5, <1>8, CoveredStays
<1> QED
  BY <1>3, <1>7, <1>12, <1>13

\* A step that enters an epoch keeps what is covered, if what it publishes and what t
\* then knows are.
LEMMA TickCovers ==
  ASSUME GoodInv, GoodInv', CoverInv, TagsStay, EndsGrow, \A x \in Loc : OwnBelow(loc'[x].buf),
         NEW t \in Tid, thr[t].status # "invalid",
         NEW pv, NEW pc, NEW v, Ticks(t, pv, pc, v),
         Covered(loc', pv, pc, t, thr'[t].epoch),
         Covered(loc', v, thr'[t].clock, t, thr'[t].epoch)
  PROVE  CoverInv'
<1>1. ClocksIn(Clock) /\ HistInv(hist, thr, loc)
  BY GoodTyped
<1>2. ClocksIn(Clock)'
  BY GoodTyped, PTL
<1>3. Kept /\ hist'.past[t][thr'[t].epoch] = [view |-> pv, clock |-> pc]
  BY <1>1, <1>2, TickKept
<1>4. /\ \A u \in Tid : /\ thr[u].clock \in Clock /\ thr[u].epoch \in Nat
                        /\ DOMAIN hist.past[u] = 1..thr[u].epoch
      /\ hist.view \in [Tid -> Views] /\ hist.past \in [Tid -> Seq(Publications)]
  BY <1>1, CoverParts DEF HistInv, HistoryIn
<1>5. /\ thr'[t].epoch = thr[t].epoch + 1
      /\ \A u \in Tid \ {t} : thr'[u] = thr[u]
      /\ hist'.past = Publishes(hist.past, t, pv, pc)
      /\ hist'.view = [hist.view EXCEPT ![t] = v]
  BY DEF Ticks
<1>6. hist'.view[t] = v /\ \A u \in Tid \ {t} : /\ hist'.view[u] = hist.view[u]
                                                /\ hist'.past[u] = hist.past[u]
  BY <1>4, <1>5 DEF Publishes
<1>7. ASSUME NEW u \in Tid
      PROVE  \/ /\ hist'.view[u] = hist.view[u] /\ Leq(thr[u].clock, thr'[u].clock)
                /\ thr[u].epoch <= thr'[u].epoch
             \/ Covered(loc', hist'.view[u], thr'[u].clock, u, thr'[u].epoch)
  <2>1. CASE u = t
    BY <1>6, <2>1
  <2>2. CASE u # t
    <3>1. Leq(thr[u].clock, thr[u].clock)
      BY <1>4 DEF Leq, Clock
    <3> QED
      BY <1>4, <1>5, <1>6, <2>2, <3>1
  <2> QED
    BY <2>1, <2>2
<1>8. ASSUME NEW u \in Tid, NEW e \in DOMAIN hist'.past[u]
      PROVE  \/ e \in DOMAIN hist.past[u] /\ hist'.past[u][e] = hist.past[u][e]
             \/ Covered(loc', hist'.past[u][e].view, hist'.past[u][e].clock, u, e)
  <2>1. DOMAIN hist'.past[u] = 1..thr'[u].epoch
    <3>1. PastIn(thr', hist'.past)
      BY <1>3, HistoryPast DEF Kept
    <3> QED
      BY <3>1, PastFacts
  <2>2. CASE u = t /\ e = thr'[t].epoch
    <3>1. hist'.past[u][e].view = pv /\ hist'.past[u][e].clock = pc
      BY <1>3, <2>2
    <3> QED
      BY <2>2, <3>1
  <2>3. CASE u = t /\ e # thr'[t].epoch
    <3>1. e \in 1..thr[t].epoch
      <4>1. PICK n \in Nat : n = thr[t].epoch
        BY <1>4
      <4>2. thr'[t].epoch = n + 1
        BY <1>5, <4>1
      <4>3. e \in 1..(n + 1) /\ e # n + 1
        BY <2>1, <2>3, <4>2
      <4> QED
        BY <4>1, <4>3
    <3>2. hist'.past[t][e] = hist.past[t][e]
      BY <1>3, <3>1 DEF Kept, Extends
    <3> QED
      BY <1>4, <2>3, <3>1, <3>2
  <2>4. CASE u # t
    BY <1>6, <2>4
  <2> QED
    BY <2>2, <2>3, <2>4
<1> QED
  BY <1>7, <1>8, CoverKept

\* The same where t only learns.
LEMMA LearnCovers ==
  ASSUME GoodInv, GoodInv', CoverInv, TagsStay, \A x \in Loc : OwnBelow(loc'[x].buf),
         NEW t \in Tid, NEW v, Learns(t, v),
         \A u \in Tid \ {t} : thr'[u].clock = thr[u].clock /\ thr'[u].epoch = thr[u].epoch,
         Covered(loc', v, thr'[t].clock, t, thr'[t].epoch)
  PROVE  CoverInv'
<1>1. /\ \A u \in Tid : thr[u].clock \in Clock /\ thr[u].epoch \in Nat
      /\ hist.view \in [Tid -> Views]
  BY CoverParts, GoodTyped DEF HistoryIn
<1>2. hist'.past = hist.past /\ hist'.view = [hist.view EXCEPT ![t] = v]
  BY DEF Learns
<1>3. ASSUME NEW u \in Tid
      PROVE  \/ /\ hist'.view[u] = hist.view[u] /\ Leq(thr[u].clock, thr'[u].clock)
                /\ thr[u].epoch <= thr'[u].epoch
             \/ Covered(loc', hist'.view[u], thr'[u].clock, u, thr'[u].epoch)
  <2>1. CASE u = t
    BY <1>1, <1>2, <2>1
  <2>2. CASE u # t
    <3>1. Leq(thr[u].clock, thr[u].clock)
      BY <1>1 DEF Leq, Clock
    <3> QED
      BY <1>1, <1>2, <2>2, <3>1
  <2> QED
    BY <2>1, <2>2
<1> QED
  BY <1>2, <1>3, CoverKept

-----------------------------------------------------------------------------
(* One step at a time. *)

\* Where only the buffer of x changes, the tags stay if those of x do.
LEMMA TagsStayAt ==
  ASSUME GoodInv, CoverInv, NEW x \in Loc, \A z \in Loc \ {x} : loc'[z] = loc[z],
         SameTags(loc[x].buf, loc'[x].buf), OwnBelow(loc'[x].buf)
  PROVE  TagsStay /\ \A z \in Loc : OwnBelow(loc'[z].buf)
<1> SUFFICES ASSUME NEW z \in Loc
             PROVE  SameTags(loc[z].buf, loc'[z].buf) /\ OwnBelow(loc'[z].buf)
  BY DEF TagsStay
<1>1. CASE z = x
  BY <1>1
<1>2. CASE z # x
  <2>1. loc'[z] = loc[z] /\ OwnBelow(loc[z].buf)
    BY <1>2 DEF CoverInv
  <2> QED
    BY <2>1 DEF SameTags
<1> QED
  BY <1>1, <1>2

\* A step that leaves the buffers alone.
LEMMA TagsSame ==
  ASSUME GoodInv, CoverInv, loc' = loc
  PROVE  TagsStay /\ EndsGrow /\ \A z \in Loc : OwnBelow(loc'[z].buf)
<1>1. \A z \in Loc : End(loc[z].buf) \in Nat
  BY GoodTyped, EndsTyped
<1> QED
  BY <1>1 DEF TagsStay, SameTags, EndsGrow, CoverInv

\* A load that leaves the buffer of x alone or moves t's position on.
LEMMA TagsOfMove ==
  ASSUME GoodInv, CoverInv, NEW x \in Loc, NEW th \in ThreadStates(Clock), NEW p \in Nat,
         p >= loc[x].buf.pos[th.tid],
         loc'[x].buf = loc[x].buf \/ Moved(loc[x].buf, th, p, loc'[x].buf),
         \A z \in Loc \ {x} : loc'[z] = loc[z]
  PROVE  TagsStay /\ \A z \in Loc : OwnBelow(loc'[z].buf)
<1>1. PICK b, r : b = loc[x].buf /\ r = loc'[x].buf
  OBVIOUS
<1>2. b \in Buffers(Clock) /\ Sound(b) /\ OwnBelow(b)
  BY <1>1, CoverParts DEF CoverInv
<1>3. SameTags(b, r) /\ OwnBelow(r)
  <2>1. CASE r = b
    BY <1>2, <2>1 DEF SameTags
  <2>2. CASE Moved(b, th, p, r)
    <3>1. p >= b.pos[th.tid]
      BY <1>1
    <3>2. /\ SameTags(b, r) /\ End(r) = End(b) /\ Held(r) = Held(b)
          /\ \A w \in Held(b) : Tag(r, w) = Tag(b, w)
          /\ OwnBelow(b) => OwnBelow(r)
      BY <1>2, <2>2, <3>1, MovedTags
    <3> QED
      BY <1>2, <3>2
  <2> QED
    BY <1>1, <2>1, <2>2
<1> QED
  BY <1>1, <1>3, TagsStayAt

\* The thread that takes a step runs; the others neither start nor stop.
LEMMA OthersSettled ==
  ASSUME GoodInv, NEW t \in Running, thr'[t].status # "invalid",
         \A u \in Tid \ {t} : thr'[u] = thr[u]
  PROVE  \A u \in Tid : thr[u].status = "invalid" => thr'[u].status = "invalid"
BY GoodThread

\* What t knows once it loaded or stored, with the store it made.
LEMMA ViewStays ==
  ASSUME NEW v, NEW w, \A z \in Loc : w[z].wrote = v[z].wrote,
         NEW c, NEW t, NEW e, Covered(loc', v, c, t, e)
  PROVE  Covered(loc', w, c, t, e)
BY DEF Covered

\* AtomicLoad.
LEMMA LoadCovers ==
  ASSUME KeepsHistory, GoodInv, CoverInv, NEW t \in Running, NEW x \in Loc, NEW mo, NEW p,
         LoadAt(t, x, mo, p)
  PROVE  CoverInv' /\ TagsStay /\ EndsGrow
<1> DEFINE th == ScReads(thr[t], mo)
<1>1. /\ ClocksIn(Clock) /\ HistInv(hist, thr, loc)
      /\ t \in Tid /\ thr[t].status # "invalid" /\ thr[t].epoch \in Nat
      /\ thr[t].clock \in Clock /\ thr[t].epoch + 1 \in Nat
  BY GoodThread
<1>2. GoodInv' /\ Kept /\ Leq(thr[t].clock, thr'[t].clock)
  BY LoadGood
<1>3. PICK v : v = Learn(hist.view[t], thr'[t].clock)
  OBVIOUS
<1>4. /\ ClocksIn(Clock)' /\ EndsGrow /\ v \in Views /\ Within(loc', v)
      /\ Learns(t, WithRead(v, x, p)) /\ SameOrder(hist', hist)
      /\ \A z \in Loc : End(loc'[z].buf) = End(loc[z].buf)
  BY <1>1, <1>3, LoadHistory
<1>5. /\ NewThread(t, "running", thr[t].epoch, thr[t].lastRelease, thr[t].slimit,
                   thr[t].swrite, ScReads(thr[t], mo).sread)
      /\ Acquires(Clock, t, thr[t].epoch)
      /\ NewLocation(x, loc[x].sync, FetchStore(loc[x].buf, ScReads(thr[t], mo), p))
      /\ p \in Held(loc[x].buf)
      /\ thr'[t].clock \in Clock => ClocksIn(Clock)'
  BY <1>1, LoadStep, ClockLattice
<1>6. /\ thr[t] \in ThreadStates(Clock) /\ thr[t].tid = t /\ ctx.sfence \in Clock
      /\ loc[x].buf \in Buffers(Clock) /\ Sound(loc[x].buf)
  BY <1>1, StateParts, ClockLattice
<1>7. th \in ThreadStates(Clock) /\ th.tid = t
  BY <1>6, ScReadsFacts
<1>8. p \in NextReads(t, x, mo)
  BY DEF LoadAt
<1>9. p \in Readable(loc[x].buf, th, mo = "seq_cst")
  BY <1>8 DEF NextReads
<1>10. loc'[x].buf = FetchStore(loc[x].buf, th, p) /\ \A z \in Loc \ {x} : loc'[z] = loc[z]
  BY <1>5 DEF NewLocation
<1> HIDE DEF th
<1>11. p \in Nat /\ p >= loc[x].buf.pos[th.tid]
  <2>1. PICK b, isSc : b = loc[x].buf /\ isSc = (mo = "seq_cst")
    OBVIOUS
  <2>2. isSc \in BOOLEAN /\ b \in Buffers(Clock) /\ Sound(b) /\ p \in Readable(b, th, isSc)
    BY <1>6, <1>9, <2>1
  <2>3. p \in Held(b) /\ p >= b.pos[th.tid]
    BY <1>7, <2>2, ReadableFacts
  <2> QED
    BY <2>1, <2>2, <2>3, TagFacts
<1>12. loc'[x].buf = loc[x].buf \/ Moved(loc[x].buf, th, p, loc'[x].buf)
  <2>1. PICK b, r : b = loc[x].buf /\ r = FetchStore(b, th, p)
    OBVIOUS
  <2>2. IF AtEnd(b, th.tid) THEN r = b ELSE Moved(b, th, p, r)
    BY <1>5, <1>6, <1>7, <2>1, FetchStoreFacts
  <2> QED
    BY <1>10, <2>1, <2>2
<1>13. TagsStay /\ \A z \in Loc : OwnBelow(loc'[z].buf)
  BY <1>7, <1>10, <1>11, <1>12, TagsOfMove
<1>14. /\ thr'[t].epoch = thr[t].epoch /\ thr'[t].status # "invalid"
       /\ \A u \in Tid \ {t} : thr'[u] = thr[u]
  BY <1>5 DEF NewThread, ThreadIs
<1>15. \A u \in Tid : thr[u].status = "invalid" => thr'[u].status = "invalid"
  BY <1>14, OthersSettled
<1>16. /\ Covered(loc', v, thr'[t].clock, t, thr'[t].epoch)
       /\ Covered(loc', hist.view[t], thr'[t].clock, t, thr'[t].epoch)
  BY <1>1, <1>2, <1>3, <1>13, <1>14, <1>15, NewViewCovered
<1>17. PICK w : w = WithRead(v, x, p)
  OBVIOUS
<1>18. \A z \in Loc : w[z].wrote = v[z].wrote
  BY <1>4, <1>17 DEF WithRead, Views
<1>19. Covered(loc', w, thr'[t].clock, t, thr'[t].epoch)
  BY <1>16, <1>18, ViewStays
<1>20. CoverInv'
  BY <1>1, <1>2, <1>4, <1>13, <1>14, <1>17, <1>19, LearnCovers
<1> QED
  BY <1>4, <1>13, <1>20

\* A store keeps the tags of the others in every buffer.
LEMMA TagsOfStore ==
  ASSUME GoodInv, GoodInv', CoverInv, NEW t \in Tid, NEW x \in Loc, NEW mo, NEW th, NEW v,
         StoredBy(t, x, mo, th, v)
  PROVE  /\ TagsStay /\ \A z \in Loc : OwnBelow(loc'[z].buf)
         /\ End(loc'[x].buf) = End(loc[x].buf) + 1 /\ End(loc'[x].buf) \in Held(loc'[x].buf)
         /\ Tag(loc'[x].buf, End(loc'[x].buf))
              = [tid |-> t, epoch |-> thr'[t].epoch, sc |-> (mo = "seq_cst")]
         /\ \A w \in Held(loc'[x].buf) : w <= End(loc[x].buf) =>
              (Tag(loc'[x].buf, w).sc <=>
                 Tag(loc[x].buf, w).sc \/ Marks(th, Tag(loc[x].buf, w), mo = "seq_cst"))
<1>1. PICK b, r : b = loc[x].buf /\ r = loc'[x].buf
  OBVIOUS
<1>2. /\ th \in ThreadStates(Clock) /\ th.tid = t /\ th.epoch = thr'[t].epoch
      /\ Stored(b, th, mo = "seq_cst", r)
      /\ \A z \in Loc \ {x} : loc'[z] = loc[z]
  BY <1>1 DEF StoredBy
<1>3. b \in Buffers(Clock) /\ Sound(b) /\ OwnBelow(b)
  BY <1>1, CoverParts DEF CoverInv
<1>4. r \in Buffers(Clock) /\ Sound(r)
  <2>1. ClocksIn(Clock)'
    BY GoodTyped, PTL
  <2> QED
    BY <1>1, <2>1 DEF ClocksIn, LocationsIn, SyncVars
<1>5. PICK isSc : isSc = (mo = "seq_cst")
  OBVIOUS
<1>6. Stored(b, th, isSc, r)
  BY <1>2, <1>5
<1>7. /\ SameTags(b, r) /\ End(r) = End(b) + 1 /\ End(r) \in Held(r)
      /\ Tag(r, End(r)) = [tid |-> th.tid, epoch |-> th.epoch, sc |-> isSc]
      /\ \A w \in Held(r) : w <= End(b) =>
           (Tag(r, w).sc <=> Tag(b, w).sc \/ Marks(th, Tag(b, w), isSc))
      /\ OwnBelow(b) => OwnBelow(r)
  BY <1>2, <1>3, <1>4, <1>6, StoredTags
<1>8. TagsStay /\ \A z \in Loc : OwnBelow(loc'[z].buf)
  BY <1>1, <1>2, <1>3, <1>7, TagsStayAt
<1> QED
  BY <1>1, <1>2, <1>5, <1>7, <1>8

\* A store adds what it makes, by the epoch it enters.
LEMMA StoredCovers ==
  ASSUME GoodInv, CoverInv, NEW t \in Running, StepGood(t), NEW x \in Loc, NEW mo, NEW th,
         NEW v, v = Learn(hist.view[t], thr'[t].clock), StoredBy(t, x, mo, th, v)
  PROVE  CoverInv'
<1>1. /\ ClocksIn(Clock) /\ HistInv(hist, thr, loc)
      /\ t \in Tid /\ thr[t].status # "invalid" /\ thr[t].epoch \in Nat
      /\ thr[t].clock \in Clock /\ thr[t].epoch + 1 \in Nat
  BY GoodThread
<1>2. GoodInv' /\ Kept /\ Leq(thr[t].clock, thr'[t].clock)
  BY DEF StepGood
<1>3. PICK n : n = End(loc'[x].buf)
  OBVIOUS
<1>4. PICK w, c : w = WithStore(v, x, n) /\ c = thr'[t].clock
  OBVIOUS
<1>5. EndsGrow /\ v \in Views /\ Within(loc', v) /\ Ticks(t, w, c, w)
  BY <1>3, <1>4 DEF StoredBy
<1>6. /\ TagsStay /\ \A z \in Loc : OwnBelow(loc'[z].buf)
      /\ End(loc'[x].buf) = End(loc[x].buf) + 1 /\ End(loc'[x].buf) \in Held(loc'[x].buf)
      /\ Tag(loc'[x].buf, End(loc'[x].buf))
           = [tid |-> t, epoch |-> thr'[t].epoch, sc |-> (mo = "seq_cst")]
      /\ \A q \in Held(loc'[x].buf) : q <= End(loc[x].buf) =>
           (Tag(loc'[x].buf, q).sc <=>
              Tag(loc[x].buf, q).sc \/ Marks(th, Tag(loc[x].buf, q), mo = "seq_cst"))
  BY <1>1, <1>2, TagsOfStore
<1>7. /\ thr'[t].epoch = thr[t].epoch + 1 /\ thr'[t].status # "invalid"
      /\ \A u \in Tid \ {t} : thr'[u] = thr[u]
  BY <1>5 DEF Ticks
<1>8. \A u \in Tid : thr[u].status = "invalid" => thr'[u].status = "invalid"
  BY <1>7, OthersSettled
<1>9. thr[t].epoch <= thr'[t].epoch
  BY <1>1, <1>7
<1>10. /\ Covered(loc', v, thr'[t].clock, t, thr'[t].epoch)
       /\ Covered(loc', hist.view[t], thr'[t].clock, t, thr'[t].epoch)
  BY <1>1, <1>2, <1>6, <1>7, <1>8, <1>9, NewViewCovered
<1>11. \A z \in Loc : w[z].wrote \subseteq v[z].wrote \cup {n}
                      /\ (z # x => w[z].wrote = v[z].wrote)
  BY <1>4, <1>5 DEF WithStore, Views
<1>12. Covered(loc', w, c, t, thr'[t].epoch)
  <2> SUFFICES ASSUME NEW z \in Loc, NEW q \in w[z].wrote, q \in Held(loc'[z].buf)
               PROVE  Knows(c, Tag(loc'[z].buf, q), t, thr'[t].epoch)
    BY DEF Covered
  <2>1. CASE q \in v[z].wrote
    BY <1>4, <1>10, <2>1 DEF Covered
  <2>2. CASE q \notin v[z].wrote
    <3>1. z = x /\ q = n
      BY <1>11, <2>2
    <3>2. Tag(loc'[z].buf, q).tid = t /\ Tag(loc'[z].buf, q).epoch = thr'[t].epoch
      BY <1>3, <1>6, <3>1
    <3> QED
      BY <1>1, <1>7, <3>2 DEF Knows
  <2> QED
    BY <2>1, <2>2
<1>13. Covered(loc', w, thr'[t].clock, t, thr'[t].epoch)
  BY <1>4, <1>12
<1> QED
  BY <1>1, <1>2, <1>5, <1>6, <1>12, <1>13, TickCovers

\* AtomicStore, AtomicRMW and AtomicCAS.
LEMMA StoreCovers ==
  ASSUME KeepsHistory, GoodInv, CoverInv, NEW t \in Running, NEW x \in Loc, NEW mo,
         \/ Store(t, x, mo)
         \/ \E keep \in BOOLEAN : Rmw(t, x, mo, keep)
         \/ mo = "relaxed" /\ CasRelaxed(t, x)
  PROVE  /\ CoverInv' /\ TagsStay /\ EndsGrow /\ StepGood(t)
         /\ \E th : /\ StoredBy(t, x, mo, th, Learn(hist.view[t], thr'[t].clock))
                    /\ th.clock = thr[t].clock
                         \/ th.clock = Raised(thr[t].clock, t, thr'[t].epoch)
<1>1. /\ ClocksIn(Clock) /\ HistInv(hist, thr, loc)
      /\ t \in Tid /\ thr[t].status # "invalid" /\ thr[t].epoch \in Nat
      /\ thr[t].clock \in Clock /\ thr[t].epoch + 1 \in Nat
  BY GoodThread
<1>2. thr[t] \in ThreadStates(Clock) /\ thr[t].tid = t /\ ctx.sfence \in Clock
  BY <1>1, StateParts, ClockLattice
<1>3. PICK v : v = Learn(hist.view[t], thr'[t].clock)
  OBVIOUS
<1>4. \E th : /\ StoredBy(t, x, mo, th, Learn(hist.view[t], thr'[t].clock))
              /\ th.clock = thr[t].clock \/ th.clock = Raised(thr[t].clock, t, thr[t].epoch + 1)
  <2>1. PICK th0 : th0 = Stamped(Ticked(thr[t]))
    OBVIOUS
  <2>2. /\ th0 \in ThreadStates(Clock) /\ th0.tid = thr[t].tid /\ th0.status = thr[t].status
        /\ th0.epoch = thr[t].epoch + 1
        /\ th0.clock = Raised(thr[t].clock, thr[t].tid, thr[t].epoch + 1)
        /\ th0.lastRelease = thr[t].lastRelease /\ th0.frel = thr[t].frel
        /\ th0.facq = thr[t].facq
        /\ th0.slimit = thr[t].slimit /\ th0.swrite = thr[t].swrite /\ th0.sread = thr[t].sread
    BY <1>2, <2>1, NextEpochFacts
  <2>3. CASE Store(t, x, mo)
    <3>1. StoredBy(t, x, mo, th0, Learn(hist.view[t], thr'[t].clock))
      BY <1>1, <2>1, <2>3, StoreEffect
    <3> QED
      BY <1>2, <2>2, <3>1
  <2>4. ASSUME NEW keep \in BOOLEAN, Rmw(t, x, mo, keep)
        PROVE  \E th : /\ StoredBy(t, x, mo, th, Learn(hist.view[t], thr'[t].clock))
                       /\ th.clock = Raised(thr[t].clock, t, thr[t].epoch + 1)
    <3>1. PICK th : th = ScReads(Stamped(Ticked(thr[t])), mo)
      OBVIOUS
    <3>2. th.clock = th0.clock
      BY <2>1, <3>1 DEF ScReads, SCRead
    <3>3. StoredBy(t, x, mo, th, Learn(hist.view[t], thr'[t].clock))
      BY <1>1, <2>4, <3>1, RmwEffect
    <3> QED
      BY <1>2, <2>2, <3>2, <3>3
  <2>5. CASE mo = "relaxed" /\ CasRelaxed(t, x)
    <3>1. PICK th : th = Ticked(thr[t])
      OBVIOUS
    <3>2. StoredBy(t, x, "relaxed", th, Learn(hist.view[t], thr'[t].clock))
      BY <1>1, <2>5, <3>1, CasRelaxedEffect
    <3>3. th.clock = thr[t].clock
      BY <3>1 DEF Ticked
    <3> QED
      BY <2>5, <3>2, <3>3
  <2> QED
    BY <2>3, <2>4, <2>5
<1>5. StepGood(t)
  BY StoreGood, RmwGood, CasRelaxedGood
<1>6. PICK th : /\ StoredBy(t, x, mo, th, Learn(hist.view[t], thr'[t].clock))
                /\ th.clock = thr[t].clock \/ th.clock = Raised(thr[t].clock, t, thr[t].epoch + 1)
  BY <1>4
<1>7. CoverInv' /\ TagsStay
  <2>1. StoredBy(t, x, mo, th, v)
    BY <1>3, <1>6
  <2>2. GoodInv'
    BY <1>5 DEF StepGood
  <2>3. /\ TagsStay /\ \A z \in Loc : OwnBelow(loc'[z].buf)
        /\ End(loc'[x].buf) = End(loc[x].buf) + 1 /\ End(loc'[x].buf) \in Held(loc'[x].buf)
        /\ Tag(loc'[x].buf, End(loc'[x].buf))
             = [tid |-> t, epoch |-> thr'[t].epoch, sc |-> (mo = "seq_cst")]
        /\ \A w \in Held(loc'[x].buf) : w <= End(loc[x].buf) =>
             (Tag(loc'[x].buf, w).sc <=>
                Tag(loc[x].buf, w).sc \/ Marks(th, Tag(loc[x].buf, w), mo = "seq_cst"))
    BY <1>1, <2>1, <2>2, TagsOfStore
  <2>4. CoverInv'
    BY <1>3, <1>5, <2>1, StoredCovers
  <2> QED
    BY <2>3, <2>4
<1>8. thr'[t].epoch = thr[t].epoch + 1 /\ EndsGrow
  BY <1>6 DEF StoredBy, Ticks
<1> QED
  BY <1>5, <1>6, <1>7, <1>8

\* A step that publishes what t knows once it acquired, perhaps with a read.
LEMMA PublishCovers ==
  ASSUME GoodInv, CoverInv, NEW t \in Running, StepGood(t), TagsStay,
         \A z \in Loc : OwnBelow(loc'[z].buf),
         NEW v, v = Learn(hist.view[t], thr'[t].clock) \/ v = hist.view[t],
         NEW w, PublishedBy(t, w), \A z \in Loc : w[z].wrote = v[z].wrote
  PROVE  CoverInv'
<1>1. /\ ClocksIn(Clock) /\ HistInv(hist, thr, loc)
      /\ t \in Tid /\ thr[t].status # "invalid" /\ thr[t].epoch \in Nat
      /\ thr[t].clock \in Clock /\ thr[t].epoch + 1 \in Nat
  BY GoodThread
<1>2. GoodInv' /\ Kept /\ Leq(thr[t].clock, thr'[t].clock)
  BY DEF StepGood
<1>3. EndsGrow /\ Ticks(t, w, thr'[t].clock, w)
  BY DEF PublishedBy
<1>4. /\ thr'[t].epoch = thr[t].epoch + 1 /\ thr'[t].status # "invalid"
      /\ \A u \in Tid \ {t} : thr'[u] = thr[u]
  BY <1>3 DEF Ticks
<1>5. \A u \in Tid : thr[u].status = "invalid" => thr'[u].status = "invalid"
  BY <1>4, OthersSettled
<1>6. thr[t].epoch <= thr'[t].epoch
  BY <1>1, <1>4
<1>7. PICK k : k = Learn(hist.view[t], thr'[t].clock)
  OBVIOUS
<1>8. /\ Covered(loc', k, thr'[t].clock, t, thr'[t].epoch)
      /\ Covered(loc', hist.view[t], thr'[t].clock, t, thr'[t].epoch)
  BY <1>1, <1>2, <1>4, <1>5, <1>6, <1>7, NewViewCovered
<1>9. Covered(loc', v, thr'[t].clock, t, thr'[t].epoch)
  BY <1>7, <1>8
<1>10. Covered(loc', w, thr'[t].clock, t, thr'[t].epoch)
  BY <1>9, ViewStays
<1>11. PICK c : c = thr'[t].clock
  OBVIOUS
<1>12. Ticks(t, w, c, w) /\ Covered(loc', w, c, t, thr'[t].epoch)
  BY <1>3, <1>10, <1>11
<1> QED
  BY <1>1, <1>2, <1>3, <1>10, <1>12, TickCovers

\* AtomicCAS that fails.
LEMMA CasFailCovers ==
  ASSUME KeepsHistory, GoodInv, CoverInv, NEW t \in Running, NEW x \in Loc, NEW fmo,
         CasFail(t, x, fmo)
  PROVE  CoverInv' /\ TagsStay /\ EndsGrow
<1>1. /\ ClocksIn(Clock) /\ HistInv(hist, thr, loc)
      /\ t \in Tid /\ thr[t].status # "invalid" /\ thr[t].epoch \in Nat
      /\ thr[t].clock \in Clock /\ thr[t].epoch + 1 \in Nat
  BY GoodThread
<1>2. StepGood(t)
  BY CasFailGood
<1>3. PICK v : v = Learn(hist.view[t], thr'[t].clock)
  OBVIOUS
<1>4. /\ PublishedBy(t, WithRead(v, x, End(loc[x].buf)))
      /\ v \in Views /\ Within(loc', v)
      /\ \A z \in Loc : End(loc'[z].buf) = End(loc[z].buf)
  BY <1>1, <1>3, CasFailEffect
<1>5. PICK w : w = WithRead(v, x, End(loc[x].buf))
  OBVIOUS
<1>6. PublishedBy(t, w) /\ \A z \in Loc : w[z].wrote = v[z].wrote
  BY <1>4, <1>5 DEF WithRead, Views
<1>7. PICK th : th = ScReads(Ticked(thr[t]), fmo)
  OBVIOUS
<1>8. /\ NewThread(t, "running", thr[t].epoch + 1, thr[t].lastRelease,
                   thr[t].slimit, thr[t].swrite, ScReads(thr[t], fmo).sread)
      /\ IF IsAcquireOrder(fmo) THEN Acquires(Clock, t, thr[t].epoch + 1)
                                ELSE thr'[t].clock = thr[t].clock
      /\ NewLocation(x, loc[x].sync, AdvanceToEnd(loc[x].buf, th))
      /\ thr'[t].clock \in Clock => ClocksIn(Clock)'
  BY <1>1, <1>7, CasFailStep, ClockLattice
<1>9. /\ thr[t] \in ThreadStates(Clock) /\ thr[t].tid = t /\ ctx.sfence \in Clock
      /\ loc[x].buf \in Buffers(Clock) /\ Sound(loc[x].buf)
  BY <1>1, StateParts, ClockLattice
<1>10. th \in ThreadStates(Clock) /\ th.tid = t
  <2>1. PICK T : T = Ticked(thr[t])
    OBVIOUS
  <2>2. T \in ThreadStates(Clock) /\ T.tid = t
    BY <1>9, <2>1, TickedFacts
  <2> QED
    BY <1>7, <1>9, <2>1, <2>2, ScReadsFacts
<1>11. PICK b, r : b = loc[x].buf /\ r = AdvanceToEnd(loc[x].buf, th)
  OBVIOUS
<1>12. IF b.active[th.tid].at = End(b) THEN r = b ELSE Moved(b, th, End(b), r)
  BY <1>9, <1>10, <1>11, AdvanceToEndFacts
<1>13. loc'[x].buf = r /\ \A z \in Loc \ {x} : loc'[z] = loc[z]
  BY <1>8, <1>11 DEF NewLocation
<1>14. End(b) \in Nat /\ End(b) >= b.pos[th.tid]
  <2>1. b \in Buffers(Clock) /\ Sound(b)
    BY <1>9, <1>11
  <2>2. End(b) \in Nat /\ b.pos \in [Tid -> Nat]
    BY <2>1, BufferParts
  <2>3. b.pos[t] \in Nat /\ b.pos[t] <= End(b)
    BY <1>1, <2>1, <2>2 DEF Sound
  <2> QED
    BY <1>10, <2>2, <2>3
<1>15. TagsStay /\ \A z \in Loc : OwnBelow(loc'[z].buf)
  <2>1. PICK p : p = End(b)
    OBVIOUS
  <2>2. /\ p \in Nat /\ p >= loc[x].buf.pos[th.tid]
        /\ loc'[x].buf = loc[x].buf \/ Moved(loc[x].buf, th, p, loc'[x].buf)
    BY <1>11, <1>12, <1>13, <1>14, <2>1
  <2> QED
    BY <1>10, <1>13, <2>2, TagsOfMove
<1>16. CoverInv'
  BY <1>2, <1>3, <1>6, <1>15, PublishCovers
<1> QED
  BY <1>6, <1>15, <1>16 DEF PublishedBy

\* MutexLock, MutexUnlock and OnFinished.
LEMMA MutexCovers ==
  ASSUME KeepsHistory, GoodInv, CoverInv, NEW t \in Running, Lock(t) \/ Unlock(t) \/ Finish(t)
  PROVE  CoverInv' /\ TagsStay /\ EndsGrow
<1>1. ClocksIn(Clock) /\ HistInv(hist, thr, loc)
  BY GoodThread
<1>2. StepGood(t)
  BY MutexGood
<1>3. CASE Lock(t)
  <2>1. PICK v : v = Learn(hist.view[t], thr'[t].clock)
    OBVIOUS
  <2>2. PublishedBy(t, v) /\ v \in Views /\ Within(loc', v) /\ loc' = loc
    BY <1>1, <1>3, <2>1, LockEffect
  <2>3. TagsStay /\ EndsGrow /\ \A z \in Loc : OwnBelow(loc'[z].buf)
    BY <2>2, TagsSame
  <2>4. CoverInv'
    BY <1>2, <2>1, <2>2, <2>3, PublishCovers
  <2> QED
    BY <2>3, <2>4
<1>4. CASE Unlock(t) \/ Finish(t)
  <2>1. PICK v : v = hist.view[t]
    OBVIOUS
  <2>2. /\ PublishedBy(t, hist.view[t]) /\ loc' = loc
        /\ thr'[t].clock = Raised(thr[t].clock, t, thr'[t].epoch)
    BY <1>1, <1>4, StampEffect
  <2>3. TagsStay /\ EndsGrow /\ \A z \in Loc : OwnBelow(loc'[z].buf)
    BY <2>2, TagsSame
  <2>4. PublishedBy(t, v)
    BY <2>1, <2>2
  <2>5. CoverInv'
    BY <1>2, <2>1, <2>3, <2>4, PublishCovers
  <2> QED
    BY <2>3, <2>5
<1> QED
  BY <1>3, <1>4

\* AtomicFence publishes before it acquires.
LEMMA FenceCovers ==
  ASSUME KeepsHistory, GoodInv, CoverInv, NEW t \in Running, NEW mo, Fence(t, mo)
  PROVE  CoverInv' /\ TagsStay /\ EndsGrow
<1>1. /\ ClocksIn(Clock) /\ HistInv(hist, thr, loc)
      /\ t \in Tid /\ thr[t].status # "invalid" /\ thr[t].epoch \in Nat
      /\ thr[t].clock \in Clock /\ thr[t].epoch + 1 \in Nat
  BY GoodThread
<1>2. GoodInv' /\ Kept /\ Leq(thr[t].clock, thr'[t].clock)
  BY FenceGood DEF StepGood
<1>3. PICK v, e : v = Learn(hist.view[t], thr'[t].clock) /\ e = thr[t].epoch + 1
  OBVIOUS
<1>4. /\ ClocksIn(Clock)' /\ loc' = loc /\ v \in Views /\ Within(loc', v)
      /\ OrderFenced(t, mo)
      /\ Ticks(t, hist.view[t], Raised(thr[t].clock, t, e), v)
      /\ thr'[t].epoch = e
      /\ Leq(Raised(thr[t].clock, t, e), thr'[t].clock)
  BY <1>1, <1>3, FenceEffect
<1>5. TagsStay /\ EndsGrow /\ \A z \in Loc : OwnBelow(loc'[z].buf)
  BY <1>4, TagsSame
<1>6. thr'[t].status # "invalid" /\ \A u \in Tid \ {t} : thr'[u] = thr[u]
  BY <1>4 DEF Ticks
<1>7. \A u \in Tid : thr[u].status = "invalid" => thr'[u].status = "invalid"
  BY <1>6, OthersSettled
<1>8. thr[t].epoch <= thr'[t].epoch
  BY <1>1, <1>3, <1>4
<1>9. /\ Covered(loc', v, thr'[t].clock, t, thr'[t].epoch)
      /\ Covered(loc', hist.view[t], thr'[t].clock, t, thr'[t].epoch)
  BY <1>1, <1>2, <1>3, <1>5, <1>6, <1>7, <1>8, NewViewCovered
<1>10. PICK pv, pc : pv = hist.view[t] /\ pc = Raised(thr[t].clock, t, e)
  OBVIOUS
<1>11. Covered(loc', pv, pc, t, thr'[t].epoch)
  <2>1. /\ \A x \in Loc : loc[x].buf \in Buffers(Clock) /\ Sound(loc[x].buf)
        /\ pv \in Views /\ Within(loc, pv)
        /\ Covered(loc, pv, thr[t].clock, t, thr[t].epoch)
    BY <1>1, <1>10, CoverParts DEF CoverInv, ViewsCovered
  <2>2. pc \in Clock /\ Leq(thr[t].clock, pc)
    <3>1. thr[t].clock[t] <= thr[t].epoch /\ thr[t].clock[t] \in Nat
      BY <1>1 DEF GoodInv, ClocksIn, ThreadsIn, GoodClocks, Reached, Clock
    <3>2. thr[t].clock[t] <= e /\ e \in Nat
      BY <1>1, <1>3, <3>1
    <3> QED
      BY <1>1, <1>10, <3>2, RaisedFacts
  <2>3. PICK c0, e0, e2 : c0 = thr[t].clock /\ e0 = thr[t].epoch /\ e2 = thr'[t].epoch
    OBVIOUS
  <2>4. c0 \in Clock /\ e0 \in Nat /\ e2 \in Nat /\ e0 <= e2 /\ Covered(loc, pv, c0, t, e0)
        /\ Leq(c0, pc)
    BY <1>1, <1>3, <1>4, <1>8, <2>1, <2>2, <2>3
  <2>5. Covered(loc', pv, pc, t, e2)
    BY <1>1, <1>5, <2>1, <2>2, <2>4, CoveredStays
  <2> QED
    BY <2>3, <2>5
<1>12. Ticks(t, pv, pc, v)
  BY <1>4, <1>10
<1>13. CoverInv'
  BY <1>1, <1>2, <1>5, <1>9, <1>11, <1>12, TickCovers
<1> QED
  BY <1>5, <1>13

\* OnJoined.
LEMMA JoinCovers ==
  ASSUME KeepsHistory, GoodInv, CoverInv, NEW t \in Running, NEW u \in Tid, ThreadJoin(t, u)
  PROVE  CoverInv' /\ TagsStay /\ EndsGrow
<1>1. /\ ClocksIn(Clock) /\ HistInv(hist, thr, loc)
      /\ t \in Tid /\ thr[t].status # "invalid" /\ thr[t].epoch \in Nat
      /\ thr[t].clock \in Clock /\ thr[t].epoch + 1 \in Nat
  BY GoodThread
<1>2. GoodInv' /\ Kept /\ Leq(thr[t].clock, thr'[t].clock)
  BY JoinGood DEF StepGood
<1>3. PICK v : v = Learn(hist.view[t], thr'[t].clock)
  OBVIOUS
<1>4. /\ ClocksIn(Clock)' /\ loc' = loc /\ v \in Views /\ Within(loc', v)
      /\ Learns(t, v) /\ SameOrder(hist', hist)
  BY <1>1, <1>3, JoinEffect
<1>5. /\ ThreadIs(t, "running", thr[t].epoch, thr[t].lastRelease,
                  thr[t].slimit, thr[t].swrite, thr[t].sread)
      /\ u # t /\ thr[u].status = "finished"
      /\ ThreadIs(u, "dead", thr[u].epoch, thr[u].lastRelease,
                  thr[u].slimit, thr[u].swrite, thr[u].sread)
      /\ thr'[u].clock = thr[u].clock
      /\ \A w \in Tid \ {t, u} : thr'[w] = thr[w]
      /\ Acquires(Clock, t, thr[t].epoch)
      /\ thr'[t].clock \in Clock => ClocksIn(Clock)'
  BY <1>1, JoinStep, ClockLattice
<1>6. /\ thr'[t].epoch = thr[t].epoch /\ thr'[t].status # "invalid"
      /\ \A w \in Tid \ {t} : thr'[w].clock = thr[w].clock /\ thr'[w].epoch = thr[w].epoch
      /\ \A w \in Tid : thr[w].status = "invalid" => thr'[w].status = "invalid"
  BY <1>1, <1>5 DEF ThreadIs
<1>7. TagsStay /\ EndsGrow /\ \A z \in Loc : OwnBelow(loc'[z].buf)
  BY <1>4, TagsSame
<1>8. /\ Covered(loc', v, thr'[t].clock, t, thr'[t].epoch)
      /\ Covered(loc', hist.view[t], thr'[t].clock, t, thr'[t].epoch)
  BY <1>1, <1>2, <1>3, <1>6, <1>7, NewViewCovered
<1>9. CoverInv'
  BY <1>1, <1>2, <1>4, <1>6, <1>7, <1>8, LearnCovers
<1> QED
  BY <1>7, <1>9

\* OnCreated and OnStarted: the new thread knows what its creator does.
LEMMA CreateCovers ==
  ASSUME KeepsHistory, GoodInv, CoverInv, NEW t \in Running, NEW u \in Tid, Create(t, u)
  PROVE  CoverInv' /\ TagsStay /\ EndsGrow
<1>1. /\ ClocksIn(Clock) /\ HistInv(hist, thr, loc)
      /\ t \in Tid /\ thr[t].status # "invalid" /\ thr[t].epoch \in Nat
      /\ thr[t].clock \in Clock /\ thr[t].epoch + 1 \in Nat
  BY GoodThread
<1>2. GoodInv' /\ Kept /\ Leq(thr[t].clock, thr'[t].clock)
  BY CreateGood DEF StepGood
<1>3. /\ ThreadIs(t, "running", thr[t].epoch + 1, thr[t].lastRelease,
                  thr[t].slimit, thr[t].swrite, thr[t].sread)
      /\ u # t /\ thr[u].status = "invalid"
      /\ ThreadIs(u, "running", 1, 0, Zero, Zero, Zero)
      /\ thr'[t].clock = Raised(thr[t].clock, t, thr[t].epoch + 1)
      /\ thr'[u].clock = Join(Raised(Raised(Zero, u, 1), u, 1), thr'[t].clock)
      /\ \A w \in Tid \ {t, u} : thr'[w] = thr[w]
      /\ thr'[t].clock \in Clock /\ thr'[u].clock \in Clock => ClocksIn(Clock)'
  BY <1>1, CreateStep, ClockLattice
<1>4. ClocksIn(Clock)' /\ loc' = loc /\ CreatedBy(t, u)
  BY <1>1, CreateEffect
<1>5. TagsStay /\ EndsGrow /\ \A z \in Loc : OwnBelow(loc'[z].buf)
  BY <1>4, TagsSame
<1>6. PICK e, c, c2, v : /\ e = thr[t].epoch /\ c = thr'[t].clock /\ c2 = thr'[u].clock
                         /\ v = hist.view[t]
  OBVIOUS
<1>7. c \in Clock /\ c2 \in Clock /\ Leq(c, c2) /\ c[t] = e + 1 /\ e \in Nat
  <2>1. thr[t].clock[t] <= thr[t].epoch + 1
    <3>1. thr[t].clock[t] <= thr[t].epoch /\ thr[t].clock[t] \in Nat
      BY <1>1 DEF GoodInv, ClocksIn, ThreadsIn, GoodClocks, Reached, Clock
    <3> QED
      BY <1>1, <3>1
  <2>2. c \in Clock /\ c[t] = e + 1
    BY <1>1, <1>3, <1>6, <2>1, RaisedFacts
  <2>3. Raised(Raised(Zero, u, 1), u, 1) \in Clock
    BY ClockFacts, RaisedType
  <2> QED
    BY <1>1, <1>3, <1>6, <2>2, <2>3, ClockFacts
<1>8. Covered(loc', v, c, t, e + 1) /\ Covered(loc', v, c, t, e)
  <2>1. /\ \A x \in Loc : loc[x].buf \in Buffers(Clock) /\ Sound(loc[x].buf)
        /\ v \in Views /\ Within(loc, v)
        /\ Covered(loc, v, thr[t].clock, t, thr[t].epoch)
    BY <1>1, <1>6, CoverParts DEF CoverInv, ViewsCovered
  <2>2. PICK c0, e2 : c0 = thr[t].clock /\ e2 = e + 1
    OBVIOUS
  <2>3. c0 \in Clock /\ Leq(c0, c) /\ e2 \in Nat /\ e <= e2 /\ e <= e /\ Covered(loc, v, c0, t, e)
    BY <1>1, <1>2, <1>6, <1>7, <2>1, <2>2
  <2>4. Covered(loc', v, c, t, e2) /\ Covered(loc', v, c, t, e)
    BY <1>1, <1>5, <1>7, <2>1, <2>3, CoveredStays
  <2> QED
    BY <2>2, <2>4
<1>9. Covered(loc', v, c2, u, 1)
  <2> SUFFICES ASSUME NEW x \in Loc, NEW w \in v[x].wrote, w \in Held(loc'[x].buf)
               PROVE  Knows(c2, Tag(loc'[x].buf, w), u, 1)
    BY DEF Covered
  <2>1. PICK g : g = Tag(loc'[x].buf, w)
    OBVIOUS
  <2>2. Knows(c, g, t, e)
    BY <1>8, <2>1 DEF Covered
  <2>3. g.tid \in Tid /\ g.epoch \in Nat
    <3>1. loc[x].buf \in Buffers(Clock) /\ Sound(loc[x].buf) /\ w \in Held(loc[x].buf)
      BY <1>4, CoverParts
    <3> QED
      BY <1>4, <2>1, <3>1, TagFacts
  <2>4. c[g.tid] \in Nat /\ c2[g.tid] \in Nat /\ c[g.tid] <= c2[g.tid]
    BY <1>7, <2>3 DEF Leq, Clock
  <2>5. c2[g.tid] >= g.epoch
    BY <1>7, <2>2, <2>3, <2>4 DEF Knows
  <2> QED
    BY <2>1, <2>5 DEF Knows
<1>10. /\ hist.view \in [Tid -> Views] /\ hist.past \in [Tid -> Seq(Publications)]
       /\ \A w \in Tid : /\ thr[w].clock \in Clock /\ thr[w].epoch \in Nat
                         /\ Len(hist.past[w]) = thr[w].epoch
  <2>1. hist.view \in [Tid -> Views] /\ hist.past \in [Tid -> Seq(Publications)]
        /\ \A w \in Tid : Len(hist.past[w]) = thr[w].epoch
    BY <1>1 DEF HistInv, HistoryIn
  <2>2. \A w \in Tid : thr[w].clock \in Clock /\ thr[w].epoch \in Nat
    BY CoverParts
  <2> QED
    BY <2>1, <2>2
<1>11. PICK p, q : p = [view |-> v, clock |-> c] /\ q = [view |-> v, clock |-> c2]
  OBVIOUS
<1>12. /\ hist'.view = [hist.view EXCEPT ![u] = v]
       /\ hist'.past = [[hist.past EXCEPT ![t] = Append(@, p)] EXCEPT ![u] = << q >>]
  BY <1>4, <1>6, <1>11 DEF CreatedBy, Publishes
<1>13. /\ hist'.view[u] = v /\ \A w \in Tid \ {u} : hist'.view[w] = hist.view[w]
       /\ hist'.past[u] = << q >> /\ hist'.past[t] = Append(hist.past[t], p)
       /\ \A w \in Tid \ {t, u} : hist'.past[w] = hist.past[w]
  BY <1>1, <1>3, <1>10, <1>12
<1>14. ASSUME NEW w \in Tid
       PROVE  \/ /\ hist'.view[w] = hist.view[w] /\ Leq(thr[w].clock, thr'[w].clock)
                 /\ thr[w].epoch <= thr'[w].epoch
              \/ Covered(loc', hist'.view[w], thr'[w].clock, w, thr'[w].epoch)
  <2>1. CASE w = u
    <3>1. thr'[u].epoch = 1
      BY <1>3 DEF ThreadIs
    <3> QED
      BY <1>6, <1>9, <1>13, <2>1, <3>1
  <2>2. CASE w = t
    <3>1. thr'[t].epoch = thr[t].epoch + 1
      BY <1>3 DEF ThreadIs
    <3> QED
      BY <1>1, <1>2, <1>3, <1>13, <2>2, <3>1
  <2>3. CASE w # u /\ w # t
    <3>1. Leq(thr[w].clock, thr[w].clock)
      BY <1>10 DEF Leq, Clock
    <3> QED
      BY <1>3, <1>10, <1>13, <2>3, <3>1
  <2> QED
    BY <2>1, <2>2, <2>3
<1>15. ASSUME NEW w \in Tid, NEW i \in DOMAIN hist'.past[w]
       PROVE  \/ i \in DOMAIN hist.past[w] /\ hist'.past[w][i] = hist.past[w][i]
              \/ Covered(loc', hist'.past[w][i].view, hist'.past[w][i].clock, w, i)
  <2>1. CASE w = u
    <3>1. i = 1 /\ hist'.past[w][i] = q
      BY <1>13, <2>1
    <3>2. q.view = v /\ q.clock = c2
      BY <1>11
    <3> QED
      BY <1>9, <2>1, <3>1, <3>2
  <2>2. CASE w = t
    <3>1. p \in Publications
      <4>1. v \in Views
        BY <1>1, <1>6, <1>10
      <4> QED
        BY <1>7, <1>11, <4>1 DEF Publications
    <3>2. PICK s : s = hist.past[t]
      OBVIOUS
    <3>3. s \in Seq(Publications) /\ Len(s) = e
      BY <1>1, <1>6, <1>10, <3>2
    <3>4. /\ Append(s, p) \in Seq(Publications) /\ Len(Append(s, p)) = Len(s) + 1
          /\ Append(s, p)[Len(s) + 1] = p
          /\ \A j \in 1..Len(s) : Append(s, p)[j] = s[j]
          /\ DOMAIN s = 1..Len(s) /\ Len(s) \in Nat
      BY <3>1, <3>3, AppendFacts
    <3>5. hist'.past[w] = Append(s, p) /\ hist.past[w] = s
      BY <1>13, <2>2, <3>2
    <3>6. DOMAIN Append(s, p) = 1..Len(Append(s, p))
      BY <3>4
    <3>7. i \in 1..(e + 1)
      BY <3>3, <3>4, <3>5, <3>6
    <3>8. CASE i = e + 1
      <4>1. hist'.past[w][i] = p
        BY <3>3, <3>4, <3>5, <3>8
      <4>2. p.view = v /\ p.clock = c
        BY <1>11
      <4> QED
        BY <1>8, <2>2, <3>8, <4>1, <4>2
    <3>9. CASE i # e + 1
      <4>1. i \in 1..Len(s)
        BY <1>7, <3>3, <3>7, <3>9
      <4> QED
        BY <3>4, <3>5, <4>1
    <3> QED
      BY <3>8, <3>9
  <2>3. CASE w # u /\ w # t
    BY <1>13, <2>3
  <2> QED
    BY <2>1, <2>2, <2>3
<1>16. CoverInv'
  BY <1>2, <1>5, <1>14, <1>15, CoverKept
<1> QED
  BY <1>5, <1>16

\* Every step keeps what is covered.
LEMMA StepCovers ==
  ASSUME KeepsHistory, GoodInv, CoverInv, NEW t \in Running, StepOf(t)
  PROVE  CoverInv' /\ TagsStay /\ EndsGrow
<1>1. ASSUME NEW x \in Loc, NEW mo, NEW p, LoadAt(t, x, mo, p) PROVE CoverInv' /\ TagsStay /\ EndsGrow
  BY <1>1, LoadCovers
<1>2. ASSUME NEW x \in Loc, NEW mo, Store(t, x, mo) PROVE CoverInv' /\ TagsStay /\ EndsGrow
  BY <1>2, StoreCovers
<1>3. ASSUME NEW x \in Loc, NEW mo, NEW keep \in BOOLEAN, Rmw(t, x, mo, keep)
      PROVE  CoverInv' /\ TagsStay /\ EndsGrow
  BY <1>3, StoreCovers
<1>4. ASSUME NEW x \in Loc, CasRelaxed(t, x) PROVE CoverInv' /\ TagsStay /\ EndsGrow
  BY <1>4, StoreCovers
<1>5. ASSUME NEW x \in Loc, NEW fmo, CasFail(t, x, fmo) PROVE CoverInv' /\ TagsStay /\ EndsGrow
  BY <1>5, CasFailCovers
<1>6. ASSUME NEW mo, Fence(t, mo) PROVE CoverInv' /\ TagsStay /\ EndsGrow
  BY <1>6, FenceCovers
<1>7. ASSUME Lock(t) \/ Unlock(t) \/ Finish(t) PROVE CoverInv' /\ TagsStay /\ EndsGrow
  BY <1>7, MutexCovers
<1>8. ASSUME NEW u \in Tid, Create(t, u) PROVE CoverInv' /\ TagsStay /\ EndsGrow
  BY <1>8, CreateCovers
<1>9. ASSUME NEW u \in Tid, ThreadJoin(t, u) PROVE CoverInv' /\ TagsStay /\ EndsGrow
  BY <1>9, JoinCovers
<1> QED
  BY <1>1, <1>2, <1>3, <1>4, <1>5, <1>6, <1>7, <1>8, <1>9 DEF StepOf

\* At first nothing but the initial values is held, and they are known to all.
LEMMA InitCovers ==
  ASSUME KeepsHistory, Init
  PROVE  CoverInv
<1>1. /\ IsHistory(hist)
      /\ \A t \in Tid : /\ hist.view[t] = FirstView
                        /\ hist.past[t] = << [view |-> FirstView, clock |-> Raised(Zero, t, 1)] >>
                        /\ thr[t].epoch = 1 /\ thr[t].clock = Raised(Zero, t, 1)
      /\ hist.view \in [Tid -> Views] /\ hist.past \in [Tid -> Seq(Publications)]
      /\ FirstView \in Views /\ Within(loc, FirstView)
      /\ \A x \in Loc : End(loc[x].buf) = 1
  BY FirstHistory
<1>2. ASSUME NEW x \in Loc
      PROVE  \A w \in Held(loc[x].buf) : /\ Tag(loc[x].buf, w).tid = Main
                                         /\ Tag(loc[x].buf, w).epoch = 0
  <2>1. loc[x].buf = EmptyBuffer
    BY DEF Init, InitWith
  <2>2. DOMAIN EmptyBuffer.stores = {} /\ EmptyBuffer.prev.tid = Main
        /\ EmptyBuffer.prev.epoch = 0
    BY DEF EmptyBuffer
  <2> QED
    BY <2>1, <2>2 DEF Held, Tag
<1>3. ASSUME NEW v, NEW t \in Tid, NEW e PROVE Covered(loc, v, Raised(Zero, t, 1), t, e)
  <2> SUFFICES ASSUME NEW x \in Loc, NEW w \in v[x].wrote, w \in Held(loc[x].buf)
               PROVE  Knows(Raised(Zero, t, 1), Tag(loc[x].buf, w), t, e)
    BY DEF Covered
  <2>1. Tag(loc[x].buf, w).tid \in Tid /\ Tag(loc[x].buf, w).epoch = 0
    BY <1>2, MainAssumption
  <2>2. Raised(Zero, t, 1) \in Clock
    BY ClockFacts, RaisedType
  <2>3. Raised(Zero, t, 1)[Tag(loc[x].buf, w).tid] \in Nat
    BY <2>1, <2>2 DEF Clock
  <2> QED
    BY <2>1, <2>3 DEF Knows
<1>4. ViewsCovered
  BY <1>1, <1>3 DEF ViewsCovered
<1>5. PastCovered
  <2> SUFFICES ASSUME NEW t \in Tid, NEW e \in DOMAIN hist.past[t]
               PROVE  Covered(loc, hist.past[t][e].view, hist.past[t][e].clock, t, e)
    BY DEF PastCovered
  <2>1. PICK p : p = [view |-> FirstView, clock |-> Raised(Zero, t, 1)]
    OBVIOUS
  <2>2. hist.past[t] = << p >>
    BY <1>1, <2>1
  <2>3. hist.past[t][e] = p
    BY <2>2
  <2> QED
    BY <1>3, <2>1, <2>3
<1>6. \A x \in Loc : OwnBelow(loc[x].buf)
  BY <1>2 DEF OwnBelow
<1> QED
  BY <1>4, <1>5, <1>6 DEF CoverInv

\* In every reachable state, what a thread's past stored is known to its clock by the
\* tags the buffers keep.
THEOREM StoresAreCovered ==
  ASSUME KeepsHistory PROVE Spec => [](GoodInv /\ CoverInv)
<1>1. Init => CoverInv
  BY InitCovers
<1>2. GoodInv /\ CoverInv /\ [Next]_vars => CoverInv'
  <2> SUFFICES ASSUME GoodInv, CoverInv, [Next]_vars PROVE CoverInv'
    OBVIOUS
  <2>1. CASE UNCHANGED vars
    <3>1. thr' = thr /\ loc' = loc /\ hist' = hist
      BY <2>1 DEF vars
    <3> QED
      BY <3>1 DEF CoverInv, ViewsCovered, PastCovered, Covered, OwnBelow, Knows
  <2>2. CASE Next
    <3>1. PICK t \in Running : StepOf(t)
      BY <2>2, StepCases
    <3> QED
      BY <3>1, StepCovers
  <2> QED
    BY <2>1, <2>2
<1> QED
  BY <1>1, <1>2, ClocksAreGood, PTL DEF Spec

\* The thread with which a load of order mo looks for what it may read.
LEMMA ReaderFacts ==
  ASSUME GoodInv, NEW t \in Tid, NEW mo, NEW th, th = ScReads(thr[t], mo)
  PROVE  /\ th \in ThreadStates(Clock) /\ th.tid = t /\ th.clock = thr[t].clock
         /\ th.slimit = thr[t].slimit /\ th.swrite = thr[t].swrite
         /\ th.sread = IF mo = "seq_cst" THEN Join(thr[t].sread, ctx.sfence) ELSE thr[t].sread
<1>1. thr[t] \in ThreadStates(Clock) /\ thr[t].tid = t /\ ctx.sfence \in Clock
  BY GoodTyped DEF ClocksIn, ThreadsIn
<1>2. /\ ScReads(thr[t], mo)
           = [tid |-> thr[t].tid, status |-> thr[t].status, epoch |-> thr[t].epoch,
              clock |-> thr[t].clock, lastRelease |-> thr[t].lastRelease, frel |-> thr[t].frel,
              facq |-> thr[t].facq, slimit |-> thr[t].slimit,
              swrite |-> thr[t].swrite,
              sread |-> IF mo = "seq_cst" THEN Join(thr[t].sread, ctx.sfence) ELSE thr[t].sread]
      /\ ScReads(thr[t], mo) \in ThreadStates(Clock)
  BY <1>1, ScReadsFacts
<1> QED
  BY <1>1, <1>2

\* A next load is one of some thread, at some location.
LEMMA NextLoadFacts ==
  ASSUME NEW l \in NextLoads
  PROVE  l.tid \in Tid /\ l.loc \in Loc /\ l.reads = NextReads(l.tid, l.loc, l.mo)
<1> DEFINE F(t, x) == {[tid |-> t, loc |-> x, mo |-> mo, reads |-> NextReads(t, x, mo)] :
                         mo \in Uses[<<t, x>>].load}
           Sets == {F(t, x) : t \in Tid, x \in Loc}
<1>1. NextLoads = UNION Sets
  BY DEF NextLoads
<1>2. PICK t \in Tid, x \in Loc : l \in F(t, x)
  <2> HIDE DEF F
  <2>1. PICK S \in Sets : l \in S
    BY <1>1
  <2> QED
    BY <2>1
<1>3. PICK mo : l = [tid |-> t, loc |-> x, mo |-> mo, reads |-> NextReads(t, x, mo)]
  BY <1>2
<1> QED
  BY <1>3

\* No load reads a store that precedes one its past made (WriteReadCoherence of Tsan11).
THEOREM WritesAreCoherent ==
  ASSUME KeepsHistory PROVE Spec => []WriteReadCoherence
<1>1. GoodInv /\ CoverInv => WriteReadCoherence
  <2> SUFFICES ASSUME GoodInv, CoverInv,
                      NEW t \in Tid, NEW x \in Loc, NEW mo, NEW p \in NextReads(t, x, mo),
                      NEW w \in hist.view[t][x].wrote
               PROVE  p >= w
    BY NextLoadFacts DEF WriteReadCoherence
  <2>1. PICK b, th, isSc : /\ b = loc[x].buf /\ th = ScReads(thr[t], mo)
                           /\ isSc = (mo = "seq_cst")
    OBVIOUS
  <2>2. b \in Buffers(Clock) /\ Sound(b) /\ OwnBelow(b)
    BY <2>1, CoverParts DEF CoverInv
  <2>3. /\ th \in ThreadStates(Clock) /\ th.tid = t /\ th.clock = thr[t].clock
        /\ th.slimit = thr[t].slimit /\ th.swrite = thr[t].swrite
        /\ th.sread = IF mo = "seq_cst" THEN Join(thr[t].sread, ctx.sfence) ELSE thr[t].sread
    BY <2>1, ReaderFacts
  <2>4. isSc \in BOOLEAN /\ p \in Readable(b, th, isSc)
    BY <2>1 DEF NextReads
  <2>5. w \in Nat /\ w <= End(b)
    <3>1. hist.view[t] \in Views /\ Within(loc, hist.view[t])
      BY CoverParts
    <3> QED
      BY <2>1, <3>1 DEF Views, Within
  <2>6. ASSUME w \in Held(b) PROVE Bounds(th, Tag(b, w), isSc) \/ w <= b.pos[th.tid]
    <3>1. PICK g : g = Tag(b, w)
      OBVIOUS
    <3>2. g.tid \in Tid /\ g.epoch \in Nat
      BY <2>2, <2>6, <3>1, TagFacts
    <3>3. Knows(thr[t].clock, g, t, thr[t].epoch)
      BY <2>1, <2>6, <3>1 DEF CoverInv, ViewsCovered, Covered
    <3>4. CASE thr[t].clock[g.tid] >= g.epoch
      BY <2>3, <3>1, <3>4 DEF Bounds
    <3>5. CASE g.tid = t /\ g.epoch > 0
      BY <2>2, <2>3, <2>6, <3>1, <3>5 DEF OwnBelow
    <3>6. CASE g.tid = t /\ g.epoch = 0
      <4>1. th.clock[g.tid] \in Nat
        BY <2>3, <3>2 DEF ThreadStates, Clock
      <4>2. th.clock[g.tid] >= g.epoch
        BY <3>6, <4>1
      <4> QED
        BY <3>1, <4>2 DEF Bounds
    <3> QED
      BY <3>2, <3>3, <3>4, <3>5, <3>6 DEF Knows
  <2> QED
    BY <2>2, <2>3, <2>4, <2>5, <2>6, ReadsNotBefore
<1> QED
  BY <1>1, StoresAreCovered, PTL

-----------------------------------------------------------------------------
(* The SC order. A position the history remembers is, while it is held, named *)
(* by its tag to the clocks that order it.                                    *)

\* Position w is a store of t, made by its epoch e.
OwnOk(b, t, w, e) ==
  w <= End(b) /\ (w \in Held(b) => Tag(b, w).tid = t /\ Tag(b, w).epoch <= e)

\* It precedes an SC fence that c knows.
FencedOk(b, c, w) == w <= End(b) /\ (w \in Held(b) => c[Tag(b, w).tid] >= Tag(b, w).epoch)

\* An SC fence of a thread with these clocks orders it.
FloorOk(b, slimit, swrite, w) ==
  /\ w <= End(b)
  /\ w \in Held(b) => \/ slimit[Tag(b, w).tid] >= Tag(b, w).epoch
                      \/ Tag(b, w).sc /\ swrite[Tag(b, w).tid] >= Tag(b, w).epoch

\* It is an SC store that c knows.
ScOk(b, c, w) ==
  w <= End(b) /\ (w \in Held(b) => Tag(b, w).sc /\ c[Tag(b, w).tid] >= Tag(b, w).epoch)

OrderTyped ==
  /\ hist.own \in [Tid -> [Loc -> Nat]] /\ hist.fenced \in [Loc -> Nat]
  /\ hist.floor \in [Tid -> [Loc -> Nat]]
  /\ hist.sc \in [Loc -> SUBSET Nat] /\ hist.scPast \in [Loc -> SUBSET Nat]

\* The SC fences and stores that ctx knows have happened.
FencesReached == \A t \in Tid : ctx.sfence[t] <= thr[t].epoch /\ ctx.swrite[t] <= thr[t].epoch

OwnTagged == \A t \in Tid, x \in Loc : OwnOk(loc[x].buf, t, hist.own[t][x], thr[t].epoch)

FencedTagged == \A x \in Loc : FencedOk(loc[x].buf, ctx.sfence, hist.fenced[x])

FloorTagged ==
  \A t \in Tid, x \in Loc :
    /\ thr[t].status = "invalid" => hist.floor[t][x] = 0
    /\ FloorOk(loc[x].buf, thr[t].slimit, thr[t].swrite, hist.floor[t][x])

ScTagged == \A x \in Loc : \A w \in hist.sc[x] : ScOk(loc[x].buf, ctx.swrite, w)

OrderInv ==
  OrderTyped /\ FencesReached /\ OwnTagged /\ FencedTagged /\ FloorTagged /\ ScTagged

\* A step takes nothing back of what the order rests on.
OrderGrows ==
  /\ TagsStay /\ EndsGrow
  /\ Leq(ctx.sfence, ctx'.sfence) /\ Leq(ctx.swrite, ctx'.swrite)
  /\ \A u \in Tid :
       /\ thr[u].epoch <= thr'[u].epoch
       /\ ctx'.sfence[u] <= thr'[u].epoch /\ ctx'.swrite[u] <= thr'[u].epoch
       /\ thr[u].status # "invalid" =>
            /\ thr'[u].status # "invalid"
            /\ Leq(thr[u].slimit, thr'[u].slimit) /\ Leq(thr[u].swrite, thr'[u].swrite)

\* What holds of a position stays true of it.
LEMMA PositionStays ==
  ASSUME NEW b \in Buffers(Clock), Sound(b), NEW r, End(r) \in Nat,
         SameTags(b, r), End(b) <= End(r), NEW w \in Nat
  PROVE  /\ \A t \in Tid, e, e2 \in Nat : e <= e2 /\ OwnOk(b, t, w, e) => OwnOk(r, t, w, e2)
         /\ \A c, c2 \in Clock : Leq(c, c2) => /\ FencedOk(b, c, w) => FencedOk(r, c2, w)
                                               /\ ScOk(b, c, w) => ScOk(r, c2, w)
         /\ \A c, c2, d, d2 \in Clock :
              Leq(c, c2) /\ Leq(d, d2) /\ FloorOk(b, c, d, w) => FloorOk(r, c2, d2, w)
<1>1. PICK g, h : g = Tag(b, w) /\ h = Tag(r, w)
  OBVIOUS
<1>2. ASSUME w <= End(b), w \in Held(r)
      PROVE  /\ w \in Held(b) /\ h.tid = g.tid /\ h.epoch = g.epoch /\ (g.sc => h.sc)
             /\ g.tid \in Tid /\ g.epoch \in Nat
  <2>1. w \in Held(b) /\ h.tid = g.tid /\ h.epoch = g.epoch /\ (g.sc => h.sc)
    BY <1>1, <1>2 DEF SameTags
  <2> QED
    BY <1>1, <2>1, TagFacts
<1>3. End(b) \in Nat
  BY BufferParts
<1>4. ASSUME NEW t \in Tid, NEW e \in Nat, NEW e2 \in Nat, e <= e2, OwnOk(b, t, w, e)
      PROVE  OwnOk(r, t, w, e2)
  <2>1. w <= End(b) /\ w <= End(r)
    BY <1>3, <1>4 DEF OwnOk
  <2>2. ASSUME w \in Held(r) PROVE h.tid = t /\ h.epoch <= e2
    <3>1. w \in Held(b) /\ h.tid = g.tid /\ h.epoch = g.epoch /\ g.epoch \in Nat
      BY <1>2, <2>1, <2>2
    <3>2. g.tid = t /\ g.epoch <= e
      BY <1>1, <1>4, <3>1 DEF OwnOk
    <3> QED
      BY <1>4, <3>1, <3>2
  <2> QED
    BY <1>1, <2>1, <2>2 DEF OwnOk
<1>5. ASSUME NEW c \in Clock, NEW c2 \in Clock, Leq(c, c2), g.tid \in Tid, g.epoch \in Nat,
             c[g.tid] >= g.epoch
      PROVE  c2[g.tid] >= g.epoch
  <2>1. c[g.tid] \in Nat /\ c2[g.tid] \in Nat /\ c[g.tid] <= c2[g.tid]
    BY <1>5 DEF Leq, Clock
  <2> QED
    BY <1>5, <2>1
<1>6. ASSUME NEW c \in Clock, NEW c2 \in Clock, Leq(c, c2), FencedOk(b, c, w)
      PROVE  FencedOk(r, c2, w)
  <2>1. w <= End(b) /\ w <= End(r)
    BY <1>3, <1>6 DEF FencedOk
  <2>2. ASSUME w \in Held(r) PROVE c2[h.tid] >= h.epoch
    <3>1. /\ w \in Held(b) /\ h.tid = g.tid /\ h.epoch = g.epoch
          /\ g.tid \in Tid /\ g.epoch \in Nat
      BY <1>2, <2>1, <2>2
    <3>2. c[g.tid] >= g.epoch
      BY <1>1, <1>6, <3>1 DEF FencedOk
    <3> QED
      BY <1>5, <1>6, <3>1, <3>2
  <2> QED
    BY <1>1, <2>1, <2>2 DEF FencedOk
<1>7. ASSUME NEW c \in Clock, NEW c2 \in Clock, Leq(c, c2), ScOk(b, c, w)
      PROVE  ScOk(r, c2, w)
  <2>1. w <= End(b) /\ w <= End(r)
    BY <1>3, <1>7 DEF ScOk
  <2>2. ASSUME w \in Held(r) PROVE h.sc /\ c2[h.tid] >= h.epoch
    <3>1. /\ w \in Held(b) /\ h.tid = g.tid /\ h.epoch = g.epoch /\ (g.sc => h.sc)
          /\ g.tid \in Tid /\ g.epoch \in Nat
      BY <1>2, <2>1, <2>2
    <3>2. g.sc /\ c[g.tid] >= g.epoch
      BY <1>1, <1>7, <3>1 DEF ScOk
    <3> QED
      BY <1>5, <1>7, <3>1, <3>2
  <2> QED
    BY <1>1, <2>1, <2>2 DEF ScOk
<1>8. ASSUME NEW c \in Clock, NEW c2 \in Clock, NEW d \in Clock, NEW d2 \in Clock,
             Leq(c, c2), Leq(d, d2), FloorOk(b, c, d, w)
      PROVE  FloorOk(r, c2, d2, w)
  <2>1. w <= End(b) /\ w <= End(r)
    BY <1>3, <1>8 DEF FloorOk
  <2>2. ASSUME w \in Held(r) PROVE c2[h.tid] >= h.epoch \/ (h.sc /\ d2[h.tid] >= h.epoch)
    <3>1. /\ w \in Held(b) /\ h.tid = g.tid /\ h.epoch = g.epoch /\ (g.sc => h.sc)
          /\ g.tid \in Tid /\ g.epoch \in Nat
      BY <1>2, <2>1, <2>2
    <3>2. c[g.tid] >= g.epoch \/ (g.sc /\ d[g.tid] >= g.epoch)
      BY <1>1, <1>8, <3>1 DEF FloorOk
    <3>3. c[g.tid] >= g.epoch => c2[g.tid] >= g.epoch
      BY <1>5, <1>8, <3>1
    <3>4. d[g.tid] >= g.epoch => d2[g.tid] >= g.epoch
      BY <1>5, <1>8, <3>1
    <3> QED
      BY <3>1, <3>2, <3>3, <3>4
  <2> QED
    BY <1>1, <2>1, <2>2 DEF FloorOk
<1> QED
  BY <1>4, <1>6, <1>7, <1>8

\* The types that the steps of the order need.
LEMMA OrderParts ==
  ASSUME ClocksIn(Clock)
  PROVE  /\ ctx.sfence \in Clock /\ ctx.swrite \in Clock
         /\ \A x \in Loc : /\ loc[x].buf \in Buffers(Clock) /\ Sound(loc[x].buf)
                           /\ End(loc[x].buf) \in Nat /\ 0 \notin Held(loc[x].buf)
         /\ \A t \in Tid : /\ thr[t].epoch \in Nat
                           /\ thr[t].slimit \in Clock /\ thr[t].swrite \in Clock
                           /\ thr[t].sread \in Clock
<1>1. ASSUME NEW x \in Loc
      PROVE  /\ loc[x].buf \in Buffers(Clock) /\ Sound(loc[x].buf)
             /\ End(loc[x].buf) \in Nat /\ 0 \notin Held(loc[x].buf)
  <2>1. loc[x].buf \in Buffers(Clock) /\ Sound(loc[x].buf)
    BY DEF ClocksIn, LocationsIn, SyncVars
  <2>2. \A w \in Held(loc[x].buf) : w >= 1
    BY <2>1, TagFacts
  <2>3. 0 \notin Held(loc[x].buf)
    BY <2>2
  <2> QED
    BY <2>1, <2>3, BufferParts
<1> QED
  BY <1>1 DEF ClocksIn, ThreadsIn, ThreadStates

\* What is remembered stays true, of any step.
LEMMA OrderStays ==
  ASSUME GoodInv, GoodInv', OrderInv, OrderGrows
  PROVE  /\ FencesReached'
         /\ \A t \in Tid, x \in Loc : OwnOk(loc'[x].buf, t, hist.own[t][x], thr'[t].epoch)
         /\ \A x \in Loc : FencedOk(loc'[x].buf, ctx'.sfence, hist.fenced[x])
         /\ \A t \in Tid, x \in Loc :
              /\ thr'[t].status = "invalid" => hist.floor[t][x] = 0
              /\ FloorOk(loc'[x].buf, thr'[t].slimit, thr'[t].swrite, hist.floor[t][x])
         /\ \A x \in Loc : \A w \in hist.sc[x] : ScOk(loc'[x].buf, ctx'.swrite, w)
<1>1. /\ ctx.sfence \in Clock /\ ctx.swrite \in Clock
      /\ \A x \in Loc : /\ loc[x].buf \in Buffers(Clock) /\ Sound(loc[x].buf)
                        /\ End(loc[x].buf) \in Nat /\ 0 \notin Held(loc[x].buf)
      /\ \A t \in Tid : /\ thr[t].epoch \in Nat
                        /\ thr[t].slimit \in Clock /\ thr[t].swrite \in Clock
                        /\ thr[t].sread \in Clock
  BY GoodTyped, OrderParts
<1>2. (/\ ctx.sfence \in Clock /\ ctx.swrite \in Clock
       /\ \A x \in Loc : /\ loc[x].buf \in Buffers(Clock) /\ Sound(loc[x].buf)
                         /\ End(loc[x].buf) \in Nat /\ 0 \notin Held(loc[x].buf)
       /\ \A t \in Tid : /\ thr[t].epoch \in Nat
                         /\ thr[t].slimit \in Clock /\ thr[t].swrite \in Clock
                         /\ thr[t].sread \in Clock)'
  <2>1. ClocksIn(Clock)'
    BY GoodTyped, PTL
  <2> QED
    BY <2>1, OrderParts, PTL
<1>3. ASSUME NEW x \in Loc, NEW w \in Nat
      PROVE  LET b == loc[x].buf
                 r == loc'[x].buf
             IN  /\ \A t \in Tid, e, e2 \in Nat :
                      e <= e2 /\ OwnOk(b, t, w, e) => OwnOk(r, t, w, e2)
                 /\ \A c, c2 \in Clock : Leq(c, c2) => /\ FencedOk(b, c, w) => FencedOk(r, c2, w)
                                                       /\ ScOk(b, c, w) => ScOk(r, c2, w)
                 /\ \A c, c2, d, d2 \in Clock :
                      Leq(c, c2) /\ Leq(d, d2) /\ FloorOk(b, c, d, w) => FloorOk(r, c2, d2, w)
  <2>1. PICK b, r : b = loc[x].buf /\ r = loc'[x].buf
    OBVIOUS
  <2>2. /\ b \in Buffers(Clock) /\ Sound(b) /\ End(r) \in Nat
        /\ SameTags(b, r) /\ End(b) <= End(r)
    BY <1>1, <1>2, <2>1 DEF OrderGrows, TagsStay, EndsGrow
  <2>3. /\ \A t \in Tid, e, e2 \in Nat : e <= e2 /\ OwnOk(b, t, w, e) => OwnOk(r, t, w, e2)
        /\ \A c, c2 \in Clock : Leq(c, c2) => /\ FencedOk(b, c, w) => FencedOk(r, c2, w)
                                              /\ ScOk(b, c, w) => ScOk(r, c2, w)
        /\ \A c, c2, d, d2 \in Clock :
             Leq(c, c2) /\ Leq(d, d2) /\ FloorOk(b, c, d, w) => FloorOk(r, c2, d2, w)
    BY <2>2, PositionStays
  <2> QED
    BY <2>1, <2>3
<1>4. FencesReached'
  BY DEF OrderGrows, FencesReached
<1>5. ASSUME NEW t \in Tid, NEW x \in Loc
      PROVE  OwnOk(loc'[x].buf, t, hist.own[t][x], thr'[t].epoch)
  <2>1. hist.own[t][x] \in Nat /\ OwnOk(loc[x].buf, t, hist.own[t][x], thr[t].epoch)
    BY DEF OrderInv, OrderTyped, OwnTagged
  <2>2. thr[t].epoch <= thr'[t].epoch
    BY DEF OrderGrows
  <2> QED
    BY <1>1, <1>2, <1>3, <2>1, <2>2
<1>6. ASSUME NEW x \in Loc PROVE FencedOk(loc'[x].buf, ctx'.sfence, hist.fenced[x])
  <2>1. hist.fenced[x] \in Nat /\ FencedOk(loc[x].buf, ctx.sfence, hist.fenced[x])
    BY DEF OrderInv, OrderTyped, FencedTagged
  <2>2. Leq(ctx.sfence, ctx'.sfence)
    BY DEF OrderGrows
  <2> QED
    BY <1>1, <1>2, <1>3, <2>1, <2>2
<1>7. ASSUME NEW t \in Tid, NEW x \in Loc
      PROVE  /\ thr'[t].status = "invalid" => hist.floor[t][x] = 0
             /\ FloorOk(loc'[x].buf, thr'[t].slimit, thr'[t].swrite, hist.floor[t][x])
  <2>1. /\ hist.floor[t][x] \in Nat
        /\ thr[t].status = "invalid" => hist.floor[t][x] = 0
        /\ FloorOk(loc[x].buf, thr[t].slimit, thr[t].swrite, hist.floor[t][x])
    BY DEF OrderInv, OrderTyped, FloorTagged
  <2>2. CASE thr[t].status = "invalid"
    <3>1. hist.floor[t][x] = 0
      BY <2>1, <2>2
    <3> QED
      BY <1>2, <3>1 DEF FloorOk
  <2>3. CASE thr[t].status # "invalid"
    <3>1. /\ thr'[t].status # "invalid"
          /\ Leq(thr[t].slimit, thr'[t].slimit) /\ Leq(thr[t].swrite, thr'[t].swrite)
      BY <2>3 DEF OrderGrows
    <3> QED
      BY <1>1, <1>2, <1>3, <2>1, <3>1
  <2> QED
    BY <2>2, <2>3
<1>8. ASSUME NEW x \in Loc, NEW w \in hist.sc[x] PROVE ScOk(loc'[x].buf, ctx'.swrite, w)
  <2>1. w \in Nat /\ ScOk(loc[x].buf, ctx.swrite, w)
    BY DEF OrderInv, OrderTyped, ScTagged
  <2>2. Leq(ctx.swrite, ctx'.swrite)
    BY DEF OrderGrows
  <2> QED
    BY <1>1, <1>2, <1>3, <2>1, <2>2
<1> QED
  BY <1>4, <1>5, <1>6, <1>7, <1>8

\* A step that leaves the order alone.
LEMMA SameOrderKept ==
  ASSUME GoodInv, GoodInv', OrderInv, OrderGrows, SameOrder(hist', hist)
  PROVE  OrderInv'
<1>1. /\ FencesReached'
      /\ \A t \in Tid, x \in Loc : OwnOk(loc'[x].buf, t, hist.own[t][x], thr'[t].epoch)
      /\ \A x \in Loc : FencedOk(loc'[x].buf, ctx'.sfence, hist.fenced[x])
      /\ \A t \in Tid, x \in Loc :
           /\ thr'[t].status = "invalid" => hist.floor[t][x] = 0
           /\ FloorOk(loc'[x].buf, thr'[t].slimit, thr'[t].swrite, hist.floor[t][x])
      /\ \A x \in Loc : \A w \in hist.sc[x] : ScOk(loc'[x].buf, ctx'.swrite, w)
  BY OrderStays
<1>2. /\ hist'.own = hist.own /\ hist'.fenced = hist.fenced /\ hist'.floor = hist.floor
      /\ hist'.sc = hist.sc /\ hist'.scPast = hist.scPast
  BY DEF SameOrder
<1>3. OrderTyped'
  BY <1>2 DEF OrderInv, OrderTyped
<1>4. OwnTagged' /\ FencedTagged' /\ FloorTagged' /\ ScTagged'
  BY <1>1, <1>2 DEF OwnTagged, FencedTagged, FloorTagged, ScTagged
<1> QED
  BY <1>1, <1>3, <1>4 DEF OrderInv

\* The SC clocks of u, and whether u runs, do not change.
SameSc(u) ==
  /\ thr[u].epoch <= thr'[u].epoch
  /\ thr[u].status # "invalid" =>
       /\ thr'[u].status # "invalid"
       /\ thr'[u].slimit = thr[u].slimit /\ thr'[u].swrite = thr[u].swrite

\* A step that neither stores nor fences.
LEMMA QuietOrder ==
  ASSUME GoodInv, GoodInv', OrderInv, TagsStay, EndsGrow, ctx' = ctx,
         SameOrder(hist', hist), \A u \in Tid : SameSc(u)
  PROVE  OrderInv'
<1>1. /\ ctx.sfence \in Clock /\ ctx.swrite \in Clock
      /\ \A x \in Loc : /\ loc[x].buf \in Buffers(Clock) /\ Sound(loc[x].buf)
                        /\ End(loc[x].buf) \in Nat /\ 0 \notin Held(loc[x].buf)
      /\ \A t \in Tid : /\ thr[t].epoch \in Nat
                        /\ thr[t].slimit \in Clock /\ thr[t].swrite \in Clock
                        /\ thr[t].sread \in Clock
  BY GoodTyped, OrderParts
<1>2. ASSUME NEW c \in Clock PROVE Leq(c, c)
  BY DEF Leq, Clock
<1>3. ASSUME NEW u \in Tid PROVE thr'[u].epoch \in Nat
  <2>1. ClocksIn(Clock)'
    BY GoodTyped, PTL
  <2> QED
    BY <2>1 DEF ClocksIn, ThreadsIn, ThreadStates
<1>4. ASSUME NEW u \in Tid
      PROVE  /\ thr[u].epoch <= thr'[u].epoch
             /\ ctx'.sfence[u] <= thr'[u].epoch /\ ctx'.swrite[u] <= thr'[u].epoch
             /\ thr[u].status # "invalid" =>
                  /\ thr'[u].status # "invalid"
                  /\ Leq(thr[u].slimit, thr'[u].slimit) /\ Leq(thr[u].swrite, thr'[u].swrite)
  <2>1. ctx.sfence[u] <= thr[u].epoch /\ ctx.swrite[u] <= thr[u].epoch
        /\ ctx.sfence[u] \in Nat /\ ctx.swrite[u] \in Nat
    BY <1>1 DEF OrderInv, FencesReached, Clock
  <2>2. SameSc(u) /\ thr[u].epoch \in Nat /\ thr[u].slimit \in Clock /\ thr[u].swrite \in Clock
    BY <1>1
  <2>3. ctx.sfence[u] <= thr'[u].epoch /\ ctx.swrite[u] <= thr'[u].epoch
    BY <1>3, <2>1, <2>2 DEF SameSc
  <2> QED
    BY <1>2, <2>2, <2>3 DEF SameSc
<1>5. OrderGrows
  BY <1>1, <1>2, <1>4 DEF OrderGrows
<1> QED
  BY <1>5, SameOrderKept

\* The threads of a step that changes one of them.
LEMMA SameScAt ==
  ASSUME ClocksIn(Clock), NEW t \in Tid, NEW st, st # "invalid", NEW e, thr[t].epoch <= e,
         NEW lr, NEW sr, NewThread(t, st, e, lr, thr[t].slimit, thr[t].swrite, sr)
  PROVE  \A u \in Tid : SameSc(u)
<1> SUFFICES ASSUME NEW u \in Tid PROVE SameSc(u)
  OBVIOUS
<1>1. CASE u = t
  BY <1>1 DEF SameSc, NewThread, ThreadIs
<1>2. CASE u # t
  <2>1. thr'[u] = thr[u] /\ thr[u].epoch \in Nat
    BY <1>2, OrderParts DEF NewThread
  <2> QED
    BY <2>1 DEF SameSc
<1> QED
  BY <1>1, <1>2

\* Loads, failed CASes, the mutex and the life of threads leave the order alone.
LEMMA QuietKeeps ==
  ASSUME KeepsHistory, GoodInv, CoverInv, OrderInv, NEW t \in Running, StepGood(t),
         TagsStay, EndsGrow,
         \/ \E x \in Loc : \/ \E mo, p : LoadAt(t, x, mo, p)
                           \/ \E fmo : CasFail(t, x, fmo)
         \/ Lock(t) \/ Unlock(t) \/ Finish(t)
         \/ \E u \in Tid : Create(t, u) \/ ThreadJoin(t, u)
  PROVE  OrderInv' /\ SameOrder(hist', hist)
<1>1. /\ ClocksIn(Clock) /\ HistInv(hist, thr, loc)
      /\ t \in Tid /\ thr[t].status # "invalid" /\ thr[t].epoch \in Nat
      /\ thr[t].clock \in Clock /\ thr[t].epoch + 1 \in Nat
  BY GoodThread
<1>2. GoodInv' /\ thr[t].epoch <= thr[t].epoch /\ thr[t].epoch <= thr[t].epoch + 1
  BY <1>1 DEF StepGood
<1>3. PICK v : v = Learn(hist.view[t], thr'[t].clock)
  OBVIOUS
<1>4. PICK e0, e1 : e0 = thr[t].epoch /\ e1 = thr[t].epoch + 1
  OBVIOUS
<1>5. ctx' = ctx
  BY DEF LoadAt, CasFail, Lock, Unlock, Finish, Create, ThreadJoin
<1>6. SameOrder(hist', hist) /\ \A u \in Tid : SameSc(u)
  <2>1. ASSUME NEW x \in Loc, NEW mo, NEW p, LoadAt(t, x, mo, p)
        PROVE  SameOrder(hist', hist) /\ \A u \in Tid : SameSc(u)
    <3>1. /\ ClocksIn(Clock)' /\ EndsGrow /\ v \in Views /\ Within(loc', v)
          /\ Learns(t, WithRead(v, x, p)) /\ SameOrder(hist', hist)
          /\ \A z \in Loc : End(loc'[z].buf) = End(loc[z].buf)
      BY <1>1, <1>3, <2>1, LoadHistory
    <3>2. /\ NewThread(t, "running", thr[t].epoch, thr[t].lastRelease, thr[t].slimit,
                       thr[t].swrite, ScReads(thr[t], mo).sread)
          /\ Acquires(Clock, t, thr[t].epoch)
          /\ NewLocation(x, loc[x].sync, FetchStore(loc[x].buf, ScReads(thr[t], mo), p))
          /\ p \in Held(loc[x].buf)
          /\ thr'[t].clock \in Clock => ClocksIn(Clock)'
      BY <1>1, <2>1, LoadStep, ClockLattice
    <3> QED
      BY <1>1, <1>2, <3>1, <3>2, SameScAt
  <2>2. ASSUME NEW x \in Loc, NEW fmo, CasFail(t, x, fmo)
        PROVE  SameOrder(hist', hist) /\ \A u \in Tid : SameSc(u)
    <3>1. /\ PublishedBy(t, WithRead(v, x, End(loc[x].buf)))
          /\ v \in Views /\ Within(loc', v)
          /\ \A z \in Loc : End(loc'[z].buf) = End(loc[z].buf)
      BY <1>1, <1>3, <2>2, CasFailEffect
    <3>2. PICK th : th = ScReads(Ticked(thr[t]), fmo)
      OBVIOUS
    <3>3. /\ NewThread(t, "running", thr[t].epoch + 1, thr[t].lastRelease,
                       thr[t].slimit, thr[t].swrite, ScReads(thr[t], fmo).sread)
          /\ IF IsAcquireOrder(fmo) THEN Acquires(Clock, t, thr[t].epoch + 1)
                                    ELSE thr'[t].clock = thr[t].clock
          /\ NewLocation(x, loc[x].sync, AdvanceToEnd(loc[x].buf, th))
          /\ thr'[t].clock \in Clock => ClocksIn(Clock)'
      BY <1>1, <2>2, <3>2, CasFailStep, ClockLattice
    <3>4. \A u \in Tid : SameSc(u)
      BY <1>1, <1>2, <3>3, SameScAt
    <3> QED
      BY <3>1, <3>4 DEF PublishedBy
  <2>3. CASE Lock(t)
    <3>1. PublishedBy(t, v) /\ v \in Views /\ Within(loc', v) /\ loc' = loc
      BY <1>1, <1>3, <2>3, LockEffect
    <3>2. /\ NewThread(t, "running", thr[t].epoch + 1, thr[t].lastRelease,
                       thr[t].slimit, thr[t].swrite, thr[t].sread)
          /\ Acquires(Clock, t, thr[t].epoch + 1)
          /\ thr'[t].clock \in Clock => ClocksIn(Clock)'
      BY <1>1, <2>3, LockStep, ClockLattice
    <3>3. \A u \in Tid : SameSc(u)
      BY <1>1, <1>2, <3>2, SameScAt
    <3> QED
      BY <3>1, <3>3 DEF PublishedBy
  <2>4. CASE Unlock(t) \/ Finish(t)
    <3>1. /\ PublishedBy(t, hist.view[t]) /\ loc' = loc
          /\ thr'[t].clock = Raised(thr[t].clock, t, thr'[t].epoch)
      BY <1>1, <2>4, StampEffect
    <3>2. CASE Unlock(t)
      <4>1. /\ NewThread(t, "running", thr[t].epoch + 1, thr[t].lastRelease,
                         thr[t].slimit, thr[t].swrite, thr[t].sread)
            /\ thr'[t].clock = Raised(thr[t].clock, t, thr[t].epoch + 1)
            /\ thr'[t].clock \in Clock => ClocksIn(Clock)'
        BY <1>1, <3>2, UnlockStep, ClockLattice
      <4>2. \A u \in Tid : SameSc(u)
        BY <1>1, <1>2, <4>1, SameScAt
      <4> QED
        BY <3>1, <4>2 DEF PublishedBy
    <3>3. CASE Finish(t)
      <4>1. /\ NewThread(t, "finished", thr[t].epoch + 1, thr[t].lastRelease,
                         thr[t].slimit, thr[t].swrite, thr[t].sread)
            /\ thr'[t].clock = Raised(thr[t].clock, t, thr[t].epoch + 1)
            /\ thr'[t].clock \in Clock => ClocksIn(Clock)'
        BY <1>1, <3>3, FinishStep, ClockLattice
      <4>2. \A u \in Tid : SameSc(u)
        BY <1>1, <1>2, <4>1, SameScAt
      <4> QED
        BY <3>1, <4>2 DEF PublishedBy
    <3> QED
      BY <2>4, <3>2, <3>3
  <2>5. ASSUME NEW u \in Tid, Create(t, u)
        PROVE  SameOrder(hist', hist) /\ \A w \in Tid : SameSc(w)
    <3>1. ClocksIn(Clock)' /\ loc' = loc /\ CreatedBy(t, u)
      BY <1>1, <2>5, CreateEffect
    <3>2. /\ ThreadIs(t, "running", thr[t].epoch + 1, thr[t].lastRelease,
                      thr[t].slimit, thr[t].swrite, thr[t].sread)
          /\ u # t /\ thr[u].status = "invalid"
          /\ ThreadIs(u, "running", 1, 0, Zero, Zero, Zero)
          /\ thr'[t].clock = Raised(thr[t].clock, t, thr[t].epoch + 1)
          /\ thr'[u].clock = Join(Raised(Raised(Zero, u, 1), u, 1), thr'[t].clock)
          /\ \A w \in Tid \ {t, u} : thr'[w] = thr[w]
          /\ thr'[t].clock \in Clock /\ thr'[u].clock \in Clock => ClocksIn(Clock)'
      BY <1>1, <2>5, CreateStep, ClockLattice
    <3>3. thr[u].epoch = 1
      BY <1>1, <3>2 DEF HistInv, Published
    <3>4. ASSUME NEW w \in Tid PROVE SameSc(w)
      <4>1. thr[w].epoch \in Nat
        BY <1>1, OrderParts
      <4>2. CASE w = t
        BY <1>1, <3>2, <4>2 DEF SameSc, ThreadIs
      <4>3. CASE w = u
        BY <3>2, <3>3, <4>3 DEF SameSc, ThreadIs
      <4>4. CASE w # t /\ w # u
        BY <3>2, <4>1, <4>4 DEF SameSc
      <4> QED
        BY <4>2, <4>3, <4>4
    <3> QED
      BY <3>1, <3>4 DEF CreatedBy
  <2>6. ASSUME NEW u \in Tid, ThreadJoin(t, u)
        PROVE  SameOrder(hist', hist) /\ \A w \in Tid : SameSc(w)
    <3>1. /\ ClocksIn(Clock)' /\ loc' = loc /\ v \in Views /\ Within(loc', v)
          /\ Learns(t, v) /\ SameOrder(hist', hist)
      BY <1>1, <1>3, <2>6, JoinEffect
    <3>2. /\ ThreadIs(t, "running", thr[t].epoch, thr[t].lastRelease,
                      thr[t].slimit, thr[t].swrite, thr[t].sread)
          /\ u # t /\ thr[u].status = "finished"
          /\ ThreadIs(u, "dead", thr[u].epoch, thr[u].lastRelease,
                      thr[u].slimit, thr[u].swrite, thr[u].sread)
          /\ thr'[u].clock = thr[u].clock
          /\ \A w \in Tid \ {t, u} : thr'[w] = thr[w]
          /\ Acquires(Clock, t, thr[t].epoch)
          /\ thr'[t].clock \in Clock => ClocksIn(Clock)'
      BY <1>1, <2>6, JoinStep, ClockLattice
    <3>3. ASSUME NEW w \in Tid PROVE SameSc(w)
      <4>1. thr[w].epoch \in Nat
        BY <1>1, OrderParts
      <4>2. CASE w = t
        BY <3>2, <4>1, <4>2 DEF SameSc, ThreadIs
      <4>3. CASE w = u
        BY <3>2, <4>1, <4>3 DEF SameSc, ThreadIs
      <4>4. CASE w # t /\ w # u
        BY <3>2, <4>1, <4>4 DEF SameSc
      <4> QED
        BY <4>2, <4>3, <4>4
    <3> QED
      BY <3>1, <3>3
  <2> QED
    BY <2>1, <2>2, <2>3, <2>4, <2>5, <2>6
<1>7. OrderInv'
  BY <1>2, <1>5, <1>6, QuietOrder
<1> QED
  BY <1>6, <1>7

\* A store of t is its latest to x, and one of the SC order if it is SC.
LEMMA StoredOrder ==
  ASSUME GoodInv, GoodInv', CoverInv, OrderInv, NEW t \in Running, NEW x \in Loc, NEW mo,
         NEW th, NEW v, StoredBy(t, x, mo, th, v),
         thr'[t].slimit = thr[t].slimit, thr'[t].swrite = thr[t].swrite,
         ctx'.sfence = ctx.sfence,
         ctx'.swrite = IF mo = "seq_cst" THEN Raised(ctx.swrite, t, thr[t].epoch + 1)
                                         ELSE ctx.swrite
  PROVE  OrderInv'
<1>1. t \in Tid /\ ClocksIn(Clock) /\ thr[t].epoch \in Nat /\ thr[t].epoch + 1 \in Nat
  BY GoodThread
<1>2. /\ ctx.sfence \in Clock /\ ctx.swrite \in Clock
      /\ \A z \in Loc : /\ loc[z].buf \in Buffers(Clock) /\ Sound(loc[z].buf)
                        /\ End(loc[z].buf) \in Nat /\ 0 \notin Held(loc[z].buf)
      /\ \A u \in Tid : /\ thr[u].epoch \in Nat
                        /\ thr[u].slimit \in Clock /\ thr[u].swrite \in Clock
                        /\ thr[u].sread \in Clock
  BY <1>1, OrderParts
<1>3. PICK n, e : n = End(loc'[x].buf) /\ e = thr'[t].epoch
  OBVIOUS
<1>4. /\ TagsStay /\ \A z \in Loc : OwnBelow(loc'[z].buf)
      /\ End(loc'[x].buf) = End(loc[x].buf) + 1 /\ End(loc'[x].buf) \in Held(loc'[x].buf)
      /\ Tag(loc'[x].buf, End(loc'[x].buf))
           = [tid |-> t, epoch |-> thr'[t].epoch, sc |-> (mo = "seq_cst")]
      /\ \A w \in Held(loc'[x].buf) : w <= End(loc[x].buf) =>
           (Tag(loc'[x].buf, w).sc <=>
              Tag(loc[x].buf, w).sc \/ Marks(th, Tag(loc[x].buf, w), mo = "seq_cst"))
  BY <1>1, TagsOfStore
<1>5. PICK g : g = Tag(loc'[x].buf, n)
  OBVIOUS
<1>6. /\ n \in Nat /\ g.tid = t /\ g.epoch = e /\ (mo = "seq_cst" => g.sc)
      /\ n <= n /\ e <= e
  <2>1. End(loc[x].buf) \in Nat
    BY <1>2
  <2>2. g = [tid |-> t, epoch |-> e, sc |-> (mo = "seq_cst")]
    BY <1>3, <1>4, <1>5
  <2>3. e = thr[t].epoch + 1
    BY <1>3 DEF StoredBy, Ticks
  <2>4. n \in Nat /\ e \in Nat
    BY <1>1, <1>3, <1>4, <2>1, <2>3
  <2>5. g.tid = t /\ g.epoch = e /\ (mo = "seq_cst" => g.sc)
    BY <2>2
  <2> QED
    BY <2>4, <2>5
<1>7. /\ e = thr[t].epoch + 1 /\ thr'[t].status # "invalid"
      /\ \A u \in Tid \ {t} : thr'[u] = thr[u]
      /\ EndsGrow /\ v \in Views /\ OrderStored(t, x, n, mo, v)
  BY <1>3 DEF StoredBy, Ticks
<1>8. ASSUME NEW c \in Clock PROVE Leq(c, c)
  BY DEF Leq, Clock
<1>9. /\ Leq(ctx.sfence, ctx'.sfence) /\ Leq(ctx.swrite, ctx'.swrite)
      /\ \A u \in Tid : ctx'.sfence[u] = ctx.sfence[u]
      /\ ctx'.swrite[t] <= e /\ (mo = "seq_cst" => ctx'.swrite[t] = e)
      /\ \A u \in Tid \ {t} : ctx'.swrite[u] = ctx.swrite[u]
  <2>1. ctx.swrite[t] <= thr[t].epoch /\ ctx.swrite[t] \in Nat
    BY <1>1, <1>2 DEF OrderInv, FencesReached, Clock
  <2>2. ctx.swrite[t] <= thr[t].epoch + 1
    BY <1>1, <2>1
  <2>3. CASE mo = "seq_cst"
    <3>1. PICK c : c = ctx.swrite
      OBVIOUS
    <3>2. PICK k : k = thr[t].epoch + 1
      OBVIOUS
    <3>3. c \in Clock /\ k \in Nat /\ c[t] <= k
      BY <1>1, <1>2, <2>2, <3>1, <3>2
    <3>4. /\ Raised(c, t, k) \in Clock /\ Raised(c, t, k)[t] = k
          /\ \A u \in Tid \ {t} : Raised(c, t, k)[u] = c[u]
          /\ Leq(c, Raised(c, t, k))
      BY <1>1, <3>3, RaisedFacts
    <3> QED
      BY <1>2, <1>6, <1>7, <1>8, <2>3, <3>1, <3>2, <3>4
  <2>4. CASE mo # "seq_cst"
    BY <1>2, <1>7, <1>8, <2>2, <2>4
  <2> QED
    BY <2>3, <2>4
<1>10. OrderGrows
  <2>1. ASSUME NEW u \in Tid
        PROVE  /\ thr[u].epoch <= thr'[u].epoch
               /\ ctx'.sfence[u] <= thr'[u].epoch /\ ctx'.swrite[u] <= thr'[u].epoch
               /\ thr[u].status # "invalid" =>
                    /\ thr'[u].status # "invalid"
                    /\ Leq(thr[u].slimit, thr'[u].slimit) /\ Leq(thr[u].swrite, thr'[u].swrite)
    <3>1. /\ ctx.sfence[u] <= thr[u].epoch /\ ctx.swrite[u] <= thr[u].epoch
          /\ ctx.sfence[u] \in Nat /\ ctx.swrite[u] \in Nat /\ thr[u].epoch \in Nat
      BY <1>2 DEF OrderInv, FencesReached, Clock
    <3>2. CASE u = t
      <4>1. Leq(thr[t].slimit, thr'[t].slimit) /\ Leq(thr[t].swrite, thr'[t].swrite)
        BY <1>1, <1>2, <1>8
      <4>2. ctx'.sfence[t] = ctx.sfence[t] /\ ctx'.swrite[t] <= thr'[t].epoch
        BY <1>1, <1>3, <1>9
      <4>3. thr[t].epoch <= thr'[t].epoch /\ ctx.sfence[t] <= thr'[t].epoch
        BY <1>3, <1>7, <3>1, <3>2
      <4> QED
        BY <1>7, <3>2, <4>1, <4>2, <4>3
    <3>3. CASE u # t
      BY <1>2, <1>7, <1>8, <1>9, <3>1, <3>3
    <3> QED
      BY <3>2, <3>3
  <2> QED
    BY <1>4, <1>7, <1>9, <2>1 DEF OrderGrows
<1>11. /\ FencesReached'
       /\ \A u \in Tid, z \in Loc : OwnOk(loc'[z].buf, u, hist.own[u][z], thr'[u].epoch)
       /\ \A z \in Loc : FencedOk(loc'[z].buf, ctx'.sfence, hist.fenced[z])
       /\ \A u \in Tid, z \in Loc :
            /\ thr'[u].status = "invalid" => hist.floor[u][z] = 0
            /\ FloorOk(loc'[z].buf, thr'[u].slimit, thr'[u].swrite, hist.floor[u][z])
       /\ \A z \in Loc : \A w \in hist.sc[z] : ScOk(loc'[z].buf, ctx'.swrite, w)
  BY <1>10, OrderStays
<1>12. /\ hist'.own = [hist.own EXCEPT ![t][x] = n]
       /\ hist'.fenced = hist.fenced /\ hist'.floor = hist.floor
       /\ hist'.sc = IF mo = "seq_cst" THEN [hist.sc EXCEPT ![x] = @ \cup {n}] ELSE hist.sc
       /\ hist'.scPast = IF mo = "seq_cst" THEN [hist.scPast EXCEPT ![x] = v[x].wrote]
                                           ELSE hist.scPast
  BY <1>7 DEF OrderStored
<1>13. OrderTyped
  BY DEF OrderInv
<1>14. OrderTyped'
  <2>1. v[x].wrote \in SUBSET Nat
    BY <1>7 DEF Views
  <2>2. hist'.own \in [Tid -> [Loc -> Nat]]
    <3>1. hist.own \in [Tid -> [Loc -> Nat]]
      BY <1>13 DEF OrderTyped
    <3>2. [hist.own[t] EXCEPT ![x] = n] \in [Loc -> Nat]
      BY <1>1, <1>6, <3>1
    <3>3. hist'.own = [hist.own EXCEPT ![t] = [hist.own[t] EXCEPT ![x] = n]]
      BY <1>12
    <3> QED
      BY <3>1, <3>2, <3>3
  <2>3. hist'.sc \in [Loc -> SUBSET Nat]
    <3>1. hist.sc \in [Loc -> SUBSET Nat]
      BY <1>13 DEF OrderTyped
    <3>2. hist.sc[x] \cup {n} \in SUBSET Nat
      BY <1>6, <3>1
    <3>3. CASE mo = "seq_cst"
      BY <1>12, <3>1, <3>2, <3>3
    <3>4. CASE mo # "seq_cst"
      BY <1>12, <3>1, <3>4
    <3> QED
      BY <3>3, <3>4
  <2>4. hist'.scPast \in [Loc -> SUBSET Nat]
    BY <1>12, <1>13, <2>1 DEF OrderTyped
  <2> QED
    BY <1>12, <1>13, <2>2, <2>3, <2>4 DEF OrderTyped
<1>15. ASSUME NEW u \in Tid, NEW z \in Loc
       PROVE  OwnOk(loc'[z].buf, u, hist'.own[u][z], thr'[u].epoch)
  <2>1. CASE u = t /\ z = x
    <3>1. hist'.own[u][z] = n
      BY <1>12, <1>13, <2>1 DEF OrderTyped
    <3>2. n <= End(loc'[x].buf)
      BY <1>3, <1>6
    <3> QED
      BY <1>3, <1>5, <1>6, <2>1, <3>1, <3>2 DEF OwnOk
  <2>2. CASE ~(u = t /\ z = x)
    <3>1. hist'.own[u][z] = hist.own[u][z]
      BY <1>12, <1>13, <2>2 DEF OrderTyped
    <3> QED
      BY <1>11, <3>1
  <2> QED
    BY <2>1, <2>2
<1>16. ASSUME NEW z \in Loc, NEW w \in hist'.sc[z] PROVE ScOk(loc'[z].buf, ctx'.swrite, w)
  <2>1. CASE w \in hist.sc[z]
    BY <1>11, <2>1
  <2>2. CASE w \notin hist.sc[z]
    <3>1. mo = "seq_cst" /\ z = x /\ w = n
      BY <1>12, <1>13, <2>2 DEF OrderTyped
    <3>2. n <= End(loc'[x].buf)
      BY <1>3, <1>6
    <3>3. g.sc /\ ctx'.swrite[g.tid] >= g.epoch
      <4>1. g.sc /\ ctx'.swrite[g.tid] = e /\ g.epoch = e
        BY <1>6, <1>9, <3>1
      <4>2. e \in Nat
        BY <1>1, <1>7
      <4> QED
        BY <4>1, <4>2
    <3> QED
      BY <1>5, <3>1, <3>2, <3>3 DEF ScOk
  <2> QED
    BY <2>1, <2>2
<1>17. OwnTagged' /\ FencedTagged' /\ FloorTagged' /\ ScTagged'
  BY <1>11, <1>12, <1>15, <1>16 DEF OwnTagged, FencedTagged, FloorTagged, ScTagged
<1> QED
  BY <1>11, <1>14, <1>17 DEF OrderInv

\* AtomicStore, AtomicRMW and AtomicCAS keep the order.
LEMMA StoresKeepOrder ==
  ASSUME KeepsHistory, GoodInv, CoverInv, OrderInv, NEW t \in Running, NEW x \in Loc, NEW mo,
         \/ Store(t, x, mo)
         \/ \E keep \in BOOLEAN : Rmw(t, x, mo, keep)
         \/ mo = "relaxed" /\ CasRelaxed(t, x)
  PROVE  OrderInv'
<1>1. /\ ClocksIn(Clock) /\ HistInv(hist, thr, loc)
      /\ t \in Tid /\ thr[t].status # "invalid" /\ thr[t].epoch \in Nat
      /\ thr[t].clock \in Clock /\ thr[t].epoch + 1 \in Nat
  BY GoodThread
<1>2. /\ CoverInv' /\ TagsStay /\ EndsGrow /\ StepGood(t)
      /\ \E th : /\ StoredBy(t, x, mo, th, Learn(hist.view[t], thr'[t].clock))
                 /\ th.clock = thr[t].clock
                      \/ th.clock = Raised(thr[t].clock, t, thr'[t].epoch)
  BY StoreCovers
<1>3. PICK th, v : StoredBy(t, x, mo, th, v)
  BY <1>2
<1>4. /\ thr'[t].slimit = thr[t].slimit /\ thr'[t].swrite = thr[t].swrite
      /\ ctx'.sfence = ctx.sfence
      /\ ctx'.swrite = IF mo = "seq_cst" THEN Raised(ctx.swrite, t, thr[t].epoch + 1)
                                         ELSE ctx.swrite
  <2>1. CASE Store(t, x, mo)
    <3>1. PICK d : d = Stamped(Ticked(thr[t]))
      OBVIOUS
    <3>2. /\ NewThread(t, "running", thr[t].epoch + 1,
                       IF IsReleaseOrder(mo) THEN thr[t].epoch + 1 ELSE thr[t].lastRelease,
                       thr[t].slimit, thr[t].swrite, thr[t].sread)
          /\ Acquires(Clock, t, thr[t].epoch + 1)
          /\ thr'[t].clock = d.clock
          /\ \E sync : NewLocation(x, sync, Buffered(x, d, mo))
          /\ ctx'.sfence = ctx.sfence
          /\ ctx'.swrite = IF mo = "seq_cst" THEN Raised(ctx.swrite, t, thr[t].epoch + 1)
                                             ELSE ctx.swrite
          /\ thr'[t].clock \in Clock => ClocksIn(Clock)'
      BY <1>1, <2>1, <3>1, StoreStep, ClockLattice
    <3> QED
      BY <3>2 DEF NewThread, ThreadIs
  <2>2. ASSUME NEW keep \in BOOLEAN, Rmw(t, x, mo, keep)
        PROVE  /\ thr'[t].slimit = thr[t].slimit /\ thr'[t].swrite = thr[t].swrite
               /\ ctx'.sfence = ctx.sfence
               /\ ctx'.swrite = IF mo = "seq_cst" THEN Raised(ctx.swrite, t, thr[t].epoch + 1)
                                                  ELSE ctx.swrite
    <3>1. PICK d : d = ScReads(Stamped(Ticked(thr[t])), mo)
      OBVIOUS
    <3>2. /\ NewThread(t, "running", thr[t].epoch + 1,
                       IF IsReleaseOrder(mo) THEN thr[t].epoch + 1 ELSE thr[t].lastRelease,
                       thr[t].slimit, thr[t].swrite, ScReads(thr[t], mo).sread)
          /\ Acquires(Clock, t, thr[t].epoch + 1)
          /\ \E sync : NewLocation(x, sync, Buffered(x, d, mo))
          /\ ctx'.sfence = ctx.sfence
          /\ ctx'.swrite = IF mo = "seq_cst" THEN Raised(ctx.swrite, t, thr[t].epoch + 1)
                                             ELSE ctx.swrite
          /\ thr'[t].clock \in Clock => ClocksIn(Clock)'
      BY <1>1, <2>2, <3>1, RmwStep, ClockLattice
    <3> QED
      BY <3>2 DEF NewThread, ThreadIs
  <2>3. CASE mo = "relaxed" /\ CasRelaxed(t, x)
    <3>1. PICK d : d = Ticked(thr[t])
      OBVIOUS
    <3>2. /\ NewThread(t, "running", thr[t].epoch + 1, thr[t].lastRelease,
                       thr[t].slimit, thr[t].swrite, thr[t].sread)
          /\ thr'[t].clock = thr[t].clock
          /\ NewLocation(x, loc[x].sync, Buffered(x, d, "relaxed"))
          /\ ClocksIn(Clock)'
      BY <1>1, <2>3, <3>1, CasRelaxedStep, ClockLattice
    <3>3. ctx' = ctx
      BY <2>3 DEF CasRelaxed
    <3> QED
      BY <2>3, <3>2, <3>3 DEF NewThread, ThreadIs
  <2> QED
    BY <2>1, <2>2, <2>3
<1>5. GoodInv'
  BY <1>2 DEF StepGood
<1> QED
  BY <1>3, <1>4, <1>5, StoredOrder

\* AtomicFence: what t stored, and what precedes an SC fence, is ordered before SC reads,
\* and with the SC stores before the reads of t.
LEMMA FenceKeepsOrder ==
  ASSUME KeepsHistory, GoodInv, CoverInv, OrderInv, NEW t \in Running, NEW mo, Fence(t, mo)
  PROVE  OrderInv'
<1>1. /\ ClocksIn(Clock) /\ HistInv(hist, thr, loc)
      /\ t \in Tid /\ thr[t].status # "invalid" /\ thr[t].epoch \in Nat
      /\ thr[t].clock \in Clock /\ thr[t].epoch + 1 \in Nat
  BY GoodThread
<1>2. /\ ctx.sfence \in Clock /\ ctx.swrite \in Clock
      /\ \A z \in Loc : /\ loc[z].buf \in Buffers(Clock) /\ Sound(loc[z].buf)
                        /\ End(loc[z].buf) \in Nat /\ 0 \notin Held(loc[z].buf)
      /\ \A u \in Tid : /\ thr[u].epoch \in Nat
                        /\ thr[u].slimit \in Clock /\ thr[u].swrite \in Clock
                        /\ thr[u].sread \in Clock
  BY <1>1, OrderParts
<1>3. CoverInv' /\ TagsStay /\ EndsGrow /\ GoodInv'
  BY FenceCovers, FenceGood DEF StepGood
<1>4. PICK v, e : v = Learn(hist.view[t], thr'[t].clock) /\ e = thr[t].epoch + 1
  OBVIOUS
<1>5. /\ ClocksIn(Clock)' /\ loc' = loc /\ v \in Views /\ Within(loc', v)
      /\ OrderFenced(t, mo)
      /\ Ticks(t, hist.view[t], Raised(thr[t].clock, t, e), v)
      /\ thr'[t].epoch = e
      /\ Leq(Raised(thr[t].clock, t, e), thr'[t].clock)
  BY <1>1, <1>4, FenceEffect
<1>6. PICK f : f = IF mo = "seq_cst" THEN Raised(ctx.sfence, t, e) ELSE ctx.sfence
  OBVIOUS
<1>7. /\ NewThread(t, "running", e,
                   IF IsReleaseOrder(mo) THEN e ELSE thr[t].lastRelease,
                   IF mo = "seq_cst" THEN Join(thr[t].slimit, f) ELSE thr[t].slimit,
                   IF mo = "seq_cst" THEN Join(thr[t].swrite, ctx.swrite) ELSE thr[t].swrite,
                   thr[t].sread)
      /\ Acquires(Clock, t, e)
      /\ loc' = loc
      /\ ctx'.sfence = f /\ ctx'.swrite = ctx.swrite
      /\ Raised(thr[t].clock, t, e) \in Clock /\ thr'[t].clock \in Clock => ClocksIn(Clock)'
  BY <1>1, <1>4, <1>6, FenceStep, ClockLattice
<1>8. /\ thr'[t].status # "invalid" /\ \A u \in Tid \ {t} : thr'[u] = thr[u]
      /\ thr'[t].slimit = IF mo = "seq_cst" THEN Join(thr[t].slimit, f) ELSE thr[t].slimit
      /\ thr'[t].swrite = IF mo = "seq_cst" THEN Join(thr[t].swrite, ctx.swrite)
                                            ELSE thr[t].swrite
  BY <1>7 DEF NewThread, ThreadIs
<1>9. /\ ctx.sfence[t] <= thr[t].epoch /\ ctx.sfence[t] \in Nat /\ ctx.sfence[t] <= e
      /\ e \in Nat /\ thr[t].epoch <= e
  <2>1. ctx.sfence[t] <= thr[t].epoch /\ ctx.sfence[t] \in Nat
    BY <1>1, <1>2 DEF OrderInv, FencesReached, Clock
  <2> QED
    BY <1>1, <1>4, <2>1
<1>10. ASSUME NEW c \in Clock PROVE Leq(c, c)
  BY DEF Leq, Clock
<1>11. /\ f \in Clock /\ Leq(ctx.sfence, f) /\ f[t] <= e
       /\ mo = "seq_cst" => f[t] = e
       /\ \A u \in Tid \ {t} : f[u] = ctx.sfence[u]
  <2>1. CASE mo = "seq_cst"
    <3>1. PICK c : c = ctx.sfence
      OBVIOUS
    <3>2. /\ Raised(c, t, e) \in Clock /\ Raised(c, t, e)[t] = e
          /\ \A u \in Tid \ {t} : Raised(c, t, e)[u] = c[u]
          /\ Leq(c, Raised(c, t, e))
      BY <1>1, <1>2, <1>9, <3>1, RaisedFacts
    <3> QED
      BY <1>6, <1>9, <2>1, <3>1, <3>2
  <2>2. CASE mo # "seq_cst"
    BY <1>2, <1>6, <1>9, <1>10, <2>2
  <2> QED
    BY <2>1, <2>2
<1>12. /\ Leq(thr[t].slimit, thr'[t].slimit) /\ Leq(thr[t].swrite, thr'[t].swrite)
       /\ thr'[t].slimit \in Clock /\ thr'[t].swrite \in Clock
       /\ mo = "seq_cst" => Leq(f, thr'[t].slimit) /\ Leq(ctx.swrite, thr'[t].swrite)
  <2>1. CASE mo = "seq_cst"
    BY <1>1, <1>2, <1>8, <1>11, <2>1, ClockFacts
  <2>2. CASE mo # "seq_cst"
    BY <1>1, <1>2, <1>8, <1>10, <2>2
  <2> QED
    BY <2>1, <2>2
<1>13. OrderGrows
  <2>1. ASSUME NEW u \in Tid
        PROVE  /\ thr[u].epoch <= thr'[u].epoch
               /\ ctx'.sfence[u] <= thr'[u].epoch /\ ctx'.swrite[u] <= thr'[u].epoch
               /\ thr[u].status # "invalid" =>
                    /\ thr'[u].status # "invalid"
                    /\ Leq(thr[u].slimit, thr'[u].slimit) /\ Leq(thr[u].swrite, thr'[u].swrite)
    <3>1. /\ ctx.sfence[u] <= thr[u].epoch /\ ctx.swrite[u] <= thr[u].epoch
          /\ ctx.sfence[u] \in Nat /\ ctx.swrite[u] \in Nat /\ thr[u].epoch \in Nat
      BY <1>2 DEF OrderInv, FencesReached, Clock
    <3>2. CASE u = t
      <4>1. ctx'.sfence[t] <= thr'[t].epoch
        BY <1>5, <1>7, <1>11
      <4>2. ctx'.swrite[t] <= thr'[t].epoch
        BY <1>5, <1>7, <1>9, <3>1, <3>2
      <4> QED
        BY <1>5, <1>8, <1>9, <1>12, <3>2, <4>1, <4>2
    <3>3. CASE u # t
      BY <1>2, <1>7, <1>8, <1>10, <1>11, <3>1, <3>3
    <3> QED
      BY <3>2, <3>3
  <2>2. Leq(ctx.sfence, ctx'.sfence) /\ Leq(ctx.swrite, ctx'.swrite)
    BY <1>2, <1>7, <1>10, <1>11
  <2> QED
    BY <1>3, <2>1, <2>2 DEF OrderGrows
<1>14. /\ FencesReached'
       /\ \A u \in Tid, z \in Loc : OwnOk(loc'[z].buf, u, hist.own[u][z], thr'[u].epoch)
       /\ \A z \in Loc : FencedOk(loc'[z].buf, ctx'.sfence, hist.fenced[z])
       /\ \A u \in Tid, z \in Loc :
            /\ thr'[u].status = "invalid" => hist.floor[u][z] = 0
            /\ FloorOk(loc'[z].buf, thr'[u].slimit, thr'[u].swrite, hist.floor[u][z])
       /\ \A z \in Loc : \A w \in hist.sc[z] : ScOk(loc'[z].buf, ctx'.swrite, w)
  BY <1>3, <1>13, OrderStays
<1>15. OrderTyped
  BY DEF OrderInv
<1>16. CASE mo # "seq_cst"
  <2>1. SameOrder(hist', hist)
    BY <1>5, <1>16 DEF OrderFenced, SameOrder
  <2> QED
    BY <1>3, <1>13, <2>1, SameOrderKept
<1>17. CASE mo = "seq_cst"
  <2>1. /\ hist'.own = hist.own /\ hist'.sc = hist.sc /\ hist'.scPast = hist.scPast
        /\ hist'.fenced = FencedNow(hist, t) /\ hist'.floor = FloorNow(hist, t)
    BY <1>5, <1>17 DEF OrderFenced
  <2>2. ASSUME NEW z \in Loc
        PROVE  /\ hist'.fenced[z] \in Nat
               /\ hist'.fenced[z] = hist.fenced[z] \/ hist'.fenced[z] = hist.own[t][z]
    <3>1. hist'.fenced[z] = Later(hist.fenced[z], hist.own[t][z])
      BY <2>1 DEF FencedNow
    <3>2. hist.fenced[z] \in Nat /\ hist.own[t][z] \in Nat
      BY <1>1, <1>15 DEF OrderTyped
    <3> QED
      BY <3>1, <3>2 DEF Later
  <2>3. ASSUME NEW z \in Loc PROVE FencedOk(loc'[z].buf, ctx'.sfence, hist'.fenced[z])
    <3>1. CASE hist'.fenced[z] = hist.fenced[z]
      BY <1>14, <3>1
    <3>2. CASE hist'.fenced[z] = hist.own[t][z]
      <4>1. PICK b, w, g : b = loc'[z].buf /\ w = hist.own[t][z] /\ g = Tag(b, w)
        OBVIOUS
      <4>2. OwnOk(loc[z].buf, t, w, thr[t].epoch) /\ b = loc[z].buf
        BY <1>1, <1>5, <4>1 DEF OrderInv, OwnTagged
      <4>3. ASSUME w \in Held(b) PROVE f[g.tid] >= g.epoch
        <5>1. g.tid = t /\ g.epoch <= thr[t].epoch
          BY <4>1, <4>2, <4>3 DEF OwnOk
        <5>2. g.epoch \in Nat
          BY <1>2, <4>1, <4>2, <4>3, TagFacts
        <5> QED
          BY <1>1, <1>9, <1>11, <1>17, <5>1, <5>2
      <4> QED
        BY <1>7, <3>2, <4>1, <4>2, <4>3 DEF FencedOk, OwnOk
    <3> QED
      BY <2>2, <3>1, <3>2
  <2>4. ASSUME NEW z \in Loc
        PROVE  /\ hist'.floor[t][z] \in Nat
               /\ FloorOk(loc'[z].buf, thr'[t].slimit, thr'[t].swrite, hist'.floor[t][z])
    <3>1. PICK S : S = {hist.floor[t][z], hist'.fenced[z]} \cup hist.sc[z]
      OBVIOUS
    <3>2. hist'.floor[t][z] = Max(S)
      <4>1. hist'.floor[t]
              = [x \in Loc |-> Max({hist.floor[t][x], FencedNow(hist, t)[x]} \cup hist.sc[x])]
        BY <1>1, <1>15, <2>1 DEF FloorNow, OrderTyped
      <4> QED
        BY <2>1, <3>1, <4>1
    <3>3. PICK b : b = loc[z].buf
      OBVIOUS
    <3>4. S \in SUBSET Nat /\ S # {}
      <4>1. hist.floor[t][z] \in Nat /\ hist.sc[z] \in SUBSET Nat
        BY <1>1, <1>15 DEF OrderTyped
      <4> QED
        BY <2>2, <3>1, <4>1
    <3>5. ASSUME NEW w \in S
          PROVE  FloorOk(b, thr'[t].slimit, thr'[t].swrite, w)
      <4>1. PICK g : g = Tag(b, w)
        OBVIOUS
      <4>2. ASSUME w \in Held(b) PROVE g.tid \in Tid /\ g.epoch \in Nat
        BY <1>2, <3>3, <4>1, <4>2, TagFacts
      <4>3. CASE w = hist.floor[t][z]
        BY <1>1, <1>5, <1>14, <3>3, <4>3
      <4>4. CASE w = hist'.fenced[z]
        <5>1. FencedOk(b, f, w)
          BY <1>5, <1>7, <2>3, <3>3, <4>4
        <5>2. ASSUME w \in Held(b) PROVE thr'[t].slimit[g.tid] >= g.epoch
          <6>1. f[g.tid] >= g.epoch /\ g.tid \in Tid /\ g.epoch \in Nat
            BY <4>1, <4>2, <5>1, <5>2 DEF FencedOk
          <6>2. PICK d : d = thr'[t].slimit
            OBVIOUS
          <6>3. d[g.tid] \in Nat /\ f[g.tid] \in Nat /\ f[g.tid] <= d[g.tid]
            BY <1>11, <1>12, <1>17, <6>1, <6>2 DEF Leq, Clock
          <6> QED
            BY <6>1, <6>2, <6>3
        <5> QED
          BY <4>1, <5>1, <5>2 DEF FencedOk, FloorOk
      <4>5. CASE w \in hist.sc[z]
        <5>1. ScOk(b, ctx.swrite, w)
          BY <3>3, <4>5 DEF OrderInv, ScTagged
        <5>2. ASSUME w \in Held(b) PROVE g.sc /\ thr'[t].swrite[g.tid] >= g.epoch
          <6>1. g.sc /\ ctx.swrite[g.tid] >= g.epoch /\ g.tid \in Tid /\ g.epoch \in Nat
            BY <4>1, <4>2, <5>1, <5>2 DEF ScOk
          <6>2. PICK c, d : c = ctx.swrite /\ d = thr'[t].swrite
            OBVIOUS
          <6>3. d[g.tid] \in Nat /\ c[g.tid] \in Nat /\ c[g.tid] <= d[g.tid]
            BY <1>2, <1>12, <1>17, <6>1, <6>2 DEF Leq, Clock
          <6> QED
            BY <6>1, <6>2, <6>3
        <5> QED
          BY <4>1, <5>1, <5>2 DEF ScOk, FloorOk
      <4> QED
        BY <3>1, <4>3, <4>4, <4>5
    <3>6. \A w \in S : w <= End(b)
      BY <3>5 DEF FloorOk
    <3>7. End(b) \in Nat
      BY <1>2, <3>3
    <3>8. Max(S) \in S
      BY <3>4, <3>6, <3>7, MaxFacts
    <3> QED
      BY <1>5, <3>2, <3>3, <3>4, <3>5, <3>8
  <2>5. OrderTyped'
    <3>1. hist'.fenced \in [Loc -> Nat]
      <4>1. hist'.fenced = [z \in Loc |-> hist'.fenced[z]]
        BY <2>1 DEF FencedNow
      <4> QED
        BY <2>2, <4>1
    <3>2. hist'.floor \in [Tid -> [Loc -> Nat]]
      <4>1. /\ hist'.floor[t] = [z \in Loc |-> hist'.floor[t][z]]
            /\ hist'.floor = [hist.floor EXCEPT ![t] = hist'.floor[t]]
        BY <1>1, <1>15, <2>1 DEF FloorNow, OrderTyped
      <4>2. PICK k : k = hist'.floor[t]
        OBVIOUS
      <4>3. k \in [Loc -> Nat]
        BY <2>4, <4>1, <4>2
      <4>4. hist'.floor = [hist.floor EXCEPT ![t] = k]
        BY <4>1, <4>2
      <4> QED
        BY <1>15, <4>3, <4>4 DEF OrderTyped
    <3> QED
      BY <1>15, <2>1, <3>1, <3>2 DEF OrderTyped
  <2>6. FencedTagged' /\ OwnTagged' /\ ScTagged'
    BY <1>14, <2>1, <2>3 DEF FencedTagged, OwnTagged, ScTagged
  <2>7. FloorTagged'
    <3> SUFFICES ASSUME NEW u \in Tid, NEW z \in Loc
                 PROVE  /\ thr'[u].status = "invalid" => hist'.floor[u][z] = 0
                        /\ FloorOk(loc'[z].buf, thr'[u].slimit, thr'[u].swrite,
                                   hist'.floor[u][z])
      BY DEF FloorTagged
    <3>1. CASE u = t
      BY <1>8, <2>4, <3>1
    <3>2. CASE u # t
      <4>1. hist'.floor[u] = hist.floor[u]
        BY <1>15, <2>1, <3>2 DEF FloorNow, OrderTyped
      <4> QED
        BY <1>14, <4>1
    <3> QED
      BY <3>1, <3>2
  <2> QED
    BY <1>14, <2>5, <2>6, <2>7 DEF OrderInv
<1> QED
  BY <1>16, <1>17

\* Every step keeps the order.
LEMMA StepKeepsOrder ==
  ASSUME KeepsHistory, GoodInv, CoverInv, OrderInv, NEW t \in Running, StepOf(t)
  PROVE  OrderInv'
<1>1. StepGood(t) /\ TagsStay /\ EndsGrow
  BY StepCovers, StepIsGood
<1>2. ASSUME \/ \E x \in Loc : \/ \E mo, p : LoadAt(t, x, mo, p)
                               \/ \E fmo : CasFail(t, x, fmo)
             \/ Lock(t) \/ Unlock(t) \/ Finish(t)
             \/ \E u \in Tid : Create(t, u) \/ ThreadJoin(t, u)
      PROVE  OrderInv'
  BY <1>1, <1>2, QuietKeeps
<1>3. ASSUME NEW x \in Loc, NEW mo,
             \/ Store(t, x, mo)
             \/ \E keep \in BOOLEAN : Rmw(t, x, mo, keep)
             \/ mo = "relaxed" /\ CasRelaxed(t, x)
      PROVE  OrderInv'
  BY <1>3, StoresKeepOrder
<1>4. ASSUME NEW mo, Fence(t, mo) PROVE OrderInv'
  BY <1>4, FenceKeepsOrder
<1>5. ASSUME NEW x \in Loc, CasRelaxed(t, x) PROVE OrderInv'
  BY <1>3, <1>5
<1>6. CASE \E x \in Loc : (\E mo : Store(t, x, mo)) \/ CasRelaxed(t, x)
                             \/ (\E mo : \E keep \in BOOLEAN : Rmw(t, x, mo, keep))
  BY <1>3, <1>5, <1>6
<1>7. CASE \E mo : Fence(t, mo)
  BY <1>4, <1>7
<1>8. CASE \/ \E x \in Loc : \/ \E mo, p : LoadAt(t, x, mo, p)
                             \/ \E fmo : CasFail(t, x, fmo)
           \/ Lock(t) \/ Unlock(t) \/ Finish(t)
           \/ \E u \in Tid : Create(t, u) \/ ThreadJoin(t, u)
  BY <1>2, <1>8
<1> QED
  BY <1>6, <1>7, <1>8 DEF StepOf

\* At first nothing is ordered.
LEMMA InitOrder ==
  ASSUME KeepsHistory, Init, ClocksIn(Clock)
  PROVE  OrderInv
<1>1. /\ ctx.sfence \in Clock /\ ctx.swrite \in Clock
      /\ \A x \in Loc : /\ loc[x].buf \in Buffers(Clock) /\ Sound(loc[x].buf)
                        /\ End(loc[x].buf) \in Nat /\ 0 \notin Held(loc[x].buf)
      /\ \A t \in Tid : /\ thr[t].epoch \in Nat
                        /\ thr[t].slimit \in Clock /\ thr[t].swrite \in Clock
                        /\ thr[t].sread \in Clock
  BY OrderParts
<1>2. ctx.sfence = Zero /\ ctx.swrite = Zero
  BY DEF Init, InitWith
<1>3. /\ hist.own = [t \in Tid |-> [x \in Loc |-> 0]] /\ hist.fenced = [x \in Loc |-> 0]
      /\ hist.floor = [t \in Tid |-> [x \in Loc |-> 0]]
      /\ hist.sc = [x \in Loc |-> {}] /\ hist.scPast = [x \in Loc |-> {}]
  BY DEF Init, InitWith, NoHistory
<1>4. OrderTyped
  BY <1>3 DEF OrderTyped
<1>5. FencesReached
  <2> SUFFICES ASSUME NEW t \in Tid
               PROVE  ctx.sfence[t] <= thr[t].epoch /\ ctx.swrite[t] <= thr[t].epoch
    BY DEF FencesReached
  <2>1. ctx.sfence[t] = 0 /\ ctx.swrite[t] = 0
    BY <1>2 DEF Zero
  <2>2. thr[t].epoch \in Nat
    BY <1>1
  <2> QED
    BY <2>1, <2>2
<1>6. OwnTagged
  BY <1>1, <1>3 DEF OwnTagged, OwnOk
<1>7. FencedTagged
  BY <1>1, <1>3 DEF FencedTagged, FencedOk
<1>8. FloorTagged
  BY <1>1, <1>3 DEF FloorTagged, FloorOk
<1>9. ScTagged
  BY <1>3 DEF ScTagged
<1> QED
  BY <1>4, <1>5, <1>6, <1>7, <1>8, <1>9 DEF OrderInv

\* In every reachable state, the stores that SC fences and SC stores order are known by
\* their tags to Sfence, Slimit and Swrite.
THEOREM OrderIsTagged ==
  ASSUME KeepsHistory PROVE Spec => [](GoodInv /\ CoverInv /\ OrderInv)
<1>1. Init /\ GoodInv => OrderInv
  BY GoodTyped, InitOrder
<1>2. GoodInv /\ CoverInv /\ OrderInv /\ [Next]_vars => OrderInv'
  <2> SUFFICES ASSUME GoodInv, CoverInv, OrderInv, [Next]_vars PROVE OrderInv'
    OBVIOUS
  <2>1. CASE UNCHANGED vars
    BY <2>1 DEF vars, OrderInv, OrderTyped, FencesReached, OwnTagged, FencedTagged,
                FloorTagged, ScTagged
  <2>2. CASE Next
    <3>1. PICK t \in Running : StepOf(t)
      BY <2>2, StepCases
    <3> QED
      BY <3>1, StepKeepsOrder
  <2> QED
    BY <2>1, <2>2
<1> QED
  BY <1>1, <1>2, StoresAreCovered, PTL DEF Spec

\* No load reads a store older than the ones SC fences order before it, and no SC load one
\* older than a store that some SC fence follows (ScFencesOrderReads of Tsan11).
THEOREM FencesOrderReads ==
  ASSUME KeepsHistory PROVE Spec => []ScFencesOrderReads
<1>1. GoodInv /\ OrderInv => ScFencesOrderReads
  <2> SUFFICES ASSUME GoodInv, OrderInv,
                      NEW t \in Tid, NEW x \in Loc, NEW mo, NEW p \in NextReads(t, x, mo)
               PROVE  /\ p >= hist.floor[t][x]
                      /\ mo = "seq_cst" => p >= hist.fenced[x]
    BY NextLoadFacts DEF ScFencesOrderReads
  <2>1. PICK b, th, isSc : /\ b = loc[x].buf /\ th = ScReads(thr[t], mo)
                           /\ isSc = (mo = "seq_cst")
    OBVIOUS
  <2>2. /\ ctx.sfence \in Clock /\ ctx.swrite \in Clock
        /\ \A z \in Loc : /\ loc[z].buf \in Buffers(Clock) /\ Sound(loc[z].buf)
                          /\ End(loc[z].buf) \in Nat /\ 0 \notin Held(loc[z].buf)
        /\ \A u \in Tid : /\ thr[u].epoch \in Nat
                          /\ thr[u].slimit \in Clock /\ thr[u].swrite \in Clock
                          /\ thr[u].sread \in Clock
    BY GoodTyped, OrderParts
  <2>3. /\ th \in ThreadStates(Clock) /\ th.tid = t /\ th.clock = thr[t].clock
        /\ th.slimit = thr[t].slimit /\ th.swrite = thr[t].swrite
        /\ th.sread = IF mo = "seq_cst" THEN Join(thr[t].sread, ctx.sfence) ELSE thr[t].sread
    BY <2>1, ReaderFacts
  <2>4. isSc \in BOOLEAN /\ p \in Readable(b, th, isSc)
    BY <2>1 DEF NextReads
  <2>5. b \in Buffers(Clock) /\ Sound(b)
    BY <2>1, <2>2
  <2>6. PICK w : w = hist.floor[t][x]
    OBVIOUS
  <2>7. w \in Nat /\ FloorOk(b, th.slimit, th.swrite, w)
    BY <2>1, <2>3, <2>6 DEF OrderInv, OrderTyped, FloorTagged
  <2>8. p >= w
    <3>1. w <= End(b) /\ (w \in Held(b) => Bounds(th, Tag(b, w), isSc))
      BY <2>7 DEF FloorOk, Bounds
    <3> QED
      BY <2>3, <2>4, <2>5, <2>7, <3>1, ReadsNotBefore
  <2>9. ASSUME mo = "seq_cst" PROVE p >= hist.fenced[x]
    <3>1. PICK f, g : f = hist.fenced[x] /\ g = Tag(b, f)
      OBVIOUS
    <3>2. f \in Nat /\ FencedOk(b, ctx.sfence, f)
      BY <2>1, <3>1 DEF OrderInv, OrderTyped, FencedTagged
    <3>3. ASSUME f \in Held(b) PROVE Bounds(th, g, isSc)
      <4>1. g.tid \in Tid /\ g.epoch \in Nat /\ ctx.sfence[g.tid] >= g.epoch
        BY <2>5, <3>1, <3>2, <3>3, TagFacts DEF FencedOk
      <4>2. PICK c, d : c = ctx.sfence /\ d = th.sread
        OBVIOUS
      <4>3. c \in Clock /\ d \in Clock /\ Leq(c, d)
        BY <2>2, <2>3, <2>9, <4>2, ClockFacts
      <4>4. c[g.tid] \in Nat /\ d[g.tid] \in Nat /\ c[g.tid] <= d[g.tid]
        BY <4>1, <4>3 DEF Leq, Clock
      <4>5. th.sread[g.tid] >= g.epoch
        BY <4>1, <4>2, <4>4
      <4> QED
        BY <2>1, <2>9, <4>5 DEF Bounds
    <3>4. f <= End(b)
      BY <3>2 DEF FencedOk
    <3>5. f \in Held(b) => Bounds(th, Tag(b, f), isSc) \/ f <= b.pos[th.tid]
      BY <3>1, <3>3
    <3> QED
      BY <2>3, <2>4, <2>5, <3>1, <3>2, <3>4, <3>5, ReadsNotBefore
  <2> QED
    BY <2>6, <2>8, <2>9
<1> QED
  BY <1>1, OrderIsTagged, PTL

\* An SC load skips a store marked SC with an SC store after it.
LEMMA ScSkips ==
  ASSUME NEW b \in Buffers(Clock), Sound(b), NEW th \in ThreadStates(Clock),
         NEW isSc \in BOOLEAN, isSc, NEW p \in Readable(b, th, isSc), Tag(b, p).sc,
         NEW m \in Nat, p < m, m <= End(b), m \in Held(b) => Tag(b, m).sc
  PROVE  FALSE
<1>1. /\ p \in Held(b) /\ p >= b.pos[th.tid]
      /\ \A q \in Held(b) : Bounds(th, Tag(b, q), isSc) => q <= p
      /\ AtEnd(b, th.tid) => p = End(b)
      /\ ~AtEnd(b, th.tid) =>
           \A q \in Held(b) : LoadBefore(Scanned(b, th), th, q) => q <= p
      /\ p # End(b) => \E L \in Held(b) :
           /\ p \in L..b.last
           /\ isSc => ~Skipped(b, L..b.last, p)
  BY ReadableFacts
<1>2. b.last \in Nat /\ End(b) = b.last + 1
  BY BufferParts DEF End
<1>3. p \in Nat /\ p # End(b)
  <2>1. p \in Nat
    BY <1>1, TagFacts
  <2> QED
    BY <1>2, <2>1
<1>4. PICK L \in Held(b) : p \in L..b.last /\ ~Skipped(b, L..b.last, p)
  BY <1>1, <1>3
<1>5. L \in Nat
  BY TagFacts
<1>6. m \in Held(b) /\ m \in L..End(b)
  <2>1. PICK f \in Nat : Window(b, f)
    BY DEF Sound
  <2>2. m \in L..End(b)
    BY <1>2, <1>3, <1>4, <1>5
  <2> QED
    BY <1>2, <1>5, <2>1, <2>2 DEF Window, Held, End
<1>7. b.stores[p].sc
  BY <1>3 DEF Tag
<1>8. CASE m = End(b)
  <2>1. b.prev.sc
    BY <1>6, <1>8 DEF Tag
  <2> QED
    BY <1>4, <1>7, <2>1 DEF Skipped
<1>9. CASE m # End(b)
  <2>1. PICK S : S = {q \in L..b.last : b.stores[q].sc}
    OBVIOUS
  <2>2. b.stores[m].sc /\ m \in L..b.last
    BY <1>2, <1>5, <1>6, <1>9 DEF Tag
  <2>3. S \in SUBSET Nat /\ m \in S /\ p \in S /\ \A s \in S : s <= b.last
    BY <1>2, <1>4, <1>5, <1>7, <2>1, <2>2
  <2>4. Max(S) \in S /\ \A s \in S : s <= Max(S)
    BY <1>2, <2>3, MaxFacts
  <2>5. p # Max(S)
    BY <1>3, <2>3, <2>4
  <2> QED
    BY <1>4, <2>1, <2>3, <2>5 DEF Skipped
<1> QED
  BY <1>8, <1>9

\* The only SC store an SC load may read is the latest one (ScLoadsReadLatest of Tsan11).
THEOREM ScReadsAreLatest ==
  ASSUME KeepsHistory PROVE Spec => []ScLoadsReadLatest
<1>1. GoodInv /\ OrderInv => ScLoadsReadLatest
  <2> SUFFICES ASSUME GoodInv, OrderInv,
                      NEW t \in Tid, NEW x \in Loc, NEW mo, mo = "seq_cst",
                      NEW p \in NextReads(t, x, mo), p \in hist.sc[x]
               PROVE  p = Max(hist.sc[x])
    BY NextLoadFacts DEF ScLoadsReadLatest
  <2>1. PICK b, th, isSc : /\ b = loc[x].buf /\ th = ScReads(thr[t], mo)
                           /\ isSc = (mo = "seq_cst")
    OBVIOUS
  <2>2. b \in Buffers(Clock) /\ Sound(b) /\ End(b) \in Nat
    BY <2>1, GoodTyped, OrderParts
  <2>3. /\ th \in ThreadStates(Clock) /\ th.tid = t /\ th.clock = thr[t].clock
        /\ th.slimit = thr[t].slimit /\ th.swrite = thr[t].swrite
        /\ th.sread = IF mo = "seq_cst" THEN Join(thr[t].sread, ctx.sfence) ELSE thr[t].sread
    BY <2>1, ReaderFacts
  <2>4. isSc \in BOOLEAN /\ isSc /\ p \in Readable(b, th, isSc)
    BY <2>1 DEF NextReads
  <2>5. PICK S, m : S = hist.sc[x] /\ m = Max(S)
    OBVIOUS
  <2>6. S \in SUBSET Nat /\ \A w \in S : ScOk(b, ctx.swrite, w)
    BY <2>1, <2>5 DEF OrderInv, OrderTyped, ScTagged
  <2>7. S # {} /\ \A w \in S : w <= End(b)
    BY <2>5, <2>6 DEF ScOk
  <2>8. m \in S /\ \A w \in S : w <= m
    BY <2>2, <2>5, <2>6, <2>7, MaxFacts
  <2>9. p \in Held(b)
    BY <2>2, <2>3, <2>4, ReadableFacts
  <2>10. Tag(b, p).sc /\ m <= End(b) /\ (m \in Held(b) => Tag(b, m).sc)
    BY <2>5, <2>6, <2>8, <2>9 DEF ScOk
  <2>11. ~(p < m)
    BY <2>2, <2>3, <2>4, <2>6, <2>8, <2>10, ScSkips
  <2> QED
    BY <2>5, <2>6, <2>8, <2>11
<1> QED
  BY <1>1, OrderIsTagged, PTL

-----------------------------------------------------------------------------
(* What happens before the latest SC store is marked, in a program whose SC    *)
(* stores are none of them read-modify-writes: those acquire after they mark.  *)

NoScRmw == \A t \in Tid, x \in Loc : "seq_cst" \notin Uses[<<t, x>>].rmw

\* Position w precedes one of S, and a buffer that holds it has marked it.
PastOk(b, S, w) ==
  w <= End(b) /\ (\E m \in S : w < m) /\ (w \in Held(b) => Tag(b, w).sc)

PastMarked == \A x \in Loc : \A w \in hist.scPast[x] : PastOk(loc[x].buf, hist.sc[x], w)

\* A step of a program without SC read-modify-writes is one of these.
LEMMA StepsWithoutScRmw ==
  ASSUME NoScRmw, Next
  PROVE  \E t \in Running :
           /\ StepOf(t)
           /\ \/ \E x \in Loc : \/ \E mo, p : LoadAt(t, x, mo, p)
                                \/ \E fmo : CasFail(t, x, fmo)
              \/ Lock(t) \/ Unlock(t) \/ Finish(t)
              \/ \E u \in Tid : Create(t, u) \/ ThreadJoin(t, u)
              \/ \E mo : Fence(t, mo)
              \/ \E x \in Loc : \/ \E mo : Store(t, x, mo)
                                \/ CasRelaxed(t, x)
                                \/ \E mo : /\ mo # "seq_cst"
                                           /\ \E keep \in BOOLEAN : Rmw(t, x, mo, keep)
<1> DEFINE Plain(t) ==
             \/ \E x \in Loc : \/ \E mo, p : LoadAt(t, x, mo, p)
                               \/ \E fmo : CasFail(t, x, fmo)
             \/ Lock(t) \/ Unlock(t) \/ Finish(t)
             \/ \E u \in Tid : Create(t, u) \/ ThreadJoin(t, u)
             \/ \E mo : Fence(t, mo)
             \/ \E x \in Loc : \/ \E mo : Store(t, x, mo)
                               \/ CasRelaxed(t, x)
                               \/ \E mo : /\ mo # "seq_cst"
                                          /\ \E keep \in BOOLEAN : Rmw(t, x, mo, keep)
<1>1. PICK t \in Running :
        \/ \E x \in Loc :
             \/ \E mo \in Uses[<<t, x>>].load : Load(t, x, mo)
             \/ \E mo \in Uses[<<t, x>>].store : Store(t, x, mo)
             \/ \E mo \in Uses[<<t, x>>].rmw, keep \in BOOLEAN : Rmw(t, x, mo, keep)
             \/ \E mo \in Uses[<<t, x>>].cas : mo = "relaxed" /\ CasRelaxed(t, x)
             \/ \E mo \in Uses[<<t, x>>].casfail : CasFail(t, x, mo)
        \/ \E mo \in Fences[t] : Fence(t, mo)
        \/ Lock(t)
        \/ Unlock(t)
        \/ \E u \in Tid : Create(t, u) \/ ThreadJoin(t, u)
        \/ Creator[t] # NoTid /\ Finish(t)
  BY DEF Next
<1>2. t \in Tid
  BY DEF Running
<1>3. ASSUME NEW x \in Loc, NEW mo, Load(t, x, mo) PROVE Plain(t)
  BY <1>3 DEF Load
<1>4. ASSUME NEW x \in Loc, NEW mo \in Uses[<<t, x>>].rmw, NEW keep \in BOOLEAN,
             Rmw(t, x, mo, keep)
      PROVE  Plain(t)
  <2>1. mo # "seq_cst"
    BY <1>2 DEF NoScRmw
  <2> QED
    BY <1>4, <2>1
<1>5. ASSUME NEW x \in Loc, NEW mo,
             Store(t, x, mo) \/ CasRelaxed(t, x) \/ CasFail(t, x, mo)
      PROVE  Plain(t)
  BY <1>5
<1>6. ASSUME NEW mo, Fence(t, mo) PROVE Plain(t)
  BY <1>6
<1>7. ASSUME \/ Lock(t) \/ Unlock(t) \/ Finish(t)
             \/ \E u \in Tid : Create(t, u) \/ ThreadJoin(t, u)
      PROVE  Plain(t)
  BY <1>7
<1>8. Plain(t)
  <2> HIDE DEF Plain
  <2> QED
    BY <1>1, <1>3, <1>4, <1>5, <1>6, <1>7
<1>9. ASSUME NEW x \in Loc, NEW mo, NEW keep \in BOOLEAN, Rmw(t, x, mo, keep) PROVE StepOf(t)
  BY <1>9 DEF StepOf
<1>10. ASSUME NEW x \in Loc, NEW mo, Store(t, x, mo) \/ CasRelaxed(t, x) PROVE StepOf(t)
  BY <1>10 DEF StepOf
<1>11. ASSUME \/ \E x \in Loc : \/ \E mo, p : LoadAt(t, x, mo, p)
                                \/ \E fmo : CasFail(t, x, fmo)
              \/ Lock(t) \/ Unlock(t) \/ Finish(t)
              \/ \E u \in Tid : Create(t, u) \/ ThreadJoin(t, u)
              \/ \E mo : Fence(t, mo)
       PROVE  StepOf(t)
  BY <1>11 DEF StepOf
<1>12. StepOf(t)
  BY <1>8, <1>9, <1>10, <1>11
<1> QED
  BY <1>8, <1>12

\* A marked position stays marked, at x, if the SC stores to x grow.
LEMMA PastStays ==
  ASSUME GoodInv, GoodInv', TagsStay, EndsGrow, NEW x \in Loc, NEW w \in Nat,
         PastOk(loc[x].buf, hist.sc[x], w), hist.sc[x] \subseteq hist'.sc[x]
  PROVE  PastOk(loc'[x].buf, hist'.sc[x], w)
<1>1. PICK b, r : b = loc[x].buf /\ r = loc'[x].buf
  OBVIOUS
<1>2. End(b) \in Nat /\ End(r) \in Nat /\ End(b) <= End(r) /\ SameTags(b, r)
  <2>1. ClocksIn(Clock) /\ ClocksIn(Clock)'
    BY GoodTyped, PTL
  <2>2. \A z \in Loc : /\ End(loc[z].buf) \in Nat /\ End(loc'[z].buf) \in Nat
                       /\ End(loc[z].buf) <= End(loc'[z].buf)
    BY <2>1, EndsAfter
  <2> QED
    BY <1>1, <2>2 DEF TagsStay
<1>3. w <= End(b) /\ w <= End(r) /\ \E m \in hist'.sc[x] : w < m
  BY <1>1, <1>2 DEF PastOk
<1>4. ASSUME w \in Held(r) PROVE Tag(r, w).sc
  <2>1. w \in Held(b) /\ (Tag(b, w).sc => Tag(r, w).sc)
    BY <1>2, <1>3, <1>4 DEF SameTags
  <2> QED
    BY <1>1, <2>1 DEF PastOk
<1> QED
  BY <1>1, <1>3, <1>4 DEF PastOk

\* A step that adds no SC store keeps the marks.
LEMMA NoScStoreKeepsMarks ==
  ASSUME GoodInv, GoodInv', OrderInv, TagsStay, EndsGrow, PastMarked,
         hist'.sc = hist.sc, hist'.scPast = hist.scPast
  PROVE  PastMarked'
<1> SUFFICES ASSUME NEW x \in Loc, NEW w \in hist'.scPast[x]
             PROVE  PastOk(loc'[x].buf, hist'.sc[x], w)
  BY DEF PastMarked
<1>1. w \in Nat
  BY DEF OrderInv, OrderTyped
<1>2. PastOk(loc[x].buf, hist.sc[x], w)
  BY DEF PastMarked
<1> QED
  BY <1>1, <1>2, PastStays

\* AtomicStore, of order seq_cst, marks all that happens before it.
LEMMA ScStoreMarks ==
  ASSUME KeepsHistory, GoodInv, CoverInv, OrderInv, PastMarked,
         NEW t \in Running, NEW x \in Loc, NEW mo, mo = "seq_cst", Store(t, x, mo)
  PROVE  PastMarked'
<1>1. /\ ClocksIn(Clock) /\ HistInv(hist, thr, loc)
      /\ t \in Tid /\ thr[t].status # "invalid" /\ thr[t].epoch \in Nat
      /\ thr[t].clock \in Clock /\ thr[t].epoch + 1 \in Nat
  BY GoodThread
<1>2. PICK th, v, e : /\ th = Stamped(Ticked(thr[t])) /\ e = thr[t].epoch + 1
                      /\ v = Learn(hist.view[t], thr'[t].clock)
  OBVIOUS
<1>3. StoredBy(t, x, mo, th, v)
  <2>1. StoredBy(t, x, mo, th, Learn(hist.view[t], thr'[t].clock))
    BY <1>1, <1>2, StoreEffect
  <2> QED
    BY <1>2, <2>1
<1>4. thr'[t].clock = th.clock
  <2>1. /\ NewThread(t, "running", thr[t].epoch + 1,
                     IF IsReleaseOrder(mo) THEN thr[t].epoch + 1 ELSE thr[t].lastRelease,
                     thr[t].slimit, thr[t].swrite, thr[t].sread)
        /\ Acquires(Clock, t, thr[t].epoch + 1)
        /\ thr'[t].clock = th.clock
        /\ \E sync : NewLocation(x, sync, Buffered(x, th, mo))
        /\ ctx'.sfence = ctx.sfence
        /\ ctx'.swrite = IF mo = "seq_cst" THEN Raised(ctx.swrite, t, thr[t].epoch + 1)
                                           ELSE ctx.swrite
        /\ thr'[t].clock \in Clock => ClocksIn(Clock)'
    BY <1>1, <1>2, StoreStep, ClockLattice
  <2> QED
    BY <2>1
<1>5. th.clock = Raised(thr[t].clock, t, e)
  <2>1. thr[t] \in ThreadStates(Clock) /\ thr[t].tid = t
    BY <1>1, StateParts, ClockLattice
  <2>2. /\ th \in ThreadStates(Clock) /\ th.tid = thr[t].tid /\ th.status = thr[t].status
        /\ th.epoch = thr[t].epoch + 1
        /\ th.clock = Raised(thr[t].clock, thr[t].tid, thr[t].epoch + 1)
        /\ th.lastRelease = thr[t].lastRelease /\ th.frel = thr[t].frel
        /\ th.facq = thr[t].facq
        /\ th.slimit = thr[t].slimit /\ th.swrite = thr[t].swrite /\ th.sread = thr[t].sread
    BY <1>2, <2>1, NextEpochFacts
  <2> QED
    BY <1>2, <2>1, <2>2
<1>6. th.clock \in Clock /\ th.clock[t] = e
  <2>1. th.clock \in Clock
    BY <1>1, <1>2, <1>5, RaisedType
  <2> QED
    BY <1>1, <1>5, <2>1 DEF Raised, Clock
<1>7. StepGood(t) /\ EndsGrow
  BY <1>3, StoreGood DEF StoredBy
<1>8. GoodInv' /\ Kept /\ Leq(thr[t].clock, thr'[t].clock)
  BY <1>7 DEF StepGood
<1>9. /\ TagsStay /\ \A z \in Loc : OwnBelow(loc'[z].buf)
      /\ End(loc'[x].buf) = End(loc[x].buf) + 1 /\ End(loc'[x].buf) \in Held(loc'[x].buf)
      /\ Tag(loc'[x].buf, End(loc'[x].buf))
           = [tid |-> t, epoch |-> thr'[t].epoch, sc |-> (mo = "seq_cst")]
      /\ \A w \in Held(loc'[x].buf) : w <= End(loc[x].buf) =>
           (Tag(loc'[x].buf, w).sc <=>
              Tag(loc[x].buf, w).sc \/ Marks(th, Tag(loc[x].buf, w), mo = "seq_cst"))
  BY <1>1, <1>3, <1>8, TagsOfStore
<1>10. /\ thr'[t].epoch = e /\ thr'[t].status # "invalid"
       /\ \A u \in Tid \ {t} : thr'[u] = thr[u]
       /\ hist'.sc = [hist.sc EXCEPT ![x] = @ \cup {End(loc'[x].buf)}]
       /\ hist'.scPast = [hist.scPast EXCEPT ![x] = v[x].wrote]
  BY <1>2, <1>3 DEF StoredBy, Ticks, OrderStored
<1>11. Covered(loc', v, thr'[t].clock, t, thr'[t].epoch)
  <2>1. thr[t].epoch <= thr'[t].epoch
    BY <1>1, <1>2, <1>10
  <2>2. \A u \in Tid : thr[u].status = "invalid" => thr'[u].status = "invalid"
    BY <1>1, <1>10
  <2> QED
    BY <1>1, <1>2, <1>8, <1>9, <1>10, <2>1, <2>2, NewViewCovered
<1>12. /\ hist.sc \in [Loc -> SUBSET Nat] /\ hist.scPast \in [Loc -> SUBSET Nat]
  BY DEF OrderInv, OrderTyped
<1>13. ASSUME NEW z \in Loc, z # x, NEW w \in hist'.scPast[z]
       PROVE  PastOk(loc'[z].buf, hist'.sc[z], w)
  <2>1. hist'.sc[z] = hist.sc[z] /\ hist'.scPast[z] = hist.scPast[z]
    BY <1>10, <1>12, <1>13
  <2>2. w \in Nat /\ PastOk(loc[z].buf, hist.sc[z], w)
    BY <1>12, <2>1 DEF PastMarked
  <2> QED
    BY <1>7, <1>8, <1>9, <2>1, <2>2, PastStays
<1>14. ASSUME NEW w \in hist'.scPast[x] PROVE PastOk(loc'[x].buf, hist'.sc[x], w)
  <2>1. PICK b, r : b = loc[x].buf /\ r = loc'[x].buf
    OBVIOUS
  <2>2. w \in v[x].wrote /\ End(r) \in hist'.sc[x]
    BY <1>10, <1>12, <2>1
  <2>3. \A z \in Loc : End(loc[z].buf) \in Nat
    BY <1>1, EndsTyped
  <2>4. w \in Nat /\ w <= End(b)
    <3>1. HistoryIn(hist, thr, loc) /\ thr'[t].clock \in Clock
      BY <1>4, <1>6, GoodTyped
    <3>2. hist.view[t] \in Views /\ Within(loc, hist.view[t])
      BY <1>1, CoverParts
    <3>3. v \in Views /\ Within(loc, v)
      BY <1>2, <2>3, <3>1, <3>2, LearnFacts
    <3> QED
      BY <2>1, <2>2, <3>3 DEF Views, Within
  <2>5. End(b) \in Nat /\ End(r) = End(b) + 1
    BY <1>9, <2>1, <2>3
  <2>6. ASSUME w \in Held(r) PROVE Tag(r, w).sc
    <3>1. PICK g, h : g = Tag(b, w) /\ h = Tag(r, w)
      OBVIOUS
    <3>2. h.tid = g.tid /\ h.epoch = g.epoch
      BY <1>9, <2>1, <2>4, <2>6, <3>1 DEF TagsStay, SameTags
    <3>3. Knows(thr'[t].clock, h, t, e)
      BY <1>10, <1>11, <2>1, <2>2, <2>6, <3>1 DEF Covered
    <3>4. th.clock[g.tid] >= g.epoch
      <4>1. CASE th.clock[h.tid] >= h.epoch
        BY <3>2, <4>1
      <4>2. CASE h.tid = t /\ h.epoch <= e
        <5>1. g.tid = t /\ g.epoch <= e /\ g.epoch \in Nat
          <6>1. b \in Buffers(Clock) /\ Sound(b) /\ w \in Held(b)
            BY <1>9, <2>1, <2>4, <2>6, CoverParts DEF TagsStay, SameTags
          <6> QED
            BY <3>1, <3>2, <4>2, <6>1, TagFacts
        <5> QED
          BY <1>1, <1>2, <1>6, <5>1
      <4> QED
        BY <1>4, <3>3, <4>1, <4>2 DEF Knows
    <3>5. Marks(th, g, mo = "seq_cst")
      BY <3>4 DEF Marks
    <3> QED
      BY <1>9, <2>1, <2>4, <2>6, <3>1, <3>5
  <2> QED
    BY <2>1, <2>2, <2>4, <2>5, <2>6 DEF PastOk
<1> QED
  BY <1>13, <1>14 DEF PastMarked

\* Every step keeps the marks.
LEMMA StepKeepsMarks ==
  ASSUME KeepsHistory, NoScRmw, GoodInv, CoverInv, OrderInv, PastMarked, Next
  PROVE  PastMarked'
<1>1. PICK t \in Running :
        /\ StepOf(t)
        /\ \/ \E x \in Loc : \/ \E mo, p : LoadAt(t, x, mo, p)
                             \/ \E fmo : CasFail(t, x, fmo)
           \/ Lock(t) \/ Unlock(t) \/ Finish(t)
           \/ \E u \in Tid : Create(t, u) \/ ThreadJoin(t, u)
           \/ \E mo : Fence(t, mo)
           \/ \E x \in Loc : \/ \E mo : Store(t, x, mo)
                             \/ CasRelaxed(t, x)
                             \/ \E mo : /\ mo # "seq_cst"
                                        /\ \E keep \in BOOLEAN : Rmw(t, x, mo, keep)
  BY StepsWithoutScRmw
<1>2. StepGood(t) /\ TagsStay /\ EndsGrow /\ GoodInv'
  BY <1>1, StepCovers, StepIsGood DEF StepGood
<1>3. ASSUME \/ \E x \in Loc : \/ \E mo, p : LoadAt(t, x, mo, p)
                               \/ \E fmo : CasFail(t, x, fmo)
             \/ Lock(t) \/ Unlock(t) \/ Finish(t)
             \/ \E u \in Tid : Create(t, u) \/ ThreadJoin(t, u)
      PROVE  PastMarked'
  <2>1. SameOrder(hist', hist)
    BY <1>2, <1>3, QuietKeeps
  <2> QED
    BY <1>2, <2>1, NoScStoreKeepsMarks DEF SameOrder
<1>4. ASSUME NEW mo, Fence(t, mo) PROVE PastMarked'
  <2>1. ClocksIn(Clock) /\ HistInv(hist, thr, loc)
    BY GoodTyped
  <2>2. PICK v, e : v = Learn(hist.view[t], thr'[t].clock) /\ e = thr[t].epoch + 1
    OBVIOUS
  <2>3. OrderFenced(t, mo)
    BY <1>4, <2>1, <2>2, FenceEffect
  <2> QED
    BY <1>2, <2>3, NoScStoreKeepsMarks DEF OrderFenced
<1>5. ASSUME NEW x \in Loc, NEW mo, mo # "seq_cst",
             \/ Store(t, x, mo)
             \/ \E keep \in BOOLEAN : Rmw(t, x, mo, keep)
             \/ mo = "relaxed" /\ CasRelaxed(t, x)
      PROVE  PastMarked'
  <2>1. /\ CoverInv' /\ TagsStay /\ EndsGrow /\ StepGood(t)
        /\ \E th : /\ StoredBy(t, x, mo, th, Learn(hist.view[t], thr'[t].clock))
                   /\ th.clock = thr[t].clock
                        \/ th.clock = Raised(thr[t].clock, t, thr'[t].epoch)
    BY <1>5, StoreCovers
  <2>2. PICK th, v : StoredBy(t, x, mo, th, v)
    BY <2>1
  <2>3. hist'.sc = hist.sc /\ hist'.scPast = hist.scPast
    BY <1>5, <2>2 DEF StoredBy, OrderStored
  <2> QED
    BY <1>2, <2>3, NoScStoreKeepsMarks
<1>6. ASSUME NEW x \in Loc, NEW mo, Store(t, x, mo) PROVE PastMarked'
  BY <1>5, <1>6, ScStoreMarks
<1>7. ASSUME NEW x \in Loc, CasRelaxed(t, x) PROVE PastMarked'
  <2>1. PICK mo : mo = "relaxed"
    OBVIOUS
  <2> QED
    BY <1>5, <1>7, <2>1
<1> QED
  BY <1>1, <1>3, <1>4, <1>5, <1>6, <1>7

\* An SC load skips every store that happens before the latest SC store, in a program
\* whose SC stores are not read-modify-writes (ScLoadsSkipPast of Tsan11).
THEOREM ScReadsSkipPast ==
  ASSUME KeepsHistory, NoScRmw PROVE Spec => []ScLoadsSkipPast
<1>1. Init => PastMarked
  BY DEF Init, InitWith, NoHistory, PastMarked
<1>2. GoodInv /\ CoverInv /\ OrderInv /\ PastMarked /\ [Next]_vars => PastMarked'
  <2> SUFFICES ASSUME GoodInv, CoverInv, OrderInv, PastMarked, [Next]_vars PROVE PastMarked'
    OBVIOUS
  <2>1. CASE UNCHANGED vars
    BY <2>1 DEF vars, PastMarked
  <2>2. CASE Next
    BY <2>2, StepKeepsMarks
  <2> QED
    BY <2>1, <2>2
<1>3. GoodInv /\ OrderInv /\ PastMarked => ScLoadsSkipPast
  <2> SUFFICES ASSUME GoodInv, OrderInv, PastMarked,
                      NEW t \in Tid, NEW x \in Loc, NEW mo, mo = "seq_cst",
                      NEW p \in NextReads(t, x, mo), p \in hist.scPast[x]
               PROVE  FALSE
    BY NextLoadFacts DEF ScLoadsSkipPast
  <2>1. PICK b, th, isSc : /\ b = loc[x].buf /\ th = ScReads(thr[t], mo)
                           /\ isSc = (mo = "seq_cst")
    OBVIOUS
  <2>2. b \in Buffers(Clock) /\ Sound(b)
    BY <2>1, GoodTyped, OrderParts
  <2>3. /\ th \in ThreadStates(Clock) /\ th.tid = t /\ th.clock = thr[t].clock
        /\ th.slimit = thr[t].slimit /\ th.swrite = thr[t].swrite
        /\ th.sread = IF mo = "seq_cst" THEN Join(thr[t].sread, ctx.sfence) ELSE thr[t].sread
    BY <2>1, ReaderFacts
  <2>4. isSc \in BOOLEAN /\ isSc /\ p \in Readable(b, th, isSc)
    BY <2>1 DEF NextReads
  <2>5. PastOk(b, hist.sc[x], p)
    BY <2>1 DEF PastMarked
  <2>6. PICK m \in hist.sc[x] : p < m
    BY <2>5 DEF PastOk
  <2>7. m \in Nat /\ ScOk(b, ctx.swrite, m)
    BY <2>1 DEF OrderInv, OrderTyped, ScTagged
  <2>8. p \in Held(b)
    BY <2>2, <2>3, <2>4, ReadableFacts
  <2>9. Tag(b, p).sc /\ m <= End(b) /\ (m \in Held(b) => Tag(b, m).sc)
    BY <2>5, <2>7, <2>8 DEF PastOk, ScOk
  <2> QED
    BY <2>2, <2>3, <2>4, <2>6, <2>7, <2>9, ScSkips
<1> QED
  BY <1>1, <1>2, <1>3, OrderIsTagged, PTL DEF Spec

-----------------------------------------------------------------------------
(* Read-read coherence. A load that is committed bars the stores before it *)
(* to every thread that its thread released to; a thread that publishes a  *)
(* clock must have committed its loads.                                    *)

\* The load l moves no more: its thread released since, or runs no more.
Settled(th, l) == th[l.tid].lastRelease > l.epoch \/ th[l.tid].status \in {"finished", "dead"}

\* No thread whose clock is c reads a store before position s: none is left, or a
\* store or a settled load that c knows is in the way.
Bars(b, th, c, s) ==
  \/ \A q \in Held(b) : s <= q
  \/ \E q \in Held(b) : q >= s /\ c[Tag(b, q).tid] >= Tag(b, q).epoch
  \/ \E l \in b.loads : l.at >= s /\ c[l.tid] > l.epoch /\ Settled(th, l)

\* So it is for all that goes with the publication p.
Backed(l, th, p) == \A x \in Loc : Bars(l[x].buf, th, p.clock, p.view[x].seen)

\* The good clocks that know backed publications only.
BackedClocks(th, l, past) ==
  {c \in GoodClocks(th, past) : \A u \in Tid : c[u] = 0 \/ Backed(l, th, past[u][c[u]])}

\* What threads can acquire comes from G: fence clocks, the clocks of locations and
\* of the mutex, and those of threads that finished.
SharesIn(G) ==
  /\ thr \in [Tid -> ThreadStates(G)]
  /\ \A t \in Tid : thr[t].tid = t /\ (thr[t].status = "finished" => thr[t].clock \in G)
  /\ LocationsIn(G) /\ MutexIn(G)

\* What a thread acquired from others is backed.
OthersBacked ==
  \A t \in Tid : \A u \in Tid \ {t} :
    thr[t].clock[u] = 0 \/ Backed(loc, thr, hist.past[u][thr[t].clock[u]])

\* What t saw, in view v, is not past its position, or barred to the clock c.
Barred(l, th, c, t, v) ==
  \A x \in Loc : v[x].seen <= l[x].buf.pos[t] \/ Bars(l[x].buf, th, c, v[x].seen)

ReadsBarred == \A t \in Tid : Barred(loc, thr, thr[t].clock, t, hist.view[t])

\* A thread saw all that it published.
PastBelow ==
  \A t \in Tid : \A e \in DOMAIN hist.past[t] :
    \A x \in Loc : hist.past[t][e].view[x].seen <= hist.view[t][x].seen

\* What keeps t, in its epoch e, from reading before its position: no store is left
\* there, or a load of t is at it, or a store that t made.
Placed(b, t, e) ==
  \/ \A q \in Held(b) : b.pos[t] <= q
  \/ b.active[t] # NoLoad
  \/ b.pos[t] \in Held(b) /\ Tag(b, b.pos[t]).tid = t /\ Tag(b, b.pos[t]).epoch <= e

PositionsPlaced == \A t \in Tid, x \in Loc : Placed(loc[x].buf, t, thr[t].epoch)

\* Loads are of threads that exist, and of epochs that they reached.
LoadsReached ==
  \A x \in Loc :
    /\ \A l \in loc[x].buf.loads :
         thr[l.tid].status # "invalid" /\ l.epoch <= thr[l.tid].epoch
    /\ \A t \in Tid : loc[x].buf.active[t].epoch <= thr[t].epoch

ReadInv ==
  /\ SharesIn(BackedClocks(thr, loc, hist.past))
  /\ OthersBacked /\ ReadsBarred /\ PastBelow /\ PositionsPlaced /\ LoadsReached

-----------------------------------------------------------------------------
(* What a step makes of positions and loads. *)

\* The buffer r that t makes of b: the same, or one it moved its load in, or one it
\* stored to.
Turned(b, t, lr, e, r) ==
  \/ r = b
  \/ \E th \in ThreadStates(Clock) :
       /\ th.tid = t /\ th.lastRelease = lr /\ th.epoch = e
       /\ \/ \E p \in Held(b) : p >= b.pos[t] /\ Moved(b, th, p, r)
          \/ \E isSc : Stored(b, th, isSc, r)

\* The positions a buffer holds before and after a step, when tags stay.
LEMMA HeldAfter ==
  ASSUME NEW b \in Buffers(Clock), Sound(b), NEW r \in Buffers(Clock), Sound(r),
         SameTags(b, r), End(b) <= End(r)
  PROVE  /\ \A q \in Held(b) : q \in Nat /\ (q \in Held(r) \/ \A w \in Held(r) : q < w)
         /\ \A w \in Held(r) : w \in Nat /\ (w \in Held(b) \/ \A q \in Held(b) : q < w)
         /\ Held(b) # {}
<1>1. PICK f \in Nat : /\ f >= 1 /\ f <= End(b)
                       /\ DOMAIN b.stores = f..b.last /\ Held(b) = f..End(b)
  BY HeldFacts
<1>2. PICK g \in Nat : /\ g >= 1 /\ g <= End(r)
                       /\ DOMAIN r.stores = g..r.last /\ Held(r) = g..End(r)
  BY HeldFacts
<1>3. End(b) \in Nat /\ End(r) \in Nat
  BY BufferParts DEF End
<1>4. \A w \in Held(r) : w <= End(b) => w \in Held(b)
  BY DEF SameTags
<1>5. f <= g
  BY <1>1, <1>2, <1>3, <1>4
<1>6. ASSUME NEW q \in Held(b) PROVE q \in Nat /\ (q \in Held(r) \/ \A w \in Held(r) : q < w)
  <2>1. q \in Nat /\ q <= End(b) /\ q <= End(r)
    BY <1>1, <1>3
  <2> QED
    BY <1>2, <1>3, <2>1
<1>7. ASSUME NEW w \in Held(r) PROVE w \in Nat /\ (w \in Held(b) \/ \A q \in Held(b) : q < w)
  <2>1. w \in Nat /\ (w <= End(b) => w \in Held(b))
    BY <1>2, <1>4
  <2> QED
    BY <1>1, <1>3, <2>1
<1>8. Held(b) # {}
  BY DEF Held
<1> QED
  BY <1>6, <1>7, <1>8

\* Nothing is left before s, and nothing will be.
LEMMA NoneBefore ==
  ASSUME NEW b \in Buffers(Clock), Sound(b), NEW r \in Buffers(Clock), Sound(r),
         SameTags(b, r), End(b) <= End(r), NEW s \in Nat, \A q \in Held(b) : s <= q
  PROVE  \A w \in Held(r) : s <= w
<1> SUFFICES ASSUME NEW w \in Held(r) PROVE s <= w
  OBVIOUS
<1>1. w \in Nat /\ (w \in Held(b) \/ \A q \in Held(b) : q < w) /\ Held(b) # {}
      /\ \A q \in Held(b) : q \in Nat
  BY HeldAfter
<1>2. PICK q \in Held(b) : TRUE
  BY <1>1
<1>3. CASE w \in Held(b)
  BY <1>3
<1>4. CASE w \notin Held(b)
  <2>1. q < w /\ s <= q /\ q \in Nat
    BY <1>1, <1>2, <1>4
  <2> QED
    BY <1>1, <2>1
<1> QED
  BY <1>3, <1>4

\* What bars a clock stays in the way of it, and of a clock that knows more.
LEMMA BarsStay ==
  ASSUME NEW b \in Buffers(Clock), Sound(b), NEW r \in Buffers(Clock), Sound(r),
         SameTags(b, r), End(b) <= End(r),
         NEW th, NEW th2,
         \A l \in b.loads : Settled(th, l) =>
           Settled(th2, l) /\ (l.at \in Held(r) => l \in r.loads),
         NEW c \in Clock, NEW c2 \in Clock, Leq(c, c2), NEW s \in Nat, Bars(b, th, c, s)
  PROVE  Bars(r, th2, c2, s)
<1>1. CASE \A q \in Held(b) : s <= q
  <2>1. \A q \in Held(r) : s <= q
    BY <1>1, NoneBefore
  <2> QED
    BY <2>1 DEF Bars
<1>2. ASSUME NEW q \in Held(b), q >= s, c[Tag(b, q).tid] >= Tag(b, q).epoch
      PROVE  Bars(r, th2, c2, s)
  <2>1. q \in Nat /\ (q \in Held(r) \/ \A w \in Held(r) : w \in Nat /\ q < w)
    BY HeldAfter
  <2>2. CASE q \in Held(r)
    <3>1. q <= End(b) /\ Tag(b, q).tid \in Tid /\ Tag(b, q).epoch \in Nat
      BY TagFacts
    <3>2. Tag(r, q).tid = Tag(b, q).tid /\ Tag(r, q).epoch = Tag(b, q).epoch
      BY <2>2, <3>1 DEF SameTags
    <3>3. c[Tag(b, q).tid] \in Nat /\ c2[Tag(b, q).tid] \in Nat
          /\ c[Tag(b, q).tid] <= c2[Tag(b, q).tid]
      BY <3>1 DEF Leq, Clock
    <3>4. c2[Tag(r, q).tid] >= Tag(r, q).epoch
      BY <1>2, <3>1, <3>2, <3>3
    <3> QED
      BY <1>2, <2>2, <3>4 DEF Bars
  <2>3. CASE q \notin Held(r)
    <3>1. \A w \in Held(r) : s <= w
      BY <1>2, <2>1, <2>3
    <3> QED
      BY <3>1 DEF Bars
  <2> QED
    BY <2>2, <2>3
<1>3. ASSUME NEW l \in b.loads, l.at >= s, c[l.tid] > l.epoch, Settled(th, l)
      PROVE  Bars(r, th2, c2, s)
  <2>1. l.at \in Held(b) /\ l.tid \in Tid /\ l.epoch \in Nat
    BY BufferParts DEF Sound
  <2>2. l.at \in Nat /\ (l.at \in Held(r) \/ \A w \in Held(r) : w \in Nat /\ l.at < w)
    BY <2>1, HeldAfter
  <2>3. CASE l.at \in Held(r)
    <3>1. l \in r.loads /\ Settled(th2, l)
      BY <1>3, <2>3
    <3>2. c[l.tid] \in Nat /\ c2[l.tid] \in Nat /\ c[l.tid] <= c2[l.tid]
      BY <2>1 DEF Leq, Clock
    <3>3. c2[l.tid] > l.epoch
      BY <1>3, <2>1, <3>2
    <3> QED
      BY <1>3, <3>1, <3>3 DEF Bars
  <2>4. CASE l.at \notin Held(r)
    <3>1. \A w \in Held(r) : s <= w
      BY <1>3, <2>2, <2>4
    <3> QED
      BY <3>1 DEF Bars
  <2> QED
    BY <2>3, <2>4
<1> QED
  BY <1>1, <1>2, <1>3 DEF Bars

\* What becomes of the loads and of the positions.
LEMMA TurnedFacts ==
  ASSUME NEW b \in Buffers(Clock), Sound(b), NEW r \in Buffers(Clock), Sound(r),
         NEW t \in Tid, NEW lr \in Nat, NEW e \in Nat, Turned(b, t, lr, e, r)
  PROVE  /\ \A l \in b.loads : l.at \in Held(r) =>
              l \in r.loads \/ (l.tid = t /\ ~(lr > l.epoch))
         /\ \A l \in r.loads : l \in b.loads \/ (l.tid = t /\ l.epoch = e)
         /\ \A u \in Tid \ {t} :
              /\ r.pos[u] = b.pos[u]
              /\ \/ r.active[u] = b.active[u]
                 \/ r.active[u] = NoLoad /\ b.active[u].at \notin Held(r)
         /\ r.pos[t] >= b.pos[t]
         /\ r = b \/ r.active[t] = NoLoad \/ r.active[t].epoch = e
         /\ \/ r = b \/ r.active[t] # NoLoad
            \/ /\ r.pos[t] = End(r)
               /\ r.prev.tid = t /\ r.prev.epoch = e
<1>1. b.pos \in [Tid -> Nat] /\ \A l \in b.loads : l.tid \in Tid
  BY BufferParts
<1>2. CASE r = b
  <2>1. b.pos[t] \in Nat
    BY <1>1
  <2> QED
    BY <1>2, <2>1
<1>3. ASSUME NEW th \in ThreadStates(Clock), th.tid = t, th.lastRelease = lr, th.epoch = e,
             NEW p \in Held(b), p >= b.pos[t], Moved(b, th, p, r)
      PROVE  /\ \A l \in b.loads : l \in r.loads \/ (l.tid = t /\ ~(lr > l.epoch))
             /\ \A l \in r.loads : l \in b.loads \/ (l.tid = t /\ l.epoch = e)
             /\ \A u \in Tid \ {t} : r.pos[u] = b.pos[u] /\ r.active[u] = b.active[u]
             /\ r.pos[t] >= b.pos[t]
             /\ r.active[t].epoch = e /\ r.active[t] # NoLoad
  <2>1. p >= 1
    BY TagFacts
  <2> QED
    BY <1>3, <2>1 DEF Moved, ActiveLoad, NewLoad, NoLoad
<1>4. ASSUME NEW th \in ThreadStates(Clock), th.tid = t, th.lastRelease = lr, th.epoch = e,
             NEW isSc, Stored(b, th, isSc, r)
      PROVE  /\ \A l \in b.loads : l.at \in Held(r) =>
                  l \in r.loads \/ (l.tid = t /\ ~(lr > l.epoch))
             /\ \A l \in r.loads : l \in b.loads
             /\ \A u \in Tid \ {t} :
                  /\ r.pos[u] = b.pos[u]
                  /\ \/ r.active[u] = b.active[u]
                     \/ r.active[u] = NoLoad /\ b.active[u].at \notin Held(r)
             /\ r.pos[t] >= b.pos[t]
             /\ r.active[t] = NoLoad /\ r.pos[t] = End(r)
             /\ r.prev.tid = t /\ r.prev.epoch = e
  <2>1. End(r) = End(b) + 1 /\ End(b) \in Nat /\ b.pos[t] \in Nat /\ b.pos[t] <= End(b)
    BY <1>1, <1>4, BufferParts DEF Stored, End, Sound
  <2>2. /\ \A l \in b.loads : l.at \in Held(r) =>
             l \in r.loads \/ (l.tid = t /\ ~(lr > l.epoch))
        /\ \A l \in r.loads : l \in b.loads
    BY <1>4 DEF Stored, ActiveLoad
  <2>3. /\ \A u \in Tid \ {t} :
             /\ r.pos[u] = b.pos[u]
             /\ r.active[u] = IF b.active[u].at \in Held(r) THEN b.active[u] ELSE NoLoad
        /\ r.active[t] = NoLoad /\ r.pos[t] = End(r)
        /\ r.prev.tid = t /\ r.prev.epoch = e
    BY <1>4 DEF Stored
  <2> QED
    BY <2>1, <2>2, <2>3
<1> QED
  BY <1>2, <1>3, <1>4 DEF Turned

\* A position stays placed.
LEMMA PlacedStays ==
  ASSUME NEW b \in Buffers(Clock), Sound(b), NEW r \in Buffers(Clock), Sound(r),
         SameTags(b, r), End(b) <= End(r),
         NEW t \in Tid, NEW lr \in Nat, NEW e \in Nat, Turned(b, t, lr, e, r),
         NEW u \in Tid, NEW k \in Nat, NEW k2 \in Nat, k <= k2, u = t => k2 = e,
         Placed(b, u, k)
  PROVE  Placed(r, u, k2)
<1>1. /\ \A w \in Tid \ {t} :
           /\ r.pos[w] = b.pos[w]
           /\ \/ r.active[w] = b.active[w]
              \/ r.active[w] = NoLoad /\ b.active[w].at \notin Held(r)
      /\ \/ r = b \/ r.active[t] # NoLoad
         \/ /\ r.pos[t] = End(r)
            /\ r.prev.tid = t /\ r.prev.epoch = e
  BY TurnedFacts
<1>2. b.pos[u] \in Nat
  BY BufferParts
<1>3. CASE /\ r.pos[u] = b.pos[u]
           /\ \/ r.active[u] = b.active[u]
              \/ r.active[u] = NoLoad /\ b.active[u].at \notin Held(r)
  <2>1. CASE \A q \in Held(b) : b.pos[u] <= q
    <3>1. \A q \in Held(r) : b.pos[u] <= q
      BY <1>2, <2>1, NoneBefore
    <3> QED
      BY <1>3, <3>1 DEF Placed
  <2>2. CASE b.active[u] # NoLoad
    <3>1. ActiveLoad(b, u) \in b.loads /\ b.pos[u] = b.active[u].at
      BY <2>2 DEF Sound, Attached
    <3>2. b.pos[u] \in Held(b)
      BY <3>1 DEF Sound, ActiveLoad
    <3>3. b.pos[u] \in Held(r) \/ \A w \in Held(r) : w \in Nat /\ b.pos[u] < w
      BY <3>2, HeldAfter
    <3>4. CASE r.active[u] = b.active[u]
      BY <2>2, <3>4 DEF Placed
    <3>5. CASE b.active[u].at \notin Held(r)
      <4>1. \A w \in Held(r) : b.pos[u] <= w
        BY <1>2, <3>1, <3>3, <3>5
      <4> QED
        BY <1>3, <4>1 DEF Placed
    <3> QED
      BY <1>3, <3>4, <3>5
  <2>3. CASE b.pos[u] \in Held(b) /\ Tag(b, b.pos[u]).tid = u /\ Tag(b, b.pos[u]).epoch <= k
    <3>1. b.pos[u] \in Held(r) \/ \A w \in Held(r) : w \in Nat /\ b.pos[u] < w
      BY <2>3, HeldAfter
    <3>2. CASE b.pos[u] \in Held(r)
      <4>1. b.pos[u] <= End(b) /\ Tag(b, b.pos[u]).epoch \in Nat
        BY <2>3, TagFacts
      <4>2. Tag(r, b.pos[u]).tid = u /\ Tag(r, b.pos[u]).epoch = Tag(b, b.pos[u]).epoch
        BY <2>3, <3>2, <4>1 DEF SameTags
      <4>3. Tag(r, b.pos[u]).epoch <= k2
        BY <2>3, <4>1, <4>2
      <4> QED
        BY <1>3, <3>2, <4>2, <4>3 DEF Placed
    <3>3. CASE b.pos[u] \notin Held(r)
      <4>1. \A w \in Held(r) : b.pos[u] <= w
        BY <1>2, <3>1, <3>3
      <4> QED
        BY <1>3, <4>1 DEF Placed
    <3> QED
      BY <3>2, <3>3
  <2> QED
    BY <2>1, <2>2, <2>3 DEF Placed
<1>4. CASE u # t
  BY <1>1, <1>3, <1>4
<1>5. CASE u = t
  <2>1. CASE r = b
    BY <1>3, <2>1
  <2>2. CASE r.active[t] # NoLoad
    BY <1>5, <2>2 DEF Placed
  <2>3. CASE r.pos[t] = End(r) /\ r.prev.tid = t /\ r.prev.epoch = e
    BY <1>5, <2>3 DEF Placed, Held, Tag
  <2> QED
    BY <1>1, <2>1, <2>2, <2>3
<1> QED
  BY <1>4, <1>5

\* What the thread t leaves of the buffers and of the threads.
Turns(t) ==
  \A x \in Loc : Turned(loc[x].buf, t, thr[t].lastRelease, thr'[t].epoch, loc'[x].buf)

\* Releases are of epochs just entered, and threads that stopped do not run again.
Goes ==
  \A u \in Tid : thr[u].status # "invalid" =>
    /\ thr'[u].lastRelease = thr[u].lastRelease \/ thr'[u].lastRelease > thr[u].epoch
    /\ thr[u].status \in {"finished", "dead"} => thr'[u].status \in {"finished", "dead"}

\* Settled loads stay, unless their store is gone.
SettledStay ==
  \A x \in Loc : \A l \in loc[x].buf.loads : Settled(thr, l) =>
    Settled(thr', l) /\ (l.at \in Held(loc'[x].buf) => l \in loc'[x].buf.loads)

\* The buffers before and after a step.
LEMMA BuffersTyped ==
  ASSUME GoodInv, GoodInv', TagsStay, EndsGrow
  PROVE  \A x \in Loc :
           /\ loc[x].buf \in Buffers(Clock) /\ Sound(loc[x].buf)
           /\ loc'[x].buf \in Buffers(Clock) /\ Sound(loc'[x].buf)
           /\ SameTags(loc[x].buf, loc'[x].buf) /\ End(loc[x].buf) <= End(loc'[x].buf)
<1>1. ClocksIn(Clock)
  BY GoodTyped
<1>2. ClocksIn(Clock)'
  BY GoodTyped, PTL
<1> QED
  BY <1>1, <1>2 DEF ClocksIn, LocationsIn, SyncVars, TagsStay, EndsGrow

\* Epochs before and after a step.
LEMMA EpochsGrow ==
  ASSUME GoodInv, GoodInv', Kept
  PROVE  \A u \in Tid :
           /\ thr[u].epoch \in Nat /\ thr'[u].epoch \in Nat /\ thr[u].epoch <= thr'[u].epoch
           /\ thr[u].lastRelease \in Nat
           /\ thr[u].status # "invalid" => thr'[u].status # "invalid"
<1> SUFFICES ASSUME NEW u \in Tid
             PROVE  /\ thr[u].epoch \in Nat /\ thr'[u].epoch \in Nat
                    /\ thr[u].epoch <= thr'[u].epoch /\ thr[u].lastRelease \in Nat
                    /\ thr[u].status # "invalid" => thr'[u].status # "invalid"
  OBVIOUS
<1>1. ClocksIn(Clock) /\ HistInv(hist, thr, loc)
  BY GoodTyped
<1>2. ClocksIn(Clock)'
  BY GoodTyped, PTL
<1>3. thr[u].epoch \in Nat /\ thr'[u].epoch \in Nat /\ thr[u].lastRelease \in Nat
  BY <1>1, <1>2 DEF ClocksIn, ThreadsIn, ThreadStates
<1>4. Published(thr, hist.past) /\ Published(thr', hist'.past)
      /\ Extends(thr, hist.past, thr', hist'.past)
  BY <1>1 DEF HistInv, Kept
<1>5. CASE thr[u].status = "invalid"
  BY <1>3, <1>4, <1>5 DEF Published
<1>6. CASE thr[u].status # "invalid"
  BY <1>3, <1>4, <1>6 DEF Extends
<1> QED
  BY <1>5, <1>6

\* A step keeps loads and positions what they should be.
LEMMA StepTurns ==
  ASSUME GoodInv, GoodInv', Kept, TagsStay, EndsGrow, PositionsPlaced, LoadsReached,
         NEW t \in Running, Turns(t), Goes
  PROVE  /\ PositionsPlaced' /\ LoadsReached' /\ SettledStay
         /\ \A u \in Tid, x \in Loc : loc[x].buf.pos[u] <= loc'[x].buf.pos[u]
<1>0. t \in Tid /\ thr[t].status = "running"
  BY DEF Running
<1>1. \A u \in Tid :
        /\ thr[u].epoch \in Nat /\ thr'[u].epoch \in Nat /\ thr[u].epoch <= thr'[u].epoch
        /\ thr[u].lastRelease \in Nat
        /\ thr[u].status # "invalid" => thr'[u].status # "invalid"
  BY EpochsGrow
<1>2. ASSUME NEW x \in Loc
      PROVE  /\ \A u \in Tid : Placed(loc'[x].buf, u, thr'[u].epoch)
             /\ \A l \in loc'[x].buf.loads :
                  thr'[l.tid].status # "invalid" /\ l.epoch <= thr'[l.tid].epoch
             /\ \A u \in Tid : loc'[x].buf.active[u].epoch <= thr'[u].epoch
             /\ \A l \in loc[x].buf.loads : Settled(thr, l) =>
                  Settled(thr', l) /\ (l.at \in Held(loc'[x].buf) => l \in loc'[x].buf.loads)
             /\ \A u \in Tid : loc[x].buf.pos[u] <= loc'[x].buf.pos[u]
  <2>1. PICK b, r, lr, e :
          b = loc[x].buf /\ r = loc'[x].buf /\ lr = thr[t].lastRelease /\ e = thr'[t].epoch
    OBVIOUS
  <2>2. /\ b \in Buffers(Clock) /\ Sound(b) /\ r \in Buffers(Clock) /\ Sound(r)
        /\ SameTags(b, r) /\ End(b) <= End(r)
    BY <2>1, BuffersTyped
  <2>3. lr \in Nat /\ e \in Nat /\ Turned(b, t, lr, e, r)
    BY <1>0, <1>1, <2>1 DEF Turns
  <2>4. /\ \A l \in b.loads : l.at \in Held(r) =>
             l \in r.loads \/ (l.tid = t /\ ~(lr > l.epoch))
        /\ \A l \in r.loads : l \in b.loads \/ (l.tid = t /\ l.epoch = e)
        /\ \A u \in Tid \ {t} :
             /\ r.pos[u] = b.pos[u]
             /\ \/ r.active[u] = b.active[u]
                \/ r.active[u] = NoLoad /\ b.active[u].at \notin Held(r)
        /\ r.pos[t] >= b.pos[t]
        /\ r = b \/ r.active[t] = NoLoad \/ r.active[t].epoch = e
        /\ \/ r = b \/ r.active[t] # NoLoad
           \/ /\ r.pos[t] = End(r)
              /\ r.prev.tid = t /\ r.prev.epoch = e
    BY <1>0, <2>2, <2>3, TurnedFacts
  <2>5. ASSUME NEW u \in Tid PROVE Placed(r, u, thr'[u].epoch)
    <3>1. Placed(b, u, thr[u].epoch)
      BY <2>1 DEF PositionsPlaced
    <3>2. thr[u].epoch \in Nat /\ thr'[u].epoch \in Nat /\ thr[u].epoch <= thr'[u].epoch
          /\ (u = t => thr'[u].epoch = e)
      BY <1>1, <2>1
    <3> QED
      BY <1>0, <2>2, <2>3, <3>1, <3>2, PlacedStays
  <2>6. ASSUME NEW l \in b.loads
        PROVE  /\ l.tid \in Tid /\ l.epoch \in Nat
               /\ thr[l.tid].status # "invalid" /\ l.epoch <= thr[l.tid].epoch
    BY <2>1, <2>2, BufferParts DEF LoadsReached
  <2>7. ASSUME NEW l \in r.loads
        PROVE  thr'[l.tid].status # "invalid" /\ l.epoch <= thr'[l.tid].epoch
    <3>1. CASE l \in b.loads
      BY <1>1, <2>6, <3>1
    <3>2. CASE l \notin b.loads
      <4>1. l.tid = t /\ l.epoch = thr'[t].epoch
        BY <2>1, <2>4, <3>2
      <4> QED
        BY <1>0, <1>1, <4>1
    <3> QED
      BY <3>1, <3>2
  <2>8. ASSUME NEW u \in Tid PROVE r.active[u].epoch <= thr'[u].epoch
    <3>1. b.active[u].epoch <= thr[u].epoch /\ b.active[u].epoch \in Nat
      BY <2>1, <2>2, BufferParts DEF LoadsReached
    <3>2. r.active[u] = b.active[u] \/ r.active[u] = NoLoad \/ r.active[u].epoch = thr'[u].epoch
      BY <2>1, <2>4
    <3>3. NoLoad.epoch = 0
      BY DEF NoLoad
    <3> QED
      BY <1>1, <3>1, <3>2, <3>3
  <2>9. ASSUME NEW l \in b.loads, Settled(thr, l)
        PROVE  Settled(thr', l) /\ (l.at \in Held(r) => l \in r.loads)
    <3>1. /\ l.tid \in Tid /\ l.epoch \in Nat
          /\ thr[l.tid].status # "invalid" /\ l.epoch <= thr[l.tid].epoch
      BY <2>6
    <3>2. Settled(thr', l)
      <4>1. CASE thr[l.tid].lastRelease > l.epoch
        <5>1. thr'[l.tid].lastRelease = thr[l.tid].lastRelease
                \/ thr'[l.tid].lastRelease > thr[l.tid].epoch
          BY <3>1 DEF Goes
        <5>2. CASE thr'[l.tid].lastRelease = thr[l.tid].lastRelease
          BY <4>1, <5>2 DEF Settled
        <5>3. CASE thr'[l.tid].lastRelease > thr[l.tid].epoch
          <6>1. thr'[l.tid].lastRelease \in Nat
            <7>1. ClocksIn(Clock)'
              BY GoodTyped, PTL
            <7> QED
              BY <3>1, <7>1 DEF ClocksIn, ThreadsIn, ThreadStates
          <6>2. thr'[l.tid].lastRelease > l.epoch
            BY <1>1, <3>1, <5>3, <6>1
          <6> QED
            BY <6>2 DEF Settled
        <5> QED
          BY <5>1, <5>2, <5>3
      <4>2. CASE thr[l.tid].status \in {"finished", "dead"}
        BY <3>1, <4>2 DEF Goes, Settled
      <4> QED
        BY <2>9, <4>1, <4>2 DEF Settled
    <3>3. ~(l.tid = t /\ ~(lr > l.epoch))
      BY <1>0, <2>1, <2>9 DEF Settled
    <3> QED
      BY <2>4, <3>2, <3>3
  <2>10. ASSUME NEW u \in Tid PROVE b.pos[u] <= r.pos[u]
    <3>1. b.pos[u] \in Nat /\ r.pos[u] \in Nat
      BY <2>2, BufferParts
    <3>2. r.pos[u] = b.pos[u] \/ r.pos[u] >= b.pos[u]
      BY <2>4
    <3> QED
      BY <3>1, <3>2
  <2> QED
    BY <2>1, <2>5, <2>7, <2>8, <2>9, <2>10
<1> QED
  BY <1>2 DEF PositionsPlaced, LoadsReached, SettledStay

-----------------------------------------------------------------------------
(* What is backed stays backed. *)

\* What bars a clock at a location, before and after a step.
LEMMA BarsKept ==
  ASSUME GoodInv, GoodInv', TagsStay, EndsGrow, SettledStay, NEW x \in Loc,
         NEW c \in Clock, NEW c2 \in Clock, Leq(c, c2), NEW s \in Nat,
         Bars(loc[x].buf, thr, c, s)
  PROVE  Bars(loc'[x].buf, thr', c2, s)
<1>1. PICK b, r, th, th2 : b = loc[x].buf /\ r = loc'[x].buf /\ th = thr /\ th2 = thr'
  OBVIOUS
<1>2. /\ b \in Buffers(Clock) /\ Sound(b) /\ r \in Buffers(Clock) /\ Sound(r)
      /\ SameTags(b, r) /\ End(b) <= End(r)
  BY <1>1, BuffersTyped
<1>3. \A l \in b.loads : Settled(th, l) =>
        Settled(th2, l) /\ (l.at \in Held(r) => l \in r.loads)
  BY <1>1 DEF SettledStay
<1>4. Bars(b, th, c, s)
  BY <1>1
<1>5. Bars(r, th2, c2, s)
  BY <1>2, <1>3, <1>4, BarsStay
<1> QED
  BY <1>1, <1>5

\* A publication stays backed.
LEMMA BackedStays ==
  ASSUME GoodInv, GoodInv', TagsStay, EndsGrow, SettledStay,
         NEW p \in Publications, Backed(loc, thr, p)
  PROVE  Backed(loc', thr', p)
<1> SUFFICES ASSUME NEW x \in Loc
             PROVE  Bars(loc'[x].buf, thr', p.clock, p.view[x].seen)
  BY DEF Backed
<1>1. p.clock \in Clock /\ p.view[x].seen \in Nat
  BY DEF Publications, Views
<1>2. Leq(p.clock, p.clock)
  BY <1>1, LeqOrder
<1>3. Bars(loc[x].buf, thr, p.clock, p.view[x].seen)
  BY DEF Backed
<1> QED
  BY <1>1, <1>2, <1>3, BarsKept

\* The publications of a thread that exists stay.
LEMMA PastStaysAt ==
  ASSUME GoodInv, Kept, NEW u \in Tid, thr[u].status # "invalid",
         NEW k \in Nat, k # 0, k <= thr[u].epoch
  PROVE  hist'.past[u][k] = hist.past[u][k] /\ hist.past[u][k] \in Publications
<1>1. HistoryIn(hist, thr, loc) /\ Extends(thr, hist.past, thr', hist'.past)
  BY GoodTyped DEF Kept
<1>2. hist.past[u] \in Seq(Publications) /\ Len(hist.past[u]) = thr[u].epoch
  BY <1>1 DEF HistoryIn
<1>3. k \in 1..thr[u].epoch
  BY <1>2
<1>4. hist'.past[u][k] = hist.past[u][k]
  BY <1>1, <1>3 DEF Extends
<1> QED
  BY <1>2, <1>3, <1>4

\* What is known of a thread stays backed.
LEMMA KnownStays ==
  ASSUME GoodInv, GoodInv', Kept, TagsStay, EndsGrow, SettledStay,
         NEW u \in Tid, NEW k \in Nat,
         IF thr[u].status = "invalid" THEN k = 0 ELSE k <= thr[u].epoch,
         k = 0 \/ Backed(loc, thr, hist.past[u][k])
  PROVE  k = 0 \/ Backed(loc', thr', hist'.past[u][k])
<1> SUFFICES ASSUME k # 0 PROVE Backed(loc', thr', hist'.past[u][k])
  OBVIOUS
<1>1. hist'.past[u][k] = hist.past[u][k] /\ hist.past[u][k] \in Publications
  BY PastStaysAt
<1>2. PICK p \in Publications : p = hist.past[u][k]
  BY <1>1
<1>3. Backed(loc', thr', p)
  BY <1>2, BackedStays
<1> QED
  BY <1>1, <1>2, <1>3

\* The backed clocks of a state are backed after the step.
LEMMA BackedGrow ==
  ASSUME GoodInv, GoodInv', Kept, TagsStay, EndsGrow, SettledStay
  PROVE  BackedClocks(thr, loc, hist.past) \subseteq BackedClocks(thr', loc', hist'.past)
<1> SUFFICES ASSUME NEW c \in BackedClocks(thr, loc, hist.past)
             PROVE  c \in BackedClocks(thr', loc', hist'.past)
  OBVIOUS
<1>1. /\ c \in GoodClocks(thr, hist.past)
      /\ \A u \in Tid : c[u] = 0 \/ Backed(loc, thr, hist.past[u][c[u]])
  BY DEF BackedClocks
<1>2. PastIn(thr, hist.past) /\ PastIn(thr', hist'.past)
  BY HistoryPast DEF GoodInv, Kept
<1>3. c \in GoodClocks(thr', hist'.past)
  BY <1>1, <1>2, GoodStays DEF Kept
<1>4. ASSUME NEW u \in Tid PROVE c[u] = 0 \/ Backed(loc', thr', hist'.past[u][c[u]])
  <2>1. PICK k : k = c[u]
    OBVIOUS
  <2>2. /\ k \in Nat
        /\ IF thr[u].status = "invalid" THEN k = 0 ELSE k <= thr[u].epoch
        /\ k = 0 \/ Backed(loc, thr, hist.past[u][k])
    BY <1>1, <2>1 DEF GoodClocks, Reached, Clock
  <2>3. k = 0 \/ Backed(loc', thr', hist'.past[u][k])
    BY <2>2, KnownStays
  <2> QED
    BY <2>1, <2>3
<1> QED
  BY <1>3, <1>4 DEF BackedClocks

\* They are a lattice.
LEMMA BackedLattice ==
  ASSUME NEW th, NEW l, NEW past, PastIn(th, past)
  PROVE  Lattice(BackedClocks(th, l, past))
<1> DEFINE G == GoodClocks(th, past)
           B == BackedClocks(th, l, past)
<1>1. Lattice(G)
  BY GoodLattice
<1>2. B \subseteq Clock
  BY <1>1 DEF Lattice, BackedClocks
<1>3. Zero \in B
  <2>1. \A u \in Tid : Zero[u] = 0
    BY DEF Zero
  <2> QED
    BY <1>1, <2>1 DEF Lattice, BackedClocks
<1>4. ASSUME NEW a \in B, NEW b \in B PROVE Join(a, b) \in B
  <2>1. a \in G /\ b \in G /\ Join(a, b) \in G
    BY <1>1 DEF Lattice, BackedClocks
  <2>2. \A u \in Tid : Join(a, b)[u] = a[u] \/ Join(a, b)[u] = b[u]
    BY DEF Join
  <2>3. /\ \A u \in Tid : a[u] = 0 \/ Backed(l, th, past[u][a[u]])
        /\ \A u \in Tid : b[u] = 0 \/ Backed(l, th, past[u][b[u]])
    BY DEF BackedClocks
  <2>4. PICK j : j = Join(a, b)
    OBVIOUS
  <2>5. ASSUME NEW u \in Tid PROVE j[u] = 0 \/ Backed(l, th, past[u][j[u]])
    <3>1. CASE j[u] = a[u]
      <4>1. a[u] = 0 \/ Backed(l, th, past[u][a[u]])
        BY <2>3
      <4> QED
        BY <3>1, <4>1
    <3>2. CASE j[u] = b[u]
      <4>1. b[u] = 0 \/ Backed(l, th, past[u][b[u]])
        BY <2>3
      <4> QED
        BY <3>2, <4>1
    <3> QED
      BY <2>2, <2>4, <3>1, <3>2
  <2> QED
    BY <2>1, <2>4, <2>5 DEF BackedClocks
<1> QED
  BY <1>2, <1>3, <1>4 DEF Lattice

\* More clocks.
LEMMA SharesInMore ==
  ASSUME NEW G, NEW H, G \subseteq H, SharesIn(G)
  PROVE  SharesIn(H)
<1>1. ThreadStates(G) \subseteq ThreadStates(H)
  BY DEF ThreadStates
<1>2. StoreElems(G) \subseteq StoreElems(H)
  BY DEF StoreElems
<1>3. Buffers(G) \subseteq Buffers(H)
  <2> SUFFICES ASSUME NEW b \in Buffers(G) PROVE b \in Buffers(H)
    OBVIOUS
  <2>1. PICK S \in SUBSET Nat : b.stores \in [S -> StoreElems(G)]
    BY DEF Buffers
  <2>2. b.stores \in [S -> StoreElems(H)]
    BY <1>2, <2>1
  <2>3. b.stores \in UNION {[T -> StoreElems(H)] : T \in SUBSET Nat}
    BY <2>2
  <2> QED
    BY <2>3 DEF Buffers
<1>4. SyncClocks(G) \subseteq SyncClocks(H)
  BY DEF SyncClocks, Vvcs
<1>5. SyncVars(G) \subseteq SyncVars(H)
  BY <1>3, <1>4 DEF SyncVars
<1>6. LocationsIn(H)
  BY <1>5 DEF SharesIn, LocationsIn
<1>7. MutexIn(H)
  BY DEF SharesIn, MutexIn
<1> QED
  BY <1>1, <1>6, <1>7 DEF SharesIn

-----------------------------------------------------------------------------
(* What threads share, step by step. *)

\* Of the others, t learns what a clock of G knows.
AcquiresFrom(G, t) ==
  \E d \in G : \A u \in Tid \ {t} :
    thr'[t].clock[u] = thr[t].clock[u] \/ thr'[t].clock[u] = d[u]

\* A clock that t stamps.
LEMMA FromStamp ==
  ASSUME NEW G, Lattice(G), NEW t \in Tid, thr[t].clock \in Clock, NEW e \in Nat,
         thr'[t].clock = thr[t].clock \/ thr'[t].clock = Raised(thr[t].clock, t, e)
  PROVE  AcquiresFrom(G, t)
<1>1. \A u \in Tid \ {t} : Raised(thr[t].clock, t, e)[u] = thr[t].clock[u]
  BY DEF Raised, Clock
<1>2. \A u \in Tid \ {t} : thr'[t].clock[u] = thr[t].clock[u]
  BY <1>1
<1>3. Zero \in G
  BY DEF Lattice
<1> QED
  BY <1>2, <1>3 DEF AcquiresFrom

\* A clock that t stamps and joins with one of G.
LEMMA FromJoin ==
  ASSUME NEW G, NEW t \in Tid, thr[t].clock \in Clock, NEW e \in Nat, NEW d \in G,
         thr'[t].clock = Join(Raised(thr[t].clock, t, e), d)
  PROVE  AcquiresFrom(G, t)
<1>1. \A u \in Tid \ {t} : Raised(thr[t].clock, t, e)[u] = thr[t].clock[u]
  BY DEF Raised, Clock
<1>2. PICK k : k = Raised(thr[t].clock, t, e)
  OBVIOUS
<1>3. \A u \in Tid : Join(k, d)[u] = k[u] \/ Join(k, d)[u] = d[u]
  BY DEF Join
<1>4. \A u \in Tid \ {t} : thr'[t].clock[u] = thr[t].clock[u] \/ thr'[t].clock[u] = d[u]
  BY <1>1, <1>2, <1>3
<1> QED
  BY <1>4 DEF AcquiresFrom

\* A running thread of a state in which threads share clocks of G.
LEMMA SharedThread ==
  ASSUME NEW G, SharesIn(G), ClocksIn(Clock), NEW t \in Running
  PROVE  /\ t \in Tid /\ thr[t] \in ThreadStates(G) /\ thr[t].tid = t
         /\ thr[t].status = "running" /\ thr[t].epoch \in Nat /\ thr[t].epoch + 1 \in Nat
         /\ thr[t].clock \in Clock /\ thr[t].frel \in G /\ thr[t].facq \in G
         /\ ctx.sfence \in Clock /\ ctx.swrite \in Clock
         /\ LocationsIn(G) /\ MutexIn(G)
<1>1. /\ t \in Tid /\ thr[t] \in ThreadStates(G) /\ thr[t].tid = t
      /\ thr[t].status = "running" /\ LocationsIn(G) /\ MutexIn(G)
  BY DEF Running, SharesIn
<1>2. /\ thr[t].epoch \in Nat /\ thr[t].clock \in Clock
      /\ thr[t].frel \in G /\ thr[t].facq \in G
  BY <1>1, ThreadParts
<1>3. ctx.sfence \in Clock /\ ctx.swrite \in Clock
  BY DEF ClocksIn
<1> QED
  BY <1>1, <1>2, <1>3

\* A location of such a state.
LEMMA SharedLocation ==
  ASSUME NEW G, LocationsIn(G), NEW x \in Loc
  PROVE  /\ loc[x].sync \in SyncClocks(G) /\ loc[x].sync.clk \in G
         /\ loc[x].buf \in Buffers(G) /\ Sound(loc[x].buf)
<1>1. loc[x] \in SyncVars(G) /\ Sound(loc[x].buf)
  BY DEF LocationsIn
<1>2. loc[x].sync \in SyncClocks(G) /\ loc[x].buf \in Buffers(G)
  BY <1>1 DEF SyncVars
<1> QED
  BY <1>1, <1>2, SyncClocksParts

\* A step that gives thread t the state th.
LEMMA SharedSet ==
  ASSUME NEW G, SharesIn(G), NEW t \in Tid, NEW th \in ThreadStates(G), th.tid = t,
         th.status = "finished" => th.clock \in G, thr' = [thr EXCEPT ![t] = th],
         LocationsIn(G)', MutexIn(G)'
  PROVE  SharesIn(G)'
<1>1. thr' \in [Tid -> ThreadStates(G)]
  BY DEF SharesIn
<1>2. \A u \in Tid : thr'[u].tid = u /\ (thr'[u].status = "finished" => thr'[u].clock \in G)
  BY DEF SharesIn
<1> QED
  BY <1>1, <1>2 DEF SharesIn

\* AtomicLoad.
LEMMA LoadShares ==
  ASSUME NEW G, Lattice(G), SharesIn(G), ClocksIn(Clock), NEW t \in Running, NEW x \in Loc,
         NEW mo, NEW p, LoadAt(t, x, mo, p)
  PROVE  AcquiresFrom(G, t) /\ SharesIn(G)'
<1> DEFINE c == ClockAt(x, p)
<1>1. /\ t \in Tid /\ thr[t] \in ThreadStates(G) /\ thr[t].tid = t
      /\ thr[t].status = "running" /\ thr[t].epoch \in Nat /\ thr[t].epoch + 1 \in Nat
      /\ thr[t].clock \in Clock /\ thr[t].frel \in G /\ thr[t].facq \in G
      /\ ctx.sfence \in Clock /\ ctx.swrite \in Clock
      /\ LocationsIn(G) /\ MutexIn(G)
  BY SharedThread
<1>2. PICK th, done : /\ th = ScReads(thr[t], mo)
                      /\ done = IF IsAcquireOrder(mo) THEN Acquire(th, c)
                                                      ELSE NonAcquireLoad(th, c)
  OBVIOUS
<1>3. /\ thr' = [thr EXCEPT ![t] = done] /\ loc' = [loc EXCEPT ![x].buf = FetchStore(@, th, p)]
      /\ mutex' = mutex
  BY <1>2 DEF LoadAt
<1>4. th \in ThreadStates(G) /\ th.tid = t /\ th.status = "running"
      /\ th.epoch = thr[t].epoch /\ th.clock = thr[t].clock
  BY <1>1, <1>2, ScReadsFacts
<1>5. PICK b, r : b = loc[x].buf /\ r = FetchStore(b, th, p)
  OBVIOUS
<1>6. b \in Buffers(G) /\ Sound(b) /\ loc[x].sync.clk \in G
  BY <1>1, <1>5, SharedLocation
<1>7. p \in Held(b)
  <2>1. /\ NewThread(t, "running", thr[t].epoch, thr[t].lastRelease, thr[t].slimit,
                     thr[t].swrite, ScReads(thr[t], mo).sread)
        /\ Acquires(Clock, t, thr[t].epoch)
        /\ NewLocation(x, loc[x].sync, FetchStore(loc[x].buf, ScReads(thr[t], mo), p))
        /\ p \in Held(loc[x].buf)
        /\ thr'[t].clock \in Clock => ClocksIn(Clock)'
    BY LoadStep, ClockLattice
  <2> QED
    BY <1>5, <2>1
<1>8. c \in G
  <2>1. CASE p = End(b)
    BY <1>5, <1>6, <2>1 DEF ClockAt
  <2>2. CASE p # End(b)
    <3>1. b.stores[p] \in StoreElems(G)
      BY <1>6, <1>7, <2>2, BufferParts DEF Held
    <3> QED
      BY <1>5, <2>2, <3>1 DEF ClockAt, StoreElems
  <2> QED
    BY <2>1, <2>2
<1>9. r \in Buffers(G) /\ Sound(r)
  BY <1>4, <1>5, <1>6, <1>7, FetchStoreFacts
<1>10. loc' = [loc EXCEPT ![x].buf = r]
  BY <1>3, <1>5
<1>11. LocationsIn(G)'
  BY <1>1, <1>9, <1>10, BufferSet
<1> HIDE DEF c
<1>12. /\ done \in ThreadStates(G) /\ done.tid = th.tid /\ done.status = th.status
       /\ done.epoch = th.epoch /\ done.lastRelease = th.lastRelease /\ done.frel = th.frel
       /\ done.slimit = th.slimit /\ done.swrite = th.swrite /\ done.sread = th.sread
       /\ \E d \in G : done.clock = Join(Raised(th.clock, th.tid, th.epoch), d)
  BY <1>2, <1>4, <1>8, ReadFacts
<1>13. thr'[t] = done
  BY <1>1, <1>3 DEF SharesIn
<1>14. AcquiresFrom(G, t)
  <2>1. PICK d \in G : done.clock = Join(Raised(th.clock, th.tid, th.epoch), d)
    BY <1>12
  <2>2. thr'[t].clock = Join(Raised(thr[t].clock, t, thr[t].epoch), d)
    BY <1>4, <1>13, <2>1
  <2> QED
    BY <1>1, <2>2, FromJoin
<1>15. done.status # "finished" /\ done.tid = t
  BY <1>4, <1>12
<1>16. MutexIn(G)'
  BY <1>1, <1>3 DEF MutexIn
<1>17. SharesIn(G)'
  BY <1>1, <1>3, <1>11, <1>12, <1>15, <1>16, SharedSet
<1> QED
  BY <1>14, <1>17

\* AtomicStore. It shares the clock of t if it releases.
LEMMA StoreShares ==
  ASSUME NEW G, Lattice(G), SharesIn(G), ClocksIn(Clock), NEW t \in Running, NEW x \in Loc,
         NEW mo, Store(t, x, mo)
  PROVE  /\ AcquiresFrom(G, t)
         /\ (IsReleaseOrder(mo) => thr'[t].clock \in G) => SharesIn(G)'
<1>1. /\ t \in Tid /\ thr[t] \in ThreadStates(G) /\ thr[t].tid = t
      /\ thr[t].status = "running" /\ thr[t].epoch \in Nat /\ thr[t].epoch + 1 \in Nat
      /\ thr[t].clock \in Clock /\ thr[t].frel \in G /\ thr[t].facq \in G
      /\ ctx.sfence \in Clock /\ ctx.swrite \in Clock
      /\ LocationsIn(G) /\ MutexIn(G)
  BY SharedThread
<1>2. PICK th, done, isSc : /\ th = Stamped(Ticked(thr[t])) /\ done = Released(th, mo)
                            /\ isSc = (mo = "seq_cst")
  OBVIOUS
<1>3. PICK s, r : /\ s = IF IsReleaseOrder(mo)
                         THEN ReleaseStore(t, th.clock)
                         ELSE NonReleaseStore2(NonReleaseStore(loc[x].sync, t), t, th.frel)
                  /\ r = Buffered(x, th, mo)
  OBVIOUS
<1>4. PICK v : v = [sync |-> s, buf |-> r]
  OBVIOUS
<1>5. thr' = [thr EXCEPT ![t] = done] /\ loc' = [loc EXCEPT ![x] = v] /\ mutex' = mutex
  BY <1>2, <1>3, <1>4 DEF Store
<1>6. /\ th \in ThreadStates(G) /\ th.tid = t /\ th.status = "running"
      /\ th.epoch = thr[t].epoch + 1 /\ th.clock = Raised(thr[t].clock, t, thr[t].epoch + 1)
      /\ th.frel \in G
  BY <1>1, <1>2, NextEpochFacts
<1>7. done \in ThreadStates(G) /\ done.tid = t /\ done.status = "running"
      /\ done.clock = th.clock
  BY <1>2, <1>6, ReleasedFacts
<1>8. /\ loc[x].sync \in SyncClocks(G) /\ loc[x].sync.clk \in G
      /\ loc[x].buf \in Buffers(G) /\ Sound(loc[x].buf)
  BY <1>1, SharedLocation
<1>9. r \in Buffers(G) /\ Sound(r)
  <2>1. r = BufferStore(loc[x].buf, th, loc[x].sync.clk, isSc) /\ isSc \in BOOLEAN
    BY <1>2, <1>3 DEF Buffered
  <2> QED
    BY <1>6, <1>8, <2>1, BufferStoreSound
<1>10. thr'[t] = done
  BY <1>1, <1>5 DEF SharesIn
<1>11. AcquiresFrom(G, t)
  BY <1>1, <1>6, <1>7, <1>10, FromStamp
<1>12. ASSUME IsReleaseOrder(mo) => thr'[t].clock \in G PROVE SharesIn(G)'
  <2>1. s \in SyncClocks(G)
    <3>1. CASE IsReleaseOrder(mo)
      <4>1. th.clock \in G /\ s = ReleaseStore(t, th.clock)
        BY <1>3, <1>7, <1>10, <1>12, <3>1
      <4> QED
        BY <1>1, <4>1, ReleaseStoreIn
    <3>2. CASE ~IsReleaseOrder(mo)
      BY <1>1, <1>3, <1>6, <1>8, <3>2, PlainStoreIn
    <3> QED
      BY <3>1, <3>2
  <2>2. v \in SyncVars(G) /\ Sound(v.buf)
    BY <1>4, <1>9, <2>1 DEF SyncVars
  <2>3. LocationsIn(G)'
    BY <1>1, <1>5, <2>2, LocationSet
  <2>4. MutexIn(G)'
    BY <1>1, <1>5 DEF MutexIn
  <2>5. done.status # "finished"
    BY <1>7
  <2> QED
    BY <1>1, <1>5, <1>7, <2>3, <2>4, <2>5, SharedSet
<1> QED
  BY <1>11, <1>12

\* AtomicRMW. It shares the clock of t if it releases.
LEMMA RmwShares ==
  ASSUME NEW G, Lattice(G), SharesIn(G), ClocksIn(Clock), NEW t \in Running, NEW x \in Loc,
         NEW mo, NEW keep \in BOOLEAN, Rmw(t, x, mo, keep)
  PROVE  /\ AcquiresFrom(G, t)
         /\ (IsReleaseOrder(mo) => thr'[t].clock \in G) => SharesIn(G)'
<1>1. /\ t \in Tid /\ thr[t] \in ThreadStates(G) /\ thr[t].tid = t
      /\ thr[t].status = "running" /\ thr[t].epoch \in Nat /\ thr[t].epoch + 1 \in Nat
      /\ thr[t].clock \in Clock /\ thr[t].frel \in G /\ thr[t].facq \in G
      /\ ctx.sfence \in Clock /\ ctx.swrite \in Clock
      /\ LocationsIn(G) /\ MutexIn(G)
  BY SharedThread
<1>2. PICK st, th, d, isSc, rel : /\ st = Stamped(Ticked(thr[t])) /\ th = ScReads(st, mo)
                                  /\ d = loc[x].sync /\ isSc = (mo = "seq_cst")
                                  /\ rel = IsReleaseOrder(mo)
  OBVIOUS
<1>3. PICK c : c = d.clk
  OBVIOUS
<1>4. PICK rd : rd = IF IsAcquireOrder(mo) THEN Acquire(th, c) ELSE NonAcquireLoad(th, c)
  OBVIOUS
<1>5. PICK s, r, done : /\ s = RmwSync(d, t, rd.clock, th.frel, rel, keep)
                        /\ r = Buffered(x, th, mo) /\ done = Released(rd, mo)
  OBVIOUS
<1>6. PICK v : v = [sync |-> s, buf |-> r]
  OBVIOUS
<1>7. thr' = [thr EXCEPT ![t] = done] /\ loc' = [loc EXCEPT ![x] = v] /\ mutex' = mutex
  BY <1>2, <1>3, <1>4, <1>5, <1>6 DEF Rmw
<1>8. /\ st \in ThreadStates(G) /\ st.tid = t /\ st.status = "running"
      /\ st.epoch = thr[t].epoch + 1 /\ st.clock = Raised(thr[t].clock, t, thr[t].epoch + 1)
  BY <1>1, <1>2, NextEpochFacts
<1>9. /\ th \in ThreadStates(G) /\ th.tid = t /\ th.status = "running"
      /\ th.epoch = thr[t].epoch + 1 /\ th.clock = Raised(thr[t].clock, t, thr[t].epoch + 1)
      /\ th.frel \in G
  <2>1. /\ th \in ThreadStates(G) /\ th.tid = t /\ th.status = "running"
        /\ th.epoch = thr[t].epoch + 1 /\ th.clock = Raised(thr[t].clock, t, thr[t].epoch + 1)
    BY <1>1, <1>2, <1>8, ScReadsFacts
  <2> QED
    BY <2>1, ThreadParts
<1>10. /\ d \in SyncClocks(G) /\ c \in G
       /\ loc[x].buf \in Buffers(G) /\ Sound(loc[x].buf)
  BY <1>1, <1>2, <1>3, SharedLocation
<1>11. r \in Buffers(G) /\ Sound(r)
  <2>1. r = BufferStore(loc[x].buf, th, c, isSc) /\ isSc \in BOOLEAN
    BY <1>2, <1>3, <1>5 DEF Buffered
  <2> QED
    BY <1>9, <1>10, <2>1, BufferStoreSound
<1>12. /\ rd \in ThreadStates(G) /\ rd.tid = th.tid /\ rd.status = th.status
       /\ rd.epoch = th.epoch /\ rd.lastRelease = th.lastRelease /\ rd.frel = th.frel
       /\ rd.slimit = th.slimit /\ rd.swrite = th.swrite /\ rd.sread = th.sread
       /\ \E k \in G : rd.clock = Join(Raised(th.clock, th.tid, th.epoch), k)
  <2>1. th \in ThreadStates(G) /\ c \in G
    BY <1>9, <1>10
  <2> QED
    BY <1>4, <2>1, ReadFacts
<1>13. done \in ThreadStates(G) /\ done.tid = t /\ done.status = "running"
       /\ done.clock = rd.clock
  BY <1>5, <1>9, <1>12, ReleasedFacts
<1>14. thr'[t] = done
  BY <1>1, <1>7 DEF SharesIn
<1>15. AcquiresFrom(G, t)
  <2>1. PICK k \in G : rd.clock = Join(Raised(th.clock, th.tid, th.epoch), k)
    BY <1>12
  <2>2. Raised(th.clock, th.tid, th.epoch) = Raised(thr[t].clock, t, thr[t].epoch + 1)
    BY <1>1, <1>9, RaisedTwice
  <2>3. thr'[t].clock = Join(Raised(thr[t].clock, t, thr[t].epoch + 1), k)
    BY <1>13, <1>14, <2>1, <2>2
  <2> QED
    BY <1>1, <2>3, FromJoin
<1>16. ASSUME IsReleaseOrder(mo) => thr'[t].clock \in G PROVE SharesIn(G)'
  <2>1. s \in SyncClocks(G)
    <3>1. rel \in BOOLEAN
      BY <1>2 DEF IsReleaseOrder
    <3>2. CASE rel
      <4>1. rd.clock \in G
        BY <1>2, <1>13, <1>14, <1>16, <3>2
      <4> QED
        BY <1>1, <1>5, <1>9, <1>10, <3>1, <4>1, RmwSyncIn
    <3>3. CASE ~rel
      <4>1. RmwSync(d, t, rd.clock, th.frel, rel, keep) = RmwSync(d, t, Zero, th.frel, rel, keep)
        BY <3>3 DEF RmwSync
      <4>2. Zero \in G
        BY DEF Lattice
      <4>3. RmwSync(d, t, Zero, th.frel, rel, keep) \in SyncClocks(G)
        BY <1>1, <1>9, <1>10, <3>1, <4>2, RmwSyncIn
      <4> QED
        BY <1>5, <4>1, <4>3
    <3> QED
      BY <3>1, <3>2, <3>3
  <2>2. v \in SyncVars(G) /\ Sound(v.buf)
    BY <1>6, <1>11, <2>1 DEF SyncVars
  <2>3. LocationsIn(G)'
    BY <1>1, <1>7, <2>2, LocationSet
  <2>4. MutexIn(G)'
    BY <1>1, <1>7 DEF MutexIn
  <2>5. done.status # "finished"
    BY <1>13
  <2> QED
    BY <1>1, <1>7, <1>13, <2>3, <2>4, <2>5, SharedSet
<1> QED
  BY <1>15, <1>16

\* AtomicCAS that succeeds with mo_relaxed: the buffer alone changes.
LEMMA CasRelaxedShares ==
  ASSUME NEW G, Lattice(G), SharesIn(G), ClocksIn(Clock), NEW t \in Running, NEW x \in Loc,
         CasRelaxed(t, x)
  PROVE  AcquiresFrom(G, t) /\ SharesIn(G)'
<1>1. /\ t \in Tid /\ thr[t] \in ThreadStates(G) /\ thr[t].tid = t
      /\ thr[t].status = "running" /\ thr[t].epoch \in Nat /\ thr[t].epoch + 1 \in Nat
      /\ thr[t].clock \in Clock /\ thr[t].frel \in G /\ thr[t].facq \in G
      /\ ctx.sfence \in Clock /\ ctx.swrite \in Clock
      /\ LocationsIn(G) /\ MutexIn(G)
  BY SharedThread
<1>2. PICK th, r, isSc : /\ th = Ticked(thr[t]) /\ r = Buffered(x, th, "relaxed")
                         /\ isSc = ("relaxed" = "seq_cst")
  OBVIOUS
<1>3. thr' = [thr EXCEPT ![t] = th] /\ loc' = [loc EXCEPT ![x].buf = r] /\ mutex' = mutex
  BY <1>2 DEF CasRelaxed
<1>4. th \in ThreadStates(G) /\ th.tid = t /\ th.status = "running" /\ th.clock = thr[t].clock
  BY <1>1, <1>2, TickedFacts
<1>5. /\ loc[x].sync \in SyncClocks(G) /\ loc[x].sync.clk \in G
      /\ loc[x].buf \in Buffers(G) /\ Sound(loc[x].buf)
  BY <1>1, SharedLocation
<1>6. r \in Buffers(G) /\ Sound(r)
  <2>1. r = BufferStore(loc[x].buf, th, loc[x].sync.clk, isSc) /\ isSc \in BOOLEAN
    BY <1>2 DEF Buffered
  <2> QED
    BY <1>4, <1>5, <2>1, BufferStoreSound
<1>7. thr'[t] = th
  BY <1>1, <1>3 DEF SharesIn
<1>8. AcquiresFrom(G, t)
  BY <1>1, <1>4, <1>7, FromStamp
<1>9. LocationsIn(G)'
  BY <1>1, <1>3, <1>6, BufferSet
<1>10. MutexIn(G)' /\ th.status # "finished"
  BY <1>1, <1>3, <1>4 DEF MutexIn
<1>11. SharesIn(G)'
  BY <1>1, <1>3, <1>4, <1>9, <1>10, SharedSet
<1> QED
  BY <1>8, <1>11

\* AtomicCAS that fails.
LEMMA CasFailShares ==
  ASSUME NEW G, Lattice(G), SharesIn(G), ClocksIn(Clock), NEW t \in Running, NEW x \in Loc,
         NEW fmo, CasFail(t, x, fmo)
  PROVE  AcquiresFrom(G, t) /\ SharesIn(G)'
<1>1. /\ t \in Tid /\ thr[t] \in ThreadStates(G) /\ thr[t].tid = t
      /\ thr[t].status = "running" /\ thr[t].epoch \in Nat /\ thr[t].epoch + 1 \in Nat
      /\ thr[t].clock \in Clock /\ thr[t].frel \in G /\ thr[t].facq \in G
      /\ ctx.sfence \in Clock /\ ctx.swrite \in Clock
      /\ LocationsIn(G) /\ MutexIn(G)
  BY SharedThread
<1>2. PICK k, th, c : k = Ticked(thr[t]) /\ th = ScReads(k, fmo) /\ c = loc[x].sync.clk
  OBVIOUS
<1>3. PICK done, r : /\ done = IF IsAcquireOrder(fmo) THEN Acquire(th, c) ELSE th
                     /\ r = AdvanceToEnd(loc[x].buf, th)
  OBVIOUS
<1>4. thr' = [thr EXCEPT ![t] = done] /\ loc' = [loc EXCEPT ![x].buf = r] /\ mutex' = mutex
  BY <1>2, <1>3 DEF CasFail
<1>5. k \in ThreadStates(G) /\ k.tid = t /\ k.status = "running" /\ k.clock = thr[t].clock
      /\ k.epoch = thr[t].epoch + 1
  BY <1>1, <1>2, TickedFacts
<1>6. th \in ThreadStates(G) /\ th.tid = t /\ th.status = "running" /\ th.clock = thr[t].clock
      /\ th.epoch = thr[t].epoch + 1
  BY <1>1, <1>2, <1>5, ScReadsFacts
<1>7. /\ loc[x].sync \in SyncClocks(G) /\ c \in G
      /\ loc[x].buf \in Buffers(G) /\ Sound(loc[x].buf)
  BY <1>1, <1>2, SharedLocation
<1>8. r \in Buffers(G) /\ Sound(r)
  BY <1>3, <1>6, <1>7, AdvanceToEndFacts
<1>9. thr'[t] = done
  BY <1>1, <1>4 DEF SharesIn
<1>10. done \in ThreadStates(G) /\ done.tid = t /\ done.status = "running" /\ AcquiresFrom(G, t)
  <2>1. CASE IsAcquireOrder(fmo)
    <3>1. done = Acquire(th, c) /\ c \in Clock
      BY <1>3, <1>7, <2>1 DEF Lattice
    <3>2. /\ done \in ThreadStates(G) /\ done.tid = t /\ done.status = "running"
          /\ done.clock = Join(Raised(thr[t].clock, t, thr[t].epoch + 1), c)
      BY <1>6, <3>1, AcquireFacts
    <3>3. thr'[t].clock = Join(Raised(thr[t].clock, t, thr[t].epoch + 1), c)
      BY <1>9, <3>2
    <3>4. AcquiresFrom(G, t)
      BY <1>1, <1>7, <3>3, FromJoin
    <3> QED
      BY <3>2, <3>4
  <2>2. CASE ~IsAcquireOrder(fmo)
    <3>1. done = th
      BY <1>3, <2>2
    <3>2. AcquiresFrom(G, t)
      BY <1>1, <1>6, <1>9, <3>1, FromStamp
    <3> QED
      BY <1>6, <3>1, <3>2
  <2> QED
    BY <2>1, <2>2
<1>11. LocationsIn(G)'
  BY <1>1, <1>4, <1>8, BufferSet
<1>12. MutexIn(G)' /\ done.status # "finished"
  BY <1>1, <1>4, <1>10 DEF MutexIn
<1>13. SharesIn(G)'
  BY <1>1, <1>4, <1>10, <1>11, <1>12, SharedSet
<1> QED
  BY <1>10, <1>13

\* AtomicFence. A release fence shares the clock that it stamps.
LEMMA FenceShares ==
  ASSUME NEW G, Lattice(G), SharesIn(G), ClocksIn(Clock), NEW t \in Running, NEW mo,
         Fence(t, mo), NEW e, e = thr[t].epoch + 1
  PROVE  /\ AcquiresFrom(G, t)
         /\ (IsReleaseOrder(mo) => Raised(thr[t].clock, t, e) \in G) => SharesIn(G)'
<1>1. /\ t \in Tid /\ thr[t] \in ThreadStates(G) /\ thr[t].tid = t
      /\ thr[t].status = "running" /\ thr[t].epoch \in Nat /\ thr[t].epoch + 1 \in Nat
      /\ thr[t].clock \in Clock /\ thr[t].frel \in G /\ thr[t].facq \in G
      /\ ctx.sfence \in Clock /\ ctx.swrite \in Clock
      /\ LocationsIn(G) /\ MutexIn(G)
  BY SharedThread
<1>2. thr[t] \in ThreadStates(Clock)
  BY <1>1 DEF ThreadStates, Lattice
<1> DEFINE isSc == mo = "seq_cst"
           f == IF isSc THEN Raised(ctx.sfence, t, e) ELSE ctx.sfence
           st == Stamped(Ticked(thr[t]))
           th == Released(st, mo)
           sc == IF isSc THEN SCFence(th, f) ELSE th
           rel == IF IsReleaseOrder(mo) THEN [sc EXCEPT !.frel = Join(@, sc.clock)] ELSE sc
           acq == IF IsLoadOrder(mo) THEN Acquire(rel, rel.facq) ELSE rel
<1>9. /\ st \in ThreadStates(Clock) /\ st.tid = t /\ st.status = "running"
      /\ st.epoch = e /\ st.clock = Raised(thr[t].clock, t, e)
      /\ st.frel = thr[t].frel /\ st.facq = thr[t].facq
  BY <1>1, <1>2, NextEpochFacts
<1>3. th = Released(st, mo)
  OBVIOUS
<1> HIDE DEF st
<1>10. /\ th \in ThreadStates(Clock) /\ th.tid = t /\ th.status = "running"
       /\ th.epoch = e /\ th.clock = Raised(thr[t].clock, t, e)
       /\ th.frel = thr[t].frel /\ th.facq = thr[t].facq
  BY <1>3, <1>9, ReleasedFacts
<1>4. IF isSc THEN [ctx.sfence EXCEPT ![t] = th.epoch] = f ELSE ctx.sfence = f
  BY <1>10 DEF Raised
<1>8. thr' = [thr EXCEPT ![t] = acq] /\ loc' = loc /\ mutex' = mutex
  <2> DEFINE sfence == IF isSc THEN [ctx.sfence EXCEPT ![t] = th.epoch] ELSE ctx.sfence
             sc2 == IF isSc THEN SCFence(th, sfence) ELSE th
             rel2 == IF IsReleaseOrder(mo) THEN [sc2 EXCEPT !.frel = Join(@, sc2.clock)] ELSE sc2
             acq2 == IF IsLoadOrder(mo) THEN Acquire(rel2, rel2.facq) ELSE rel2
  <2>1. thr' = [thr EXCEPT ![t] = acq2] /\ loc' = loc /\ mutex' = mutex
    BY DEF Fence, st
  <2>2. sfence = f
    BY <1>4
  <2> HIDE DEF sfence, th
  <2> QED
    BY <2>1, <2>2
<1> HIDE DEF th
<1>11. f \in Clock
  <2>1. e \in Nat
    BY <1>1
  <2>2. Raised(ctx.sfence, t, e) \in Clock
    BY <1>1, <2>1, RaisedType
  <2> QED
    BY <1>1, <2>2
<1>12. /\ sc \in ThreadStates(Clock) /\ sc.tid = t /\ sc.status = "running"
       /\ sc.epoch = e /\ sc.clock = Raised(thr[t].clock, t, e)
       /\ sc.frel = thr[t].frel /\ sc.facq = thr[t].facq
  <2>1. CASE isSc
    <3>1. sc = SCFence(th, f)
      BY <2>1
    <3> HIDE DEF sc
    <3>2. /\ sc = [tid |-> th.tid, status |-> th.status, epoch |-> th.epoch,
                   clock |-> th.clock, lastRelease |-> th.lastRelease,
                   frel |-> th.frel, facq |-> th.facq, slimit |-> Join(th.slimit, f),
                   swrite |-> Join(th.swrite, ctx.swrite), sread |-> th.sread]
          /\ sc \in ThreadStates(Clock)
      BY <3>1, <1>1, <1>10, <1>11, ScFenceFacts
    <3> QED
      BY <3>2, <1>10
  <2>2. CASE ~isSc
    <3>1. sc = th
      BY <2>2
    <3> HIDE DEF sc
    <3> QED
      BY <3>1, <1>10
  <2> QED
    BY <2>1, <2>2
<1>6. rel = IF IsReleaseOrder(mo) THEN [sc EXCEPT !.frel = Join(@, sc.clock)] ELSE sc
  OBVIOUS
<1> HIDE DEF sc
<1>13. /\ rel \in ThreadStates(Clock) /\ rel.tid = t /\ rel.status = "running"
       /\ rel.epoch = e /\ rel.clock = Raised(thr[t].clock, t, e)
       /\ rel.facq = thr[t].facq
       /\ rel.frel = IF IsReleaseOrder(mo) THEN Join(thr[t].frel, Raised(thr[t].clock, t, e))
                                           ELSE thr[t].frel
  <2>1. /\ rel \in ThreadStates(Clock) /\ rel.tid = sc.tid /\ rel.status = sc.status
        /\ rel.epoch = sc.epoch /\ rel.lastRelease = sc.lastRelease
        /\ rel.clock = sc.clock /\ rel.facq = sc.facq
        /\ rel.frel = IF IsReleaseOrder(mo) THEN Join(sc.frel, sc.clock) ELSE sc.frel
        /\ rel.slimit = sc.slimit /\ rel.swrite = sc.swrite /\ rel.sread = sc.sread
    BY <1>6, <1>12, FenceReleaseFacts
  <2> QED
    BY <1>12, <2>1
<1>7. acq = IF IsLoadOrder(mo) THEN Acquire(rel, rel.facq) ELSE rel
  OBVIOUS
<1> HIDE DEF rel, acq
<1>14. thr'[t] = acq
  BY <1>1, <1>8 DEF SharesIn
<1>15. /\ acq \in ThreadStates(Clock) /\ acq.tid = t /\ acq.status = "running"
       /\ acq.facq = thr[t].facq /\ acq.frel = rel.frel /\ AcquiresFrom(G, t)
  <2>1. e \in Nat
    BY <1>1
  <2>2. CASE IsLoadOrder(mo)
    <3>1. PICK d : d = rel.facq
      OBVIOUS
    <3>2. acq = Acquire(rel, d) /\ d \in G /\ d \in Clock /\ Lattice(Clock)
      BY <1>1, <1>7, <1>13, <2>2, <3>1, ClockLattice DEF Lattice
    <3>3. /\ acq = [tid |-> rel.tid, status |-> rel.status, epoch |-> rel.epoch,
                    clock |-> Join(Raised(rel.clock, rel.tid, rel.epoch), d),
                    lastRelease |-> rel.lastRelease, frel |-> rel.frel, facq |-> rel.facq,
                    slimit |-> rel.slimit, swrite |-> rel.swrite, sread |-> rel.sread]
          /\ acq \in ThreadStates(Clock)
      BY <3>2, <1>13, AcquireFacts
    <3>4. Raised(rel.clock, rel.tid, rel.epoch) = Raised(thr[t].clock, t, e)
      BY <1>1, <1>13, <2>1, RaisedTwice
    <3>5. thr'[t].clock = Join(Raised(thr[t].clock, t, e), d)
      BY <1>14, <3>3, <3>4
    <3>6. AcquiresFrom(G, t)
      BY <1>1, <2>1, <3>2, <3>5, FromJoin
    <3> QED
      BY <1>13, <3>3, <3>6
  <2>3. CASE ~IsLoadOrder(mo)
    <3>1. acq = rel
      BY <1>7, <2>3
    <3>2. thr'[t].clock = Raised(thr[t].clock, t, e)
      BY <1>13, <1>14, <3>1
    <3>3. AcquiresFrom(G, t)
      BY <1>1, <2>1, <3>2, FromStamp
    <3> QED
      BY <1>13, <3>1, <3>3
  <2> QED
    BY <2>2, <2>3
<1>16. ASSUME IsReleaseOrder(mo) => Raised(thr[t].clock, t, e) \in G PROVE SharesIn(G)'
  <2>1. acq.frel \in G /\ acq.facq \in G
    BY <1>1, <1>13, <1>15, <1>16 DEF Lattice
  <2>2. acq \in ThreadStates(G)
    BY <1>15, <2>1 DEF ThreadStates
  <2>3. LocationsIn(G)'
    BY <1>1, <1>8 DEF LocationsIn
  <2>4. MutexIn(G)' /\ acq.status # "finished"
    BY <1>1, <1>8, <1>15 DEF MutexIn
  <2> QED
    BY <1>1, <1>8, <1>15, <2>2, <2>3, <2>4, SharedSet
<1> QED
  BY <1>15, <1>16

\* MutexLock.
LEMMA LockShares ==
  ASSUME NEW G, Lattice(G), SharesIn(G), ClocksIn(Clock), NEW t \in Running, Lock(t)
  PROVE  AcquiresFrom(G, t) /\ SharesIn(G)'
<1>1. /\ t \in Tid /\ thr[t] \in ThreadStates(G) /\ thr[t].tid = t
      /\ thr[t].status = "running" /\ thr[t].epoch \in Nat /\ thr[t].epoch + 1 \in Nat
      /\ thr[t].clock \in Clock /\ thr[t].frel \in G /\ thr[t].facq \in G
      /\ ctx.sfence \in Clock /\ ctx.swrite \in Clock
      /\ LocationsIn(G) /\ MutexIn(G)
  BY SharedThread
<1>2. PICK k, c : k = Ticked(thr[t]) /\ c = mutex.clk
  OBVIOUS
<1>3. PICK th : th = Acquire(k, c)
  OBVIOUS
<1>4. /\ thr' = [thr EXCEPT ![t] = th] /\ mutex' = [mutex EXCEPT !.holder = t] /\ loc' = loc
  BY <1>2, <1>3 DEF Lock
<1>5. mutex \in [clk : G, holder : Tid \cup {NoTid}]
  BY <1>1 DEF MutexIn
<1>6. MutexIn(G)' /\ c \in G /\ c \in Clock
  BY <1>1, <1>2, <1>4, <1>5 DEF MutexIn, Lattice
<1>7. k \in ThreadStates(G) /\ k.tid = t /\ k.status = "running" /\ k.clock = thr[t].clock
      /\ k.epoch = thr[t].epoch + 1
  BY <1>1, <1>2, TickedFacts
<1>8. /\ th \in ThreadStates(G) /\ th.tid = t /\ th.status = "running"
      /\ th.clock = Join(Raised(thr[t].clock, t, thr[t].epoch + 1), c)
  BY <1>3, <1>6, <1>7, AcquireFacts
<1>9. thr'[t] = th
  BY <1>1, <1>4 DEF SharesIn
<1>10. AcquiresFrom(G, t)
  BY <1>1, <1>6, <1>8, <1>9, FromJoin
<1>11. LocationsIn(G)' /\ th.status # "finished"
  BY <1>1, <1>4, <1>8 DEF LocationsIn
<1>12. SharesIn(G)'
  BY <1>1, <1>4, <1>6, <1>8, <1>11, SharedSet
<1> QED
  BY <1>10, <1>12

\* MutexUnlock and OnFinished share the clock of t.
LEMMA StampShares ==
  ASSUME NEW G, Lattice(G), SharesIn(G), ClocksIn(Clock), NEW t \in Running,
         Unlock(t) \/ Finish(t)
  PROVE  /\ AcquiresFrom(G, t)
         /\ thr'[t].clock \in G => SharesIn(G)'
<1>1. /\ t \in Tid /\ thr[t] \in ThreadStates(G) /\ thr[t].tid = t
      /\ thr[t].status = "running" /\ thr[t].epoch \in Nat /\ thr[t].epoch + 1 \in Nat
      /\ thr[t].clock \in Clock /\ thr[t].frel \in G /\ thr[t].facq \in G
      /\ ctx.sfence \in Clock /\ ctx.swrite \in Clock
      /\ LocationsIn(G) /\ MutexIn(G)
  BY SharedThread
<1>2. PICK k : k = Stamped(Ticked(thr[t]))
  OBVIOUS
<1>3. k \in ThreadStates(G) /\ k.tid = t /\ k.status = "running"
      /\ k.clock = Raised(thr[t].clock, t, thr[t].epoch + 1)
  BY <1>1, <1>2, NextEpochFacts
<1>4. PICK th : th = IF Unlock(t) THEN k ELSE [k EXCEPT !.status = "finished"]
  OBVIOUS
<1>5. /\ th \in ThreadStates(G) /\ th.tid = t
      /\ th.clock = Raised(thr[t].clock, t, thr[t].epoch + 1)
  <2>1. CASE Unlock(t)
    BY <1>3, <1>4, <2>1
  <2>2. CASE ~Unlock(t)
    <3>1. th = [k EXCEPT !.status = "finished"]
      BY <1>4, <2>2
    <3> QED
      BY <1>3, <3>1 DEF ThreadStates, Statuses
  <2> QED
    BY <2>1, <2>2
<1>6. thr' = [thr EXCEPT ![t] = th] /\ loc' = loc
      /\ (mutex' = mutex \/ mutex' = [clk |-> k.clock, holder |-> NoTid])
  <2>1. CASE Unlock(t)
    BY <1>2, <1>4, <2>1 DEF Unlock
  <2>2. CASE ~Unlock(t)
    BY <1>2, <1>4, <2>2 DEF Finish
  <2> QED
    BY <2>1, <2>2
<1>7. thr'[t] = th
  BY <1>1, <1>6 DEF SharesIn
<1>8. AcquiresFrom(G, t)
  BY <1>1, <1>5, <1>7, FromStamp
<1>9. ASSUME thr'[t].clock \in G PROVE SharesIn(G)'
  <2>1. k.clock \in G /\ th.clock \in G
    BY <1>3, <1>5, <1>7, <1>9
  <2>2. MutexIn(G)'
    BY <1>1, <1>6, <2>1 DEF MutexIn
  <2>3. LocationsIn(G)'
    BY <1>1, <1>6 DEF LocationsIn
  <2> QED
    BY <1>1, <1>5, <1>6, <2>1, <2>2, <2>3, SharedSet
<1> QED
  BY <1>8, <1>9

\* OnJoined: the clock of u was shared when u finished.
LEMMA JoinShares ==
  ASSUME NEW G, Lattice(G), SharesIn(G), ClocksIn(Clock), NEW t \in Running, NEW u \in Tid,
         ThreadJoin(t, u)
  PROVE  AcquiresFrom(G, t) /\ SharesIn(G)'
<1>1. /\ t \in Tid /\ thr[t] \in ThreadStates(G) /\ thr[t].tid = t
      /\ thr[t].status = "running" /\ thr[t].epoch \in Nat /\ thr[t].epoch + 1 \in Nat
      /\ thr[t].clock \in Clock /\ thr[t].frel \in G /\ thr[t].facq \in G
      /\ ctx.sfence \in Clock /\ ctx.swrite \in Clock
      /\ LocationsIn(G) /\ MutexIn(G)
  BY SharedThread
<1>2. PICK k, d : k = thr[t] /\ d = thr[u].clock
  OBVIOUS
<1>3. PICK th : th = Acquire(k, d)
  OBVIOUS
<1>4. /\ thr' = [thr EXCEPT ![t] = th, ![u].status = "dead"] /\ thr[u].status = "finished"
      /\ mutex' = mutex /\ loc' = loc
  BY <1>2, <1>3 DEF ThreadJoin
<1>5. thr[u] \in ThreadStates(G) /\ thr[u].tid = u /\ d \in G /\ d \in Clock /\ u # t
  BY <1>1, <1>2, <1>4 DEF SharesIn, Lattice
<1>6. /\ th \in ThreadStates(G) /\ th.tid = t /\ th.status = "running"
      /\ th.clock = Join(Raised(thr[t].clock, t, thr[t].epoch), d)
  <2>1. k \in ThreadStates(G) /\ d \in Clock
    BY <1>1, <1>2, <1>5
  <2>2. /\ th = [tid |-> k.tid, status |-> k.status, epoch |-> k.epoch,
                 clock |-> Join(Raised(k.clock, k.tid, k.epoch), d),
                 lastRelease |-> k.lastRelease, frel |-> k.frel, facq |-> k.facq,
                 slimit |-> k.slimit, swrite |-> k.swrite, sread |-> k.sread]
        /\ th \in ThreadStates(G)
    BY <1>3, <2>1, AcquireFacts
  <2> QED
    BY <1>1, <1>2, <2>2
<1> DEFINE v == [thr[u] EXCEPT !.status = "dead"]
<1>7. v \in ThreadStates(G) /\ v.tid = u /\ v.status = "dead"
  BY <1>5 DEF ThreadStates, Statuses
<1>8. thr' = [thr EXCEPT ![t] = th, ![u] = v]
  BY <1>1, <1>4, <1>5 DEF SharesIn
<1> HIDE DEF v
<1>9. thr'[t] = th /\ thr'[u] = v /\ \A w \in Tid \ {t, u} : thr'[w] = thr[w]
  BY <1>1, <1>5, <1>8 DEF SharesIn
<1>10. AcquiresFrom(G, t)
  BY <1>1, <1>5, <1>6, <1>9, FromJoin
<1>11. thr' \in [Tid -> ThreadStates(G)]
  BY <1>1, <1>6, <1>7, <1>8 DEF SharesIn
<1>12. \A w \in Tid : thr'[w].tid = w /\ (thr'[w].status = "finished" => thr'[w].clock \in G)
  BY <1>6, <1>7, <1>9 DEF SharesIn
<1>13. LocationsIn(G)' /\ MutexIn(G)'
  BY <1>1, <1>4 DEF LocationsIn, MutexIn
<1>14. SharesIn(G)'
  BY <1>11, <1>12, <1>13 DEF SharesIn
<1> QED
  BY <1>10, <1>14

\* OnCreated and OnStarted: only u takes the clock of t.
LEMMA CreateShares ==
  ASSUME NEW G, Lattice(G), SharesIn(G), ClocksIn(Clock), NEW t \in Running, NEW u \in Tid,
         Create(t, u)
  PROVE  AcquiresFrom(G, t) /\ SharesIn(G)'
<1>1. /\ t \in Tid /\ thr[t] \in ThreadStates(G) /\ thr[t].tid = t
      /\ thr[t].status = "running" /\ thr[t].epoch \in Nat /\ thr[t].epoch + 1 \in Nat
      /\ thr[t].clock \in Clock /\ thr[t].frel \in G /\ thr[t].facq \in G
      /\ ctx.sfence \in Clock /\ ctx.swrite \in Clock
      /\ LocationsIn(G) /\ MutexIn(G)
  BY SharedThread
<1>2. PICK th, fi : th = Stamped(Ticked(thr[t])) /\ fi = FirstThread(u, "running")
  OBVIOUS
<1>3. PICK c : c = th.clock
  OBVIOUS
<1>4. PICK new : new = Acquire(fi, c)
  OBVIOUS
<1>5. /\ thr' = [thr EXCEPT ![t] = th, ![u] = new] /\ thr[u].status = "invalid"
      /\ mutex' = mutex /\ loc' = loc
  BY <1>2, <1>3, <1>4 DEF Create
<1>6. /\ th \in ThreadStates(G) /\ th.tid = t /\ th.status = "running"
      /\ th.clock = Raised(thr[t].clock, t, thr[t].epoch + 1)
  BY <1>1, <1>2, NextEpochFacts
<1>7. u # t /\ c \in Clock
  BY <1>1, <1>3, <1>5, <1>6, ThreadParts
<1>8. fi \in ThreadStates(G) /\ fi.tid = u /\ fi.status = "running"
  BY <1>2, FirstThreadFacts DEF Statuses
<1>9. new \in ThreadStates(G) /\ new.tid = u /\ new.status = "running"
  BY <1>4, <1>7, <1>8, AcquireFacts
<1>10. thr'[t] = th /\ thr'[u] = new /\ \A w \in Tid \ {t, u} : thr'[w] = thr[w]
  BY <1>1, <1>5, <1>7 DEF SharesIn
<1>11. AcquiresFrom(G, t)
  BY <1>1, <1>6, <1>10, FromStamp
<1>12. thr' \in [Tid -> ThreadStates(G)]
  BY <1>1, <1>5, <1>6, <1>9 DEF SharesIn
<1>13. \A w \in Tid : thr'[w].tid = w /\ (thr'[w].status = "finished" => thr'[w].clock \in G)
  BY <1>6, <1>9, <1>10 DEF SharesIn
<1>14. LocationsIn(G)' /\ MutexIn(G)'
  BY <1>1, <1>5 DEF LocationsIn, MutexIn
<1>15. SharesIn(G)'
  BY <1>12, <1>13, <1>14 DEF SharesIn
<1> QED
  BY <1>11, <1>15

-----------------------------------------------------------------------------
(* What t knows after its step. *)

\* The views of b go no further than those of a.
SeenBelow(a, b) == \A x \in Loc : a[x].seen <= b[x].seen

\* A step of t that keeps clocks, tags, loads and positions what they should be.
Steady(t) ==
  /\ GoodInv /\ GoodInv' /\ Kept /\ TagsStay /\ EndsGrow /\ SettledStay
  /\ ReadInv /\ PositionsPlaced' /\ LoadsReached'
  /\ \A u \in Tid, x \in Loc : loc[x].buf.pos[u] <= loc'[x].buf.pos[u]
  /\ Leq(thr[t].clock, thr'[t].clock)

\* The steps are such.
LEMMA StepSteady ==
  ASSUME KeepsHistory, GoodInv, CoverInv, ReadInv, NEW t \in Running, StepOf(t), Turns(t), Goes
  PROVE  Steady(t)
<1>1. GoodInv' /\ Kept /\ Leq(thr[t].clock, thr'[t].clock)
  BY StepIsGood DEF StepGood
<1>2. CoverInv' /\ TagsStay /\ EndsGrow
  BY StepCovers
<1>3. PositionsPlaced /\ LoadsReached
  BY DEF ReadInv
<1>4. /\ PositionsPlaced' /\ LoadsReached' /\ SettledStay
      /\ \A u \in Tid, x \in Loc : loc[x].buf.pos[u] <= loc'[x].buf.pos[u]
  BY <1>1, <1>2, <1>3, StepTurns
<1> QED
  BY <1>1, <1>2, <1>4 DEF Steady

\* What is shared stays shared, and backed.
LEMMA SharesAfter ==
  ASSUME NEW t, Steady(t), NEW H, H = BackedClocks(thr', loc', hist'.past)
  PROVE  Lattice(H) /\ SharesIn(H) /\ ClocksIn(Clock)
<1>1. PastIn(thr', hist'.past)
  BY HistoryPast DEF Steady, Kept
<1>2. Lattice(H)
  BY <1>1, BackedLattice
<1>3. BackedClocks(thr, loc, hist.past) \subseteq H
  BY BackedGrow DEF Steady
<1>4. SharesIn(BackedClocks(thr, loc, hist.past))
  BY DEF Steady, ReadInv
<1>5. SharesIn(H)
  BY <1>3, <1>4, SharesInMore
<1>6. ClocksIn(Clock)
  BY GoodTyped DEF Steady
<1> QED
  BY <1>2, <1>5, <1>6

\* Clock and publications of the threads, before and after a step.
LEMMA SteadyThread ==
  ASSUME NEW t, Steady(t), NEW u \in Tid
  PROVE  /\ thr[u].clock \in Clock /\ thr'[u].clock \in Clock
         /\ thr[u].epoch \in Nat /\ thr'[u].epoch \in Nat
         /\ hist.view[u] \in Views /\ hist'.view[u] \in Views
         /\ hist.past[u] \in Seq(Publications) /\ hist'.past[u] \in Seq(Publications)
         /\ DOMAIN hist.past[u] = 1..thr[u].epoch /\ DOMAIN hist'.past[u] = 1..thr'[u].epoch
         /\ thr'[u].status # "invalid" => thr'[u].clock \in GoodClocks(thr', hist'.past)
<1>1. ClocksIn(Clock) /\ HistoryIn(hist, thr, loc)
  BY GoodTyped DEF Steady
<1>2. ClocksIn(Clock)'
  BY GoodTyped, PTL DEF Steady
<1>3. HistoryIn(hist', thr', loc')
  BY HistoryPast DEF Steady, Kept
<1>4. /\ thr[u].clock \in Clock /\ thr'[u].clock \in Clock
      /\ thr[u].epoch \in Nat /\ thr'[u].epoch \in Nat
  BY <1>1, <1>2 DEF ClocksIn, ThreadsIn, ThreadStates
<1>5. /\ hist.view[u] \in Views /\ hist'.view[u] \in Views
      /\ hist.past[u] \in Seq(Publications) /\ hist'.past[u] \in Seq(Publications)
      /\ Len(hist.past[u]) = thr[u].epoch /\ Len(hist'.past[u]) = thr'[u].epoch
  BY <1>1, <1>3 DEF HistoryIn
<1>6. DOMAIN hist.past[u] = 1..thr[u].epoch /\ DOMAIN hist'.past[u] = 1..thr'[u].epoch
  BY <1>5
<1>7. ClocksIn(GoodClocks(thr, hist.past))'
  BY DEF Steady, GoodInv
<1>8. thr'[u].status # "invalid" => thr'[u].clock \in GoodClocks(thr', hist'.past)
  BY <1>7 DEF ClocksIn, ThreadsIn
<1> QED
  BY <1>4, <1>5, <1>6, <1>8

\* What w knows of the others is backed, after a step.
BacksOthers(w) ==
  \A u \in Tid \ {w} :
    thr'[w].clock[u] = 0 \/ Backed(loc', thr', hist'.past[u][thr'[w].clock[u]])

\* What w knew of u is backed still.
LEMMA KnewBacked ==
  ASSUME NEW t, Steady(t), NEW w \in Tid, NEW u \in Tid \ {w}
  PROVE  LET k == thr[w].clock[u] IN
         /\ k \in Nat /\ (IF thr[u].status = "invalid" THEN k = 0 ELSE k <= thr[u].epoch)
         /\ k = 0 \/ Backed(loc', thr', hist'.past[u][k])
<1>1. PICK k : k = thr[w].clock[u]
  OBVIOUS
<1>2. thr[w].clock \in Clock /\ thr[u].epoch \in Nat
  BY SteadyThread
<1>3. k \in Nat
  BY <1>1, <1>2 DEF Clock
<1>4. k = 0 \/ Backed(loc, thr, hist.past[u][k])
  BY <1>1 DEF Steady, ReadInv, OthersBacked
<1>5. IF thr[u].status = "invalid" THEN k = 0 ELSE k <= thr[u].epoch
  <2>1. ClocksIn(GoodClocks(thr, hist.past)) /\ HistInv(hist, thr, loc)
    BY DEF Steady, GoodInv
  <2>2. CASE thr[w].status = "invalid"
    <3>1. thr[w].clock = Raised(Zero, w, 1)
      BY <2>1, <2>2 DEF HistInv, Published
    <3>2. k = 0
      BY <1>1, <3>1 DEF Raised, Zero
    <3> QED
      BY <1>2, <3>2
  <2>3. CASE thr[w].status # "invalid"
    <3>1. Reached(thr, thr[w].clock)
      BY <2>1, <2>3 DEF ClocksIn, ThreadsIn, GoodClocks
    <3> QED
      BY <1>1, <3>1 DEF Reached
  <2> QED
    BY <2>2, <2>3
<1>6. k = 0 \/ Backed(loc', thr', hist'.past[u][k])
  BY <1>3, <1>4, <1>5, KnownStays DEF Steady
<1> QED
  BY <1>1, <1>3, <1>5, <1>6

\* So for a thread that keeps its clock.
LEMMA OtherBacks ==
  ASSUME NEW t, Steady(t), NEW w \in Tid, thr'[w].clock = thr[w].clock
  PROVE  BacksOthers(w)
<1> SUFFICES ASSUME NEW u \in Tid \ {w}
             PROVE  thr'[w].clock[u] = 0 \/ Backed(loc', thr', hist'.past[u][thr'[w].clock[u]])
  BY DEF BacksOthers
<1>1. PICK k : k = thr[w].clock[u]
  OBVIOUS
<1>2. /\ thr[w].clock[u] \in Nat
      /\ thr[w].clock[u] = 0 \/ Backed(loc', thr', hist'.past[u][thr[w].clock[u]])
  BY KnewBacked
<1> QED
  BY <1>2

\* And for t, which acquires from what is shared.
LEMMA ActorBacks ==
  ASSUME NEW t \in Tid, Steady(t), NEW H, H = BackedClocks(thr', loc', hist'.past),
         AcquiresFrom(H, t)
  PROVE  BacksOthers(t)
<1> SUFFICES ASSUME NEW u \in Tid \ {t}
             PROVE  thr'[t].clock[u] = 0 \/ Backed(loc', thr', hist'.past[u][thr'[t].clock[u]])
  BY DEF BacksOthers
<1>1. PICK d \in H : \A w \in Tid \ {t} :
        thr'[t].clock[w] = thr[t].clock[w] \/ thr'[t].clock[w] = d[w]
  BY DEF AcquiresFrom
<1>2. CASE thr'[t].clock[u] = thr[t].clock[u]
  <2>1. /\ thr[t].clock[u] \in Nat
        /\ thr[t].clock[u] = 0 \/ Backed(loc', thr', hist'.past[u][thr[t].clock[u]])
    BY KnewBacked
  <2> QED
    BY <1>2, <2>1
<1>3. CASE thr'[t].clock[u] = d[u]
  <2>1. d[u] = 0 \/ Backed(loc', thr', hist'.past[u][d[u]])
    BY DEF BackedClocks
  <2> QED
    BY <1>3, <2>1
<1> QED
  BY <1>1, <1>2, <1>3

\* A clock that knows more is barred from less.
LEMMA BarsMore ==
  ASSUME NEW b \in Buffers(Clock), Sound(b), NEW th, NEW c \in Clock, NEW c2 \in Clock,
         Leq(c, c2), NEW s \in Nat, NEW s2 \in Nat, s <= s2, Bars(b, th, c, s2)
  PROVE  Bars(b, th, c2, s)
<1>1. \A l \in b.loads : l.tid \in Tid /\ l.epoch \in Nat /\ l.at \in Held(b)
  BY BufferParts DEF Sound
<1>2. \A q \in Held(b) : q \in Nat /\ Tag(b, q).tid \in Tid /\ Tag(b, q).epoch \in Nat
  BY TagFacts
<1>3. \A u \in Tid : c[u] \in Nat /\ c2[u] \in Nat /\ c[u] <= c2[u]
  BY DEF Leq, Clock
<1>4. CASE \A q \in Held(b) : s2 <= q
  <2>1. \A q \in Held(b) : s <= q
    BY <1>2, <1>4
  <2> QED
    BY <2>1 DEF Bars
<1>5. ASSUME NEW q \in Held(b), q >= s2, c[Tag(b, q).tid] >= Tag(b, q).epoch
      PROVE  Bars(b, th, c2, s)
  <2>1. PICK u, e : u = Tag(b, q).tid /\ e = Tag(b, q).epoch
    OBVIOUS
  <2>2. q \in Nat /\ u \in Tid /\ e \in Nat /\ c[u] >= e
    BY <1>2, <1>5, <2>1
  <2>3. q >= s /\ c2[u] >= e
    BY <1>3, <1>5, <2>2
  <2> QED
    BY <2>1, <2>3 DEF Bars
<1>6. ASSUME NEW l \in b.loads, l.at >= s2, c[l.tid] > l.epoch, Settled(th, l)
      PROVE  Bars(b, th, c2, s)
  <2>1. PICK u, e, q : u = l.tid /\ e = l.epoch /\ q = l.at
    OBVIOUS
  <2>2. q \in Nat /\ u \in Tid /\ e \in Nat /\ c[u] > e
    BY <1>1, <1>2, <1>6, <2>1
  <2>3. q >= s /\ c2[u] > e
    BY <1>3, <1>6, <2>1, <2>2
  <2> QED
    BY <1>6, <2>1, <2>3 DEF Bars
<1> QED
  BY <1>4, <1>5, <1>6 DEF Bars

\* Who learns forgets nothing.
LEMMA LearnSees ==
  ASSUME NEW l, HistoryIn(hist, thr, l), NEW v \in Views, Within(l, v), NEW c \in Clock,
         \A x \in Loc : End(l[x].buf) \in Nat
  PROVE  SeenBelow(v, Learn(v, c))
<1> SUFFICES ASSUME NEW x \in Loc PROVE v[x].seen <= Learn(v, c)[x].seen
  BY DEF SeenBelow
<1> DEFINE knows == {u \in Tid : c[u] \in DOMAIN hist.past[u]}
           Known(z) == {v[z]} \cup {hist.past[u][c[u]].view[z] : u \in knows}
           S == {k.seen : k \in Known(x)}
<1>1. Learn(v, c)[x].seen = Max(S)
  BY DEF Learn
<1>2. ASSUME NEW u \in knows
      PROVE  hist.past[u][c[u]].view \in Views /\ Within(l, hist.past[u][c[u]].view)
  <2>1. u \in Tid /\ c[u] \in DOMAIN hist.past[u] /\ hist.past[u] \in Seq(Publications)
        /\ Len(hist.past[u]) = thr[u].epoch
    BY DEF HistoryIn
  <2>2. DOMAIN hist.past[u] = 1..thr[u].epoch /\ hist.past[u][c[u]] \in Publications
    BY <2>1
  <2> QED
    BY <2>1, <2>2 DEF HistoryIn, Publications
<1>3. S \in SUBSET Nat /\ v[x].seen \in S /\ \A s \in S : s <= End(l[x].buf)
  BY <1>2 DEF Views, Within
<1>4. PICK n \in Nat : n = End(l[x].buf)
  OBVIOUS
<1> HIDE DEF S
<1>5. S # {} /\ \A s \in S : s <= n
  BY <1>3, <1>4
<1>6. \A s \in S : s <= Max(S)
  BY <1>3, <1>5, MaxFacts
<1> QED
  BY <1>1, <1>3, <1>6

\* What t knows by its new clock is barred to it.
LEMMA LearntBarred ==
  ASSUME NEW t \in Tid, Steady(t), thr'[t].status # "invalid", BacksOthers(t),
         \A u \in Tid : thr[u].status = "invalid" => thr'[u].status = "invalid",
         NEW v, v = Learn(hist.view[t], thr'[t].clock)
  PROVE  /\ Barred(loc', thr', thr'[t].clock, t, v)
         /\ v \in Views /\ SeenBelow(hist.view[t], v)
<1>1. PICK c, v0 : c = thr'[t].clock /\ v0 = hist.view[t]
  OBVIOUS
<1>2. /\ c \in Clock /\ v0 \in Views /\ c \in GoodClocks(thr', hist'.past)
      /\ thr[t].clock \in Clock /\ Leq(thr[t].clock, c)
  BY <1>1, SteadyThread DEF Steady
<1>3. HistoryIn(hist, thr, loc) /\ (\A x \in Loc : End(loc[x].buf) \in Nat) /\ Within(loc, v0)
  <2>1. HistoryIn(hist, thr, loc) /\ ClocksIn(Clock)
    BY GoodTyped DEF Steady
  <2> QED
    BY <1>1, <2>1, EndsTyped DEF HistoryIn
<1>4. SeenBelow(v0, Learn(v0, c))
  BY <1>2, <1>3, LearnSees
<1>5. /\ Learn(v0, c) \in Views /\ Within(loc, Learn(v0, c))
      /\ \A x \in Loc :
           /\ \A w \in Learn(v0, c)[x].wrote :
                \/ w \in v0[x].wrote
                \/ \E u \in Tid : /\ c[u] \in DOMAIN hist.past[u]
                                  /\ w \in hist.past[u][c[u]].view[x].wrote
           /\ \/ Learn(v0, c)[x].seen = v0[x].seen
              \/ \E u \in Tid : /\ c[u] \in DOMAIN hist.past[u]
                                /\ Learn(v0, c)[x].seen = hist.past[u][c[u]].view[x].seen
           /\ v0[x].wrote \subseteq Learn(v0, c)[x].wrote
  BY <1>2, <1>3, LearnFacts
<1>6. /\ v \in Views
      /\ \A x \in Loc : \/ v[x].seen = v0[x].seen
                        \/ \E u \in Tid : /\ c[u] \in DOMAIN hist.past[u]
                                          /\ v[x].seen = hist.past[u][c[u]].view[x].seen
  <2>1. v = Learn(v0, c)
    BY <1>1
  <2>2. /\ Learn(v0, c) \in Views
        /\ \A x \in Loc : \/ Learn(v0, c)[x].seen = v0[x].seen
                          \/ \E u \in Tid :
                               /\ c[u] \in DOMAIN hist.past[u]
                               /\ Learn(v0, c)[x].seen = hist.past[u][c[u]].view[x].seen
    BY <1>5
  <2> QED
    BY <2>1, <2>2, Zenon
<1>7. \A x \in Loc : loc'[x].buf \in Buffers(Clock) /\ Sound(loc'[x].buf)
  BY BuffersTyped DEF Steady
<1>8. ASSUME NEW x \in Loc
      PROVE  v0[x].seen <= loc'[x].buf.pos[t] \/ Bars(loc'[x].buf, thr', c, v0[x].seen)
  <2>1. v0[x].seen \in Nat
    BY <1>2 DEF Views
  <2>2. v0[x].seen <= loc[x].buf.pos[t] \/ Bars(loc[x].buf, thr, thr[t].clock, v0[x].seen)
    BY <1>1 DEF Steady, ReadInv, ReadsBarred, Barred
  <2>3. CASE v0[x].seen <= loc[x].buf.pos[t]
    <3>1. loc[x].buf.pos[t] \in Nat /\ loc'[x].buf.pos[t] \in Nat
      BY BuffersTyped, BufferParts DEF Steady
    <3>2. loc[x].buf.pos[t] <= loc'[x].buf.pos[t]
      BY DEF Steady
    <3> QED
      BY <2>1, <2>3, <3>1, <3>2
  <2>4. CASE Bars(loc[x].buf, thr, thr[t].clock, v0[x].seen)
    <3>1. PICK s, c0 : s = v0[x].seen /\ c0 = thr[t].clock
      OBVIOUS
    <3>2. s \in Nat /\ c0 \in Clock /\ Leq(c0, c) /\ Bars(loc[x].buf, thr, c0, s)
      BY <1>2, <2>1, <2>4, <3>1
    <3>3. Bars(loc'[x].buf, thr', c, s)
      BY <1>2, <3>2, BarsKept DEF Steady
    <3> QED
      BY <3>1, <3>3
  <2> QED
    BY <2>2, <2>3, <2>4
<1>9. ASSUME NEW x \in Loc, NEW u \in Tid \ {t}, c[u] \in DOMAIN hist.past[u],
             v[x].seen = hist.past[u][c[u]].view[x].seen
      PROVE  Bars(loc'[x].buf, thr', c, v[x].seen)
  <2>1. PICK k : k = c[u]
    OBVIOUS
  <2>2. k \in Nat /\ k # 0 /\ k <= thr[u].epoch
    BY <1>9, <2>1, SteadyThread
  <2>3. thr[u].status # "invalid"
    <3>1. Reached(thr', c)
      BY <1>2 DEF GoodClocks
    <3>2. thr'[u].status = "invalid" => k = 0
      BY <2>1, <3>1 DEF Reached
    <3> QED
      BY <2>2, <3>2
  <2>4. hist'.past[u][k] = hist.past[u][k] /\ hist.past[u][k] \in Publications
    BY <2>2, <2>3, PastStaysAt DEF Steady
  <2>5. PICK p \in Publications : p = hist'.past[u][k]
    BY <2>4
  <2>6. Backed(loc', thr', p)
    BY <1>1, <2>1, <2>2, <2>5 DEF BacksOthers
  <2>7. Leq(p.clock, c)
    <3>1. k \in DOMAIN hist'.past[u]
      <4>1. thr[u].epoch <= thr'[u].epoch
        BY EpochsGrow DEF Steady
      <4>2. thr[u].epoch \in Nat /\ thr'[u].epoch \in Nat
            /\ DOMAIN hist'.past[u] = 1..thr'[u].epoch
        BY SteadyThread
      <4> QED
        BY <2>2, <4>1, <4>2
    <3>2. Closed(hist'.past, c)
      BY <1>2 DEF GoodClocks
    <3> QED
      BY <2>1, <2>5, <3>1, <3>2 DEF Closed
  <2>8. p.clock \in Clock /\ p.view[x].seen \in Nat /\ p.view[x].seen = v[x].seen
    BY <1>9, <2>1, <2>4, <2>5 DEF Publications, Views
  <2>9. PICK d, s, b, th : /\ d = p.clock /\ s = p.view[x].seen
                           /\ b = loc'[x].buf /\ th = thr'
    OBVIOUS
  <2>10. Bars(b, th, d, s)
    BY <2>6, <2>9 DEF Backed
  <2>11. b \in Buffers(Clock) /\ Sound(b) /\ d \in Clock /\ s \in Nat /\ Leq(d, c) /\ s <= s
    BY <1>7, <2>7, <2>8, <2>9
  <2>12. Bars(b, th, c, s)
    BY <1>2, <2>10, <2>11, BarsMore
  <2> QED
    BY <2>8, <2>9, <2>12
<1>10. ASSUME NEW x \in Loc, c[t] \in DOMAIN hist.past[t],
              v[x].seen = hist.past[t][c[t]].view[x].seen
       PROVE  v[x].seen <= loc'[x].buf.pos[t] \/ Bars(loc'[x].buf, thr', c, v[x].seen)
  <2>1. PICK b, th, s, s2 : b = loc'[x].buf /\ th = thr' /\ s = v[x].seen /\ s2 = v0[x].seen
    OBVIOUS
  <2>2. b \in Buffers(Clock) /\ Sound(b) /\ s \in Nat /\ s2 \in Nat /\ b.pos[t] \in Nat
    BY <1>2, <1>6, <1>7, <2>1, BufferParts DEF Views
  <2>3. s <= s2
    <3>1. PICK k : k = c[t]
      OBVIOUS
    <3>2. k \in DOMAIN hist.past[t] /\ s = hist.past[t][k].view[x].seen
      BY <1>10, <2>1, <3>1
    <3>3. PastBelow
      BY DEF Steady, ReadInv
    <3>4. hist.past[t][k].view[x].seen <= hist.view[t][x].seen
      BY <3>2, <3>3 DEF PastBelow
    <3> QED
      BY <1>1, <2>1, <3>2, <3>4
  <2>4. s2 <= b.pos[t] \/ Bars(b, th, c, s2)
    BY <1>8, <2>1
  <2>5. CASE s2 <= b.pos[t]
    <3>1. s <= b.pos[t]
      BY <2>2, <2>3, <2>5
    <3> QED
      BY <2>1, <3>1
  <2>6. CASE Bars(b, th, c, s2)
    <3>1. Leq(c, c)
      BY <1>2, LeqOrder
    <3>2. Bars(b, th, c, s)
      BY <1>2, <2>2, <2>3, <2>6, <3>1, BarsMore
    <3> QED
      BY <2>1, <3>2
  <2> QED
    BY <2>4, <2>5, <2>6
<1>11. Barred(loc', thr', c, t, v)
  <2> SUFFICES ASSUME NEW x \in Loc
               PROVE  v[x].seen <= loc'[x].buf.pos[t] \/ Bars(loc'[x].buf, thr', c, v[x].seen)
    BY DEF Barred
  <2>1. CASE v[x].seen = v0[x].seen
    BY <1>8, <2>1
  <2>2. ASSUME NEW u \in Tid, c[u] \in DOMAIN hist.past[u],
               v[x].seen = hist.past[u][c[u]].view[x].seen
        PROVE  v[x].seen <= loc'[x].buf.pos[t] \/ Bars(loc'[x].buf, thr', c, v[x].seen)
    <3>1. CASE u = t
      BY <1>10, <2>2, <3>1
    <3>2. CASE u # t
      BY <1>9, <2>2, <3>2
    <3> QED
      BY <3>1, <3>2
  <2> QED
    BY <1>6, <2>1, <2>2
<1> QED
  BY <1>1, <1>4, <1>6, <1>11

\* What t read or made at its position, or what bars its clock, adds to its view.
LEMMA ReadBarred ==
  ASSUME NEW l, NEW th, NEW c, NEW t, NEW v \in Views, Barred(l, th, c, t, v),
         NEW x \in Loc, NEW p \in Nat, p <= l[x].buf.pos[t] \/ Bars(l[x].buf, th, c, p)
  PROVE  Barred(l, th, c, t, WithRead(v, x, p)) /\ SeenBelow(v, WithRead(v, x, p))
<1>1. PICK w : w = WithRead(v, x, p)
  OBVIOUS
<1>2. v[x].seen \in Nat /\ w[x].seen = Later(v[x].seen, p)
      /\ \A z \in Loc \ {x} : w[z].seen = v[z].seen
  BY <1>1 DEF WithRead, Views
<1>3. (w[x].seen = v[x].seen \/ w[x].seen = p) /\ v[x].seen <= w[x].seen
  BY <1>2 DEF Later
<1>4. ASSUME NEW z \in Loc
      PROVE  /\ w[z].seen <= l[z].buf.pos[t] \/ Bars(l[z].buf, th, c, w[z].seen)
             /\ v[z].seen <= w[z].seen
  <2>1. v[z].seen <= l[z].buf.pos[t] \/ Bars(l[z].buf, th, c, v[z].seen)
    BY DEF Barred
  <2>2. CASE z = x
    BY <1>3, <2>1, <2>2
  <2>3. CASE z # x
    <3>1. w[z].seen = v[z].seen /\ v[z].seen \in Nat
      BY <1>2, <2>3 DEF Views
    <3> QED
      BY <2>1, <3>1
  <2> QED
    BY <2>2, <2>3
<1> QED
  BY <1>1, <1>4 DEF Barred, SeenBelow

\* So is what it saw once it stored at its position.
LEMMA StoreBarred ==
  ASSUME NEW l, NEW th, NEW c, NEW t, NEW v \in Views, Barred(l, th, c, t, v),
         NEW x \in Loc, NEW p \in Nat, p = l[x].buf.pos[t], v[x].seen <= p
  PROVE  Barred(l, th, c, t, WithStore(v, x, p)) /\ SeenBelow(v, WithStore(v, x, p))
<1>1. PICK w : w = WithStore(v, x, p)
  OBVIOUS
<1>2. w[x].seen = p /\ \A z \in Loc \ {x} : w[z].seen = v[z].seen
  BY <1>1 DEF WithStore, Views
<1>3. ASSUME NEW z \in Loc
      PROVE  /\ w[z].seen <= l[z].buf.pos[t] \/ Bars(l[z].buf, th, c, w[z].seen)
             /\ v[z].seen <= w[z].seen
  <2>1. CASE z = x
    BY <1>2, <2>1
  <2>2. CASE z # x
    <3>1. w[z].seen = v[z].seen /\ v[z].seen \in Nat
      BY <1>2, <2>2 DEF Views
    <3> QED
      BY <3>1 DEF Barred
  <2> QED
    BY <2>1, <2>2
<1> QED
  BY <1>1, <1>3 DEF Barred, SeenBelow

\* The loads of t move no more, and are of epochs that it left.
CommittedBy(t) ==
  \A x \in Loc : loc'[x].buf.active[t] # NoLoad =>
    /\ Settled(thr', ActiveLoad(loc'[x].buf, t))
    /\ loc'[x].buf.active[t].epoch < thr'[t].epoch

\* Then what t publishes is backed.
LEMMA PublicationBacked ==
  ASSUME NEW t \in Tid, Steady(t), NEW pv \in Views, NEW pc \in Clock,
         Barred(loc', thr', pc, t, pv), pc[t] = thr'[t].epoch, CommittedBy(t)
  PROVE  Backed(loc', thr', [view |-> pv, clock |-> pc])
<1> SUFFICES ASSUME NEW x \in Loc PROVE Bars(loc'[x].buf, thr', pc, pv[x].seen)
  BY DEF Backed
<1>1. PICK b, th, s, e : /\ b = loc'[x].buf /\ th = thr' /\ s = pv[x].seen
                         /\ e = thr'[t].epoch
  OBVIOUS
<1>2. b \in Buffers(Clock) /\ Sound(b)
  BY <1>1, BuffersTyped DEF Steady
<1>3. s \in Nat /\ e \in Nat /\ b.pos[t] \in Nat /\ pc[t] = e
  BY <1>1, <1>2, SteadyThread, BufferParts DEF Views
<1>4. s <= b.pos[t] \/ Bars(b, th, pc, s)
  BY <1>1 DEF Barred
<1>5. Placed(b, t, e)
  BY <1>1 DEF Steady, PositionsPlaced
<1>6. b.active[t] # NoLoad => Settled(th, ActiveLoad(b, t)) /\ b.active[t].epoch < e
  BY <1>1 DEF CommittedBy
<1>7. \A q \in Held(b) : q \in Nat /\ Tag(b, q).epoch \in Nat
  BY <1>2, TagFacts
<1>8. ASSUME s <= b.pos[t] PROVE Bars(b, th, pc, s)
  <2>1. CASE \A q \in Held(b) : b.pos[t] <= q
    <3>1. \A q \in Held(b) : s <= q
      BY <1>3, <1>7, <1>8, <2>1
    <3> QED
      BY <3>1 DEF Bars
  <2>2. CASE b.active[t] # NoLoad
    <3>1. PICK l : l = ActiveLoad(b, t)
      OBVIOUS
    <3>2. l \in b.loads /\ b.pos[t] = b.active[t].at
      BY <1>2, <2>2, <3>1 DEF Sound, Attached
    <3>3. l.at = b.pos[t] /\ l.tid = t /\ l.epoch = b.active[t].epoch
      BY <3>1, <3>2 DEF ActiveLoad
    <3>4. l.epoch \in Nat
      BY <1>2, <3>2, BufferParts
    <3>5. l.at >= s /\ pc[l.tid] > l.epoch
      BY <1>3, <1>6, <1>8, <2>2, <3>3, <3>4
    <3> QED
      BY <1>6, <2>2, <3>1, <3>2, <3>5 DEF Bars
  <2>3. CASE b.pos[t] \in Held(b) /\ Tag(b, b.pos[t]).tid = t /\ Tag(b, b.pos[t]).epoch <= e
    <3>1. PICK q : q = b.pos[t]
      OBVIOUS
    <3>2. q \in Held(b) /\ q >= s /\ pc[Tag(b, q).tid] >= Tag(b, q).epoch
      BY <1>3, <1>7, <1>8, <2>3, <3>1
    <3> QED
      BY <3>2 DEF Bars
  <2> QED
    BY <1>5, <2>1, <2>2, <2>3 DEF Placed
<1> QED
  BY <1>1, <1>4, <1>8

\* A thread that releases has committed its loads; so has one that stops.
LEMMA ReleaseCommits ==
  ASSUME NEW t \in Tid, Steady(t), thr'[t].epoch = thr[t].epoch + 1,
         thr'[t].lastRelease = thr'[t].epoch \/ thr'[t].status = "finished",
         \A x \in Loc : loc'[x].buf.active[t] = NoLoad \/ loc'[x] = loc[x]
  PROVE  CommittedBy(t)
<1> SUFFICES ASSUME NEW x \in Loc, loc'[x].buf.active[t] # NoLoad
             PROVE  /\ Settled(thr', ActiveLoad(loc'[x].buf, t))
                    /\ loc'[x].buf.active[t].epoch < thr'[t].epoch
  BY DEF CommittedBy
<1>1. PICK b, k : b = loc[x].buf /\ k = b.active[t].epoch
  OBVIOUS
<1>2. loc'[x].buf = b
  BY <1>1
<1>3. k <= thr[t].epoch
  BY <1>1 DEF Steady, ReadInv, LoadsReached
<1>4. k \in Nat
  BY <1>1, BuffersTyped, BufferParts DEF Steady
<1>5. thr[t].epoch \in Nat
  BY SteadyThread
<1>6. k < thr'[t].epoch
  BY <1>3, <1>4, <1>5
<1>7. ActiveLoad(b, t).tid = t /\ ActiveLoad(b, t).epoch = k
  BY <1>1 DEF ActiveLoad
<1>8. thr'[t].lastRelease > k \/ thr'[t].status = "finished"
  BY <1>4, <1>5, <1>6
<1>9. Settled(thr', ActiveLoad(b, t))
  BY <1>7, <1>8 DEF Settled
<1> QED
  BY <1>1, <1>2, <1>6, <1>9

\* A thread that gives its clock to the mutex or to a thread it creates has released
\* since each of its loads that still moves: neither MutexUnlock nor OnCreated sets
\* last_release, so that nothing else commits those loads.
CommitsFirst ==
  \A t \in Running :
    \/ mutex.holder = t /\ mutex'.holder # t
    \/ \E u \in Tid : /\ Creator[u] = t /\ thr[u].status = "invalid"
                      /\ thr'[u].status # "invalid"
    => \A x \in Loc : loc[x].buf.active[t] # NoLoad =>
         thr[t].lastRelease > loc[x].buf.active[t].epoch

\* So what it publishes is backed, too.
LEMMA FirstCommits ==
  ASSUME NEW t \in Tid, Steady(t), thr'[t].epoch = thr[t].epoch + 1, loc' = loc,
         thr'[t].lastRelease = thr[t].lastRelease,
         \A x \in Loc : loc[x].buf.active[t] # NoLoad =>
           thr[t].lastRelease > loc[x].buf.active[t].epoch
  PROVE  CommittedBy(t)
<1> SUFFICES ASSUME NEW x \in Loc, loc'[x].buf.active[t] # NoLoad
             PROVE  /\ Settled(thr', ActiveLoad(loc'[x].buf, t))
                    /\ loc'[x].buf.active[t].epoch < thr'[t].epoch
  BY DEF CommittedBy
<1>1. PICK b, k : b = loc[x].buf /\ k = b.active[t].epoch
  OBVIOUS
<1>2. loc'[x].buf = b
  BY <1>1
<1>3. k <= thr[t].epoch
  BY <1>1 DEF Steady, ReadInv, LoadsReached
<1>4. k \in Nat
  BY <1>1, BuffersTyped, BufferParts DEF Steady
<1>5. thr[t].epoch \in Nat
  BY SteadyThread
<1>6. k < thr'[t].epoch
  BY <1>3, <1>4, <1>5
<1>7. ActiveLoad(b, t).tid = t /\ ActiveLoad(b, t).epoch = k
  BY <1>1 DEF ActiveLoad
<1>8. thr'[t].lastRelease > k
  BY <1>1, <1>2
<1>9. Settled(thr', ActiveLoad(b, t))
  BY <1>7, <1>8 DEF Settled
<1> QED
  BY <1>1, <1>2, <1>6, <1>9

\* A good clock of backed publications is one to share.
LEMMA BackedShared ==
  ASSUME NEW t \in Tid, NEW H, H = BackedClocks(thr', loc', hist'.past),
         NEW c \in GoodClocks(thr', hist'.past),
         \A u \in Tid \ {t} : c[u] = 0 \/ Backed(loc', thr', hist'.past[u][c[u]]),
         c[t] = 0 \/ Backed(loc', thr', hist'.past[t][c[t]])
  PROVE  c \in H
<1>1. \A u \in Tid : c[u] = 0 \/ Backed(loc', thr', hist'.past[u][c[u]])
  OBVIOUS
<1> QED
  BY <1>1 DEF BackedClocks

\* So is the clock of t, once it has published.
LEMMA ActorShares ==
  ASSUME NEW t \in Tid, Steady(t), NEW H, H = BackedClocks(thr', loc', hist'.past),
         thr'[t].status # "invalid", BacksOthers(t), thr'[t].clock[t] = thr'[t].epoch,
         Backed(loc', thr', hist'.past[t][thr'[t].epoch])
  PROVE  thr'[t].clock \in H
<1>1. PICK c : c = thr'[t].clock
  OBVIOUS
<1>2. c \in GoodClocks(thr', hist'.past)
  BY <1>1, SteadyThread
<1>3. \A u \in Tid \ {t} : c[u] = 0 \/ Backed(loc', thr', hist'.past[u][c[u]])
  BY <1>1 DEF BacksOthers
<1>4. Backed(loc', thr', hist'.past[t][c[t]])
  BY <1>1
<1>5. c \in H
  BY <1>2, <1>3, <1>4, BackedShared
<1> QED
  BY <1>1, <1>5

-----------------------------------------------------------------------------
(* The invariant of the reads, step by step. *)

\* What it takes.
LEMMA ReadsKept ==
  ASSUME NEW t, Steady(t), NEW H, H = BackedClocks(thr', loc', hist'.past), SharesIn(H)',
         \A w \in Tid : BacksOthers(w),
         \A u \in Tid : \/ hist'.view[u] = hist.view[u] /\ thr'[u].clock = thr[u].clock
                        \/ Barred(loc', thr', thr'[u].clock, u, hist'.view[u]),
         \A u \in Tid : \A e \in DOMAIN hist'.past[u] :
           SeenBelow(hist'.past[u][e].view, hist'.view[u])
  PROVE  ReadInv'
<1>1. SharesIn(BackedClocks(thr, loc, hist.past))'
  BY DEF SharesIn, LocationsIn, MutexIn
<1>2. OthersBacked'
  BY DEF OthersBacked, BacksOthers
<1>3. PastBelow'
  BY DEF PastBelow, SeenBelow
<1>4. ASSUME NEW u \in Tid PROVE Barred(loc', thr', thr'[u].clock, u, hist'.view[u])
  <2>1. CASE hist'.view[u] = hist.view[u] /\ thr'[u].clock = thr[u].clock
    <3>1. PICK c, v : c = thr[u].clock /\ v = hist.view[u]
      OBVIOUS
    <3>2. c \in Clock /\ v \in Views /\ Leq(c, c)
      BY <3>1, SteadyThread, LeqOrder
    <3>3. ASSUME NEW x \in Loc
          PROVE  v[x].seen <= loc'[x].buf.pos[u] \/ Bars(loc'[x].buf, thr', c, v[x].seen)
      <4>1. PICK s : s = v[x].seen
        OBVIOUS
      <4>2. s \in Nat /\ (s <= loc[x].buf.pos[u] \/ Bars(loc[x].buf, thr, c, s))
        BY <3>1, <3>2, <4>1 DEF Steady, ReadInv, ReadsBarred, Barred, Views
      <4>3. CASE s <= loc[x].buf.pos[u]
        <5>1. loc[x].buf.pos[u] \in Nat /\ loc'[x].buf.pos[u] \in Nat
          BY BuffersTyped, BufferParts DEF Steady
        <5>2. loc[x].buf.pos[u] <= loc'[x].buf.pos[u]
          BY DEF Steady
        <5>3. s <= loc'[x].buf.pos[u]
          BY <4>2, <4>3, <5>1, <5>2
        <5> QED
          BY <4>1, <5>3
      <4>4. CASE Bars(loc[x].buf, thr, c, s)
        <5>1. Bars(loc'[x].buf, thr', c, s)
          BY <3>2, <4>2, <4>4, BarsKept DEF Steady
        <5> QED
          BY <4>1, <5>1
      <4> QED
        BY <4>2, <4>3, <4>4
    <3>4. Barred(loc', thr', c, u, v)
      BY <3>3 DEF Barred
    <3> QED
      BY <2>1, <3>1, <3>4
  <2> QED
    BY <2>1
<1>5. ReadsBarred'
  BY <1>4 DEF ReadsBarred
<1>6. PositionsPlaced' /\ LoadsReached'
  BY DEF Steady
<1> QED
  BY <1>1, <1>2, <1>3, <1>5, <1>6 DEF ReadInv

\* Views are ordered by what they saw.
LEMMA SeenOrder ==
  ASSUME NEW a \in Views, NEW b \in Views
  PROVE  /\ SeenBelow(a, a)
         /\ \A c \in Views : SeenBelow(a, b) /\ SeenBelow(b, c) => SeenBelow(a, c)
<1>1. \A x \in Loc : a[x].seen \in Nat /\ b[x].seen \in Nat
  BY DEF Views
<1>2. SeenBelow(a, a)
  BY <1>1 DEF SeenBelow
<1>3. ASSUME NEW c \in Views, SeenBelow(a, b), SeenBelow(b, c) PROVE SeenBelow(a, c)
  <2> SUFFICES ASSUME NEW x \in Loc PROVE a[x].seen <= c[x].seen
    BY DEF SeenBelow
  <2>1. a[x].seen <= b[x].seen /\ b[x].seen <= c[x].seen
    BY <1>3 DEF SeenBelow
  <2>2. c[x].seen \in Nat
    BY DEF Views
  <2> QED
    BY <1>1, <2>1, <2>2
<1> QED
  BY <1>2, <1>3

\* Where t enters an epoch.
LEMMA TickReads ==
  ASSUME NEW t \in Tid, Steady(t), NEW H, H = BackedClocks(thr', loc', hist'.past),
         SharesIn(H)', AcquiresFrom(H, t), thr[t].status # "invalid",
         NEW pv, NEW pc, NEW v, Ticks(t, pv, pc, v),
         Barred(loc', thr', thr'[t].clock, t, v),
         SeenBelow(hist.view[t], v), SeenBelow(pv, v)
  PROVE  ReadInv'
<1>1. /\ \A u \in Tid \ {t} : thr'[u] = thr[u]
      /\ pv \in Views /\ v \in Views
      /\ hist'.past = Publishes(hist.past, t, pv, pc)
      /\ hist'.view = [hist.view EXCEPT ![t] = v]
      /\ thr'[t].epoch = thr[t].epoch + 1
  BY DEF Ticks
<1>2. HistoryIn(hist, thr, loc)
  BY GoodTyped DEF Steady
<1>3. hist'.view[t] = v /\ \A u \in Tid \ {t} : /\ hist'.view[u] = hist.view[u]
                                                /\ hist'.past[u] = hist.past[u]
  BY <1>1, <1>2 DEF Publishes, HistoryIn
<1>4. ASSUME NEW w \in Tid PROVE BacksOthers(w)
  <2>1. CASE w = t
    BY <2>1, ActorBacks
  <2>2. CASE w # t
    BY <1>1, <2>2, OtherBacks
  <2> QED
    BY <2>1, <2>2
<1>5. ASSUME NEW u \in Tid
      PROVE  \/ hist'.view[u] = hist.view[u] /\ thr'[u].clock = thr[u].clock
             \/ Barred(loc', thr', thr'[u].clock, u, hist'.view[u])
  BY <1>1, <1>3
<1>6. ASSUME NEW u \in Tid, NEW e \in DOMAIN hist'.past[u]
      PROVE  SeenBelow(hist'.past[u][e].view, hist'.view[u])
  <2>1. CASE u # t
    <3>1. hist'.past[u] = hist.past[u] /\ hist'.view[u] = hist.view[u]
      BY <1>3, <2>1
    <3> QED
      BY <3>1 DEF Steady, ReadInv, PastBelow, SeenBelow
  <2>2. CASE u = t
    <3>1. /\ hist.past[t] \in Seq(Publications) /\ Len(hist.past[t]) = thr[t].epoch
          /\ hist.view[t] \in Views
      BY <1>2 DEF HistoryIn
    <3>2. PICK s, p, n : s = hist.past[t] /\ p = [view |-> pv, clock |-> pc] /\ n = Len(s)
      OBVIOUS
    <3>3. hist'.past[t] = Append(s, p)
      BY <1>1, <1>2, <3>2 DEF Publishes, HistoryIn
    <3>4. s \in Seq(Publications) /\ n \in Nat /\ e \in DOMAIN Append(s, p)
      BY <2>2, <3>1, <3>2, <3>3
    <3>5. e \in 1..(n + 1)
      BY <3>2, <3>4
    <3>6. CASE e = n + 1
      <4>1. Append(s, p)[e] = p
        BY <3>2, <3>4, <3>6
      <4> QED
        BY <1>3, <2>2, <3>2, <3>3, <4>1
    <3>7. CASE e # n + 1
      <4>1. e \in 1..n
        BY <3>4, <3>5, <3>7
      <4>2. Append(s, p)[e] = s[e] /\ e \in DOMAIN s /\ s[e] \in Publications
        BY <3>2, <3>4, <4>1
      <4>3. SeenBelow(hist.past[t][e].view, hist.view[t])
        BY <3>2, <4>2 DEF Steady, ReadInv, PastBelow, SeenBelow
      <4>4. hist.past[t][e].view \in Views
        BY <3>2, <4>2 DEF Publications
      <4>5. SeenBelow(hist.past[t][e].view, v)
        BY <1>1, <3>1, <4>3, <4>4, SeenOrder
      <4> QED
        BY <1>3, <2>2, <3>2, <3>3, <4>2, <4>5
    <3> QED
      BY <3>6, <3>7
  <2> QED
    BY <2>1, <2>2
<1> QED
  BY <1>4, <1>5, <1>6, ReadsKept

\* Where t only learns.
LEMMA LearnReads ==
  ASSUME NEW t \in Tid, Steady(t), NEW H, H = BackedClocks(thr', loc', hist'.past),
         SharesIn(H)', AcquiresFrom(H, t),
         NEW v, Learns(t, v), \A u \in Tid \ {t} : thr'[u].clock = thr[u].clock,
         Barred(loc', thr', thr'[t].clock, t, v), SeenBelow(hist.view[t], v)
  PROVE  ReadInv'
<1>1. hist'.past = hist.past /\ hist'.view = [hist.view EXCEPT ![t] = v] /\ v \in Views
  BY DEF Learns
<1>2. HistoryIn(hist, thr, loc)
  BY GoodTyped DEF Steady
<1>3. hist'.view[t] = v /\ \A u \in Tid \ {t} : hist'.view[u] = hist.view[u]
  BY <1>1, <1>2 DEF HistoryIn
<1>4. ASSUME NEW w \in Tid PROVE BacksOthers(w)
  <2>1. CASE w = t
    BY <2>1, ActorBacks
  <2>2. CASE w # t
    BY <2>2, OtherBacks
  <2> QED
    BY <2>1, <2>2
<1>5. ASSUME NEW u \in Tid
      PROVE  \/ hist'.view[u] = hist.view[u] /\ thr'[u].clock = thr[u].clock
             \/ Barred(loc', thr', thr'[u].clock, u, hist'.view[u])
  BY <1>3
<1>6. ASSUME NEW u \in Tid, NEW e \in DOMAIN hist'.past[u]
      PROVE  SeenBelow(hist'.past[u][e].view, hist'.view[u])
  <2>1. e \in DOMAIN hist.past[u] /\ hist'.past[u][e] = hist.past[u][e]
    BY <1>1
  <2>2. SeenBelow(hist.past[u][e].view, hist.view[u])
    BY <2>1 DEF Steady, ReadInv, PastBelow, SeenBelow
  <2>3. CASE u # t
    BY <1>3, <2>1, <2>2, <2>3
  <2>4. CASE u = t
    <3>1. hist.past[u][e].view \in Views /\ hist.view[u] \in Views
      <4>1. hist.past[u] \in Seq(Publications) /\ hist.view[u] \in Views
        BY <1>2 DEF HistoryIn
      <4>2. hist.past[u][e] \in Publications
        BY <2>1, <4>1
      <4> QED
        BY <4>1, <4>2 DEF Publications
    <3>2. SeenBelow(hist.past[u][e].view, v)
      BY <1>1, <2>2, <2>4, <3>1, SeenOrder
    <3> QED
      BY <1>3, <2>1, <2>4, <3>2
  <2> QED
    BY <2>3, <2>4
<1> QED
  BY <1>4, <1>5, <1>6, ReadsKept

\* t may release the epoch it enters; the other threads stay as they are.
LEMMA GoesOn ==
  ASSUME GoodInv, NEW t \in Running, \A u \in Tid \ {t} : thr'[u] = thr[u],
         thr'[t].lastRelease = thr[t].lastRelease \/ thr'[t].lastRelease = thr[t].epoch + 1
  PROVE  Goes
<1>1. t \in Tid /\ thr[t].status = "running" /\ thr[t].epoch \in Nat
  BY GoodThread DEF Running
<1>2. thr[t].epoch + 1 > thr[t].epoch
  BY <1>1
<1> SUFFICES ASSUME NEW u \in Tid
             PROVE  /\ thr'[u].lastRelease = thr[u].lastRelease
                         \/ thr'[u].lastRelease > thr[u].epoch
                    /\ thr[u].status \in {"finished", "dead"} =>
                         thr'[u].status \in {"finished", "dead"}
  BY DEF Goes
<1>3. CASE u = t
  BY <1>1, <1>2, <1>3
<1>4. CASE u # t
  BY <1>4
<1> QED
  BY <1>3, <1>4

\* It turns the buffers if it leaves them alone, but for one that it turns.
LEMMA TurnsAt ==
  ASSUME NEW t, NEW x, \A z \in Loc \ {x} : loc'[z] = loc[z],
         Turned(loc[x].buf, t, thr[t].lastRelease, thr'[t].epoch, loc'[x].buf)
  PROVE  Turns(t)
<1> SUFFICES ASSUME NEW z \in Loc
             PROVE  Turned(loc[z].buf, t, thr[t].lastRelease, thr'[t].epoch, loc'[z].buf)
  BY DEF Turns
<1>1. CASE z = x
  BY <1>1
<1>2. CASE z # x
  <2>1. loc'[z].buf = loc[z].buf
    BY <1>2
  <2> QED
    BY <2>1 DEF Turned
<1> QED
  BY <1>1, <1>2

\* A step that changes no location turns no buffer.
LEMMA TurnsNone ==
  ASSUME NEW t, loc' = loc
  PROVE  Turns(t)
BY DEF Turns, Turned

\* A load of t that moved to p, or that is at the end already, bars what is before p.
LEMMA MoveBarred ==
  ASSUME NEW b \in Buffers(Clock), Sound(b), NEW t \in Tid, NEW th, th.tid = t,
         NEW p \in Nat, NEW r, NEW all, NEW c,
         \/ Moved(b, th, p, r)
         \/ r = b /\ p = End(b) /\ AtEnd(b, t)
  PROVE  p <= r.pos[t] \/ Bars(r, all, c, p)
<1>1. CASE Moved(b, th, p, r)
  BY <1>1 DEF Moved
<1>2. CASE r = b /\ p = End(b) /\ DOMAIN b.stores = {}
  <2>1. \A q \in Held(b) : q = p
    BY <1>2 DEF Held
  <2> QED
    BY <1>2, <2>1 DEF Bars
<1>3. CASE r = b /\ p = End(b) /\ b.active[t].at = End(b)
  <2>1. End(b) # 0
    BY BufferParts DEF End
  <2>2. b.active[t] # NoLoad
    BY <1>3, <2>1 DEF NoLoad
  <2>3. b.pos[t] = p
    BY <1>3, <2>2 DEF Sound, Attached
  <2> QED
    BY <1>3, <2>3
<1> QED
  BY <1>1, <1>2, <1>3 DEF AtEnd

\* AtomicLoad.
LEMMA LoadReads ==
  ASSUME KeepsHistory, GoodInv, CoverInv, ReadInv, NEW t \in Running, NEW x \in Loc,
         NEW mo, NEW p, LoadAt(t, x, mo, p)
  PROVE  ReadInv'
<1>1. /\ ClocksIn(Clock) /\ HistInv(hist, thr, loc)
      /\ t \in Tid /\ thr[t].status # "invalid" /\ thr[t].epoch \in Nat
      /\ thr[t].clock \in Clock /\ thr[t].epoch + 1 \in Nat
  BY GoodThread
<1>2. PICK v : v = Learn(hist.view[t], thr'[t].clock)
  OBVIOUS
<1>3. /\ ClocksIn(Clock)' /\ EndsGrow /\ v \in Views /\ Within(loc', v)
      /\ Learns(t, WithRead(v, x, p)) /\ SameOrder(hist', hist)
      /\ \A z \in Loc : End(loc'[z].buf) = End(loc[z].buf)
  BY <1>1, <1>2, LoadHistory
<1>4. PICK th : th = ScReads(thr[t], mo)
  OBVIOUS
<1>5. /\ NewThread(t, "running", thr[t].epoch, thr[t].lastRelease, thr[t].slimit,
                   thr[t].swrite, ScReads(thr[t], mo).sread)
      /\ Acquires(Clock, t, thr[t].epoch)
      /\ NewLocation(x, loc[x].sync, FetchStore(loc[x].buf, ScReads(thr[t], mo), p))
      /\ p \in Held(loc[x].buf)
      /\ thr'[t].clock \in Clock => ClocksIn(Clock)'
  BY <1>1, LoadStep, ClockLattice
<1>6. /\ thr'[t].epoch = thr[t].epoch /\ thr'[t].lastRelease = thr[t].lastRelease
      /\ thr'[t].status = "running" /\ \A u \in Tid \ {t} : thr'[u] = thr[u]
  BY <1>5 DEF NewThread, ThreadIs
<1>7. /\ thr[t] \in ThreadStates(Clock) /\ thr[t].tid = t /\ ctx.sfence \in Clock
      /\ loc[x].buf \in Buffers(Clock) /\ Sound(loc[x].buf)
  BY <1>1, StateParts, ClockLattice
<1>8. /\ th \in ThreadStates(Clock) /\ th.tid = t /\ th.epoch = thr'[t].epoch
      /\ th.lastRelease = thr[t].lastRelease
  <2>1. PICK k : k = thr[t]
    OBVIOUS
  <2>2. th.epoch = k.epoch /\ th.lastRelease = k.lastRelease
    BY <1>4, <1>7, <2>1 DEF ScReads, SCRead, ThreadStates
  <2> QED
    BY <1>4, <1>6, <1>7, <2>1, <2>2, ScReadsFacts
<1>9. PICK b, r : b = loc[x].buf /\ r = FetchStore(b, th, p)
  OBVIOUS
<1>10. /\ b \in Buffers(Clock) /\ Sound(b) /\ p \in Held(b)
       /\ loc'[x].buf = r /\ \A z \in Loc \ {x} : loc'[z] = loc[z]
  BY <1>4, <1>5, <1>7, <1>9 DEF NewLocation
<1>11. IF AtEnd(b, t) THEN r = b ELSE Moved(b, th, p, r)
  BY <1>8, <1>9, <1>10, FetchStoreFacts
<1>12. p \in Nat /\ p >= b.pos[t] /\ (AtEnd(b, t) => p = End(b))
  <2>1. PICK isSc : isSc = (mo = "seq_cst")
    OBVIOUS
  <2>2. isSc \in BOOLEAN /\ p \in Readable(b, th, isSc)
    BY <1>4, <1>9, <2>1 DEF LoadAt, NextReads
  <2>3. p >= b.pos[th.tid] /\ (AtEnd(b, th.tid) => p = End(b))
    BY <1>8, <1>10, <2>2, ReadableFacts
  <2> QED
    BY <1>8, <1>10, <2>3, TagFacts
<1>13. Turned(b, t, thr[t].lastRelease, thr'[t].epoch, r)
  BY <1>8, <1>10, <1>11, <1>12 DEF Turned
<1>14. Turns(t)
  BY <1>9, <1>10, <1>13, TurnsAt
<1>15. Goes
  BY <1>6, GoesOn
<1>16. StepOf(t)
  BY DEF StepOf
<1>17. Steady(t)
  BY <1>14, <1>15, <1>16, StepSteady
<1>18. PICK H : H = BackedClocks(thr', loc', hist'.past)
  OBVIOUS
<1>19. Lattice(H) /\ SharesIn(H) /\ ClocksIn(Clock)
  BY <1>17, <1>18, SharesAfter
<1>20. AcquiresFrom(H, t) /\ SharesIn(H)'
  BY <1>19, LoadShares
<1>21. BacksOthers(t)
  BY <1>1, <1>17, <1>18, <1>20, ActorBacks
<1>22. thr'[t].status # "invalid"
       /\ \A u \in Tid : thr[u].status = "invalid" => thr'[u].status = "invalid"
  BY <1>6, OthersSettled
<1>23. /\ Barred(loc', thr', thr'[t].clock, t, v)
       /\ v \in Views /\ SeenBelow(hist.view[t], v)
  BY <1>1, <1>2, <1>17, <1>21, <1>22, LearntBarred
<1>24. PICK all, c : all = thr' /\ c = thr'[t].clock
  OBVIOUS
<1>25. p <= loc'[x].buf.pos[t] \/ Bars(loc'[x].buf, all, c, p)
  <2>1. Moved(b, th, p, r) \/ (r = b /\ p = End(b) /\ AtEnd(b, t))
    BY <1>11, <1>12
  <2>2. p <= r.pos[t] \/ Bars(r, all, c, p)
    BY <1>1, <1>8, <1>10, <1>12, <2>1, MoveBarred
  <2> QED
    BY <1>10, <2>2
<1>26. PICK w, l : w = WithRead(v, x, p) /\ l = loc'
  OBVIOUS
<1>27. Barred(l, all, c, t, w) /\ SeenBelow(v, w)
  <2>1. Barred(l, all, c, t, v) /\ (p <= l[x].buf.pos[t] \/ Bars(l[x].buf, all, c, p))
    BY <1>23, <1>24, <1>25, <1>26
  <2>2. Barred(l, all, c, t, WithRead(v, x, p)) /\ SeenBelow(v, WithRead(v, x, p))
    BY <1>12, <1>23, <2>1, ReadBarred
  <2> QED
    BY <1>26, <2>2
<1>28. Learns(t, w) /\ Barred(loc', thr', thr'[t].clock, t, w) /\ SeenBelow(hist.view[t], w)
  <2>1. Learns(t, w) /\ w \in Views
    BY <1>3, <1>26 DEF Learns
  <2>2. hist.view[t] \in Views
    BY <1>1, <1>17, SteadyThread
  <2> QED
    BY <1>23, <1>24, <1>26, <1>27, <2>1, <2>2, SeenOrder
<1> QED
  BY <1>1, <1>6, <1>17, <1>18, <1>20, <1>28, LearnReads

\* A thread that stamped its clock knows its own epoch by it.
LEMMA StampedAt ==
  ASSUME NEW t \in Tid, Steady(t), thr'[t].status # "invalid",
         Acquires(Clock, t, thr'[t].epoch)
  PROVE  thr'[t].clock[t] = thr'[t].epoch
<1>1. PICK d \in Clock : thr'[t].clock = Join(Raised(thr[t].clock, t, thr'[t].epoch), d)
  BY DEF Acquires
<1>2. PICK a, c, e : a = thr[t].clock /\ c = thr'[t].clock /\ e = thr'[t].epoch
  OBVIOUS
<1>3. a \in Clock /\ e \in Nat /\ c \in GoodClocks(thr', hist'.past)
  BY <1>2, SteadyThread
<1>4. PICK r : r = Raised(a, t, e)
  OBVIOUS
<1>5. r \in Clock /\ r[t] = e
  <2>1. r \in Clock
    BY <1>3, <1>4, RaisedType
  <2> QED
    BY <1>3, <1>4, <2>1 DEF Raised, Clock
<1>6. c = Join(r, d)
  BY <1>1, <1>2, <1>4
<1>7. Leq(r, c)
  BY <1>5, <1>6, ClockFacts
<1>8. c \in Clock /\ c[t] <= e
  BY <1>2, <1>3 DEF GoodClocks, Reached
<1>9. r[t] <= c[t] /\ c[t] \in Nat
  BY <1>7, <1>8 DEF Leq, Clock
<1>10. c[t] = e
  BY <1>3, <1>5, <1>8, <1>9
<1> QED
  BY <1>2, <1>10

\* A store, once it is known what it does; rel: whether it is a release.
LEMMA StoredReads ==
  ASSUME KeepsHistory, GoodInv, CoverInv, ReadInv, NEW t \in Running, StepOf(t),
         NEW x \in Loc, NEW mo, NEW th, NEW v, v = Learn(hist.view[t], thr'[t].clock),
         StoredBy(t, x, mo, th, v), NEW rel \in BOOLEAN,
         IF rel THEN /\ thr'[t].lastRelease = thr[t].epoch + 1
                     /\ Acquires(Clock, t, thr[t].epoch + 1)
                ELSE thr'[t].lastRelease = thr[t].lastRelease,
         NEW H, H = BackedClocks(thr', loc', hist'.past),
         Lattice(H) /\ SharesIn(H) /\ ClocksIn(Clock) =>
           /\ AcquiresFrom(H, t)
           /\ (rel => thr'[t].clock \in H) => SharesIn(H)'
  PROVE  ReadInv'
<1>1. /\ ClocksIn(Clock) /\ HistInv(hist, thr, loc)
      /\ t \in Tid /\ thr[t].status # "invalid" /\ thr[t].epoch \in Nat
      /\ thr[t].clock \in Clock /\ thr[t].epoch + 1 \in Nat
  BY GoodThread
<1>2. PICK b, r, n, l, all, c : /\ b = loc[x].buf /\ r = loc'[x].buf /\ n = End(r)
                                /\ l = loc' /\ all = thr' /\ c = thr'[t].clock
  OBVIOUS
<1>3. PICK w : w = WithStore(v, x, n)
  OBVIOUS
<1>4. /\ ClocksIn(Clock)' /\ EndsGrow /\ v \in Views /\ Within(loc', v)
      /\ Ticks(t, w, c, w)
      /\ th \in ThreadStates(Clock) /\ th.tid = t /\ th.epoch = thr'[t].epoch
      /\ th.lastRelease = thr[t].lastRelease
      /\ Stored(b, th, mo = "seq_cst", r)
      /\ \A z \in Loc \ {x} : loc'[z] = loc[z]
  BY <1>2, <1>3 DEF StoredBy
<1>5. /\ thr'[t].epoch = thr[t].epoch + 1 /\ thr'[t].status # "invalid"
      /\ \A u \in Tid \ {t} : thr'[u] = thr[u]
      /\ w \in Views
  BY <1>4 DEF Ticks
<1>6. Turns(t)
  <2>1. PICK isSc : isSc = (mo = "seq_cst")
    OBVIOUS
  <2>2. Stored(b, th, isSc, r)
    BY <1>4, <2>1
  <2>3. Turned(b, t, thr[t].lastRelease, thr'[t].epoch, r)
    BY <1>4, <2>2 DEF Turned
  <2> QED
    BY <1>2, <1>4, <2>3, TurnsAt
<1>7. Goes
  BY <1>5, GoesOn
<1>8. Steady(t)
  BY <1>6, <1>7, StepSteady
<1>9. Lattice(H) /\ SharesIn(H) /\ ClocksIn(Clock)
  BY <1>8, SharesAfter
<1>10. AcquiresFrom(H, t)
  BY <1>9
<1>11. BacksOthers(t)
  BY <1>1, <1>8, <1>10, ActorBacks
<1>12. \A u \in Tid : thr[u].status = "invalid" => thr'[u].status = "invalid"
  BY <1>5, OthersSettled
<1>13. /\ Barred(loc', thr', thr'[t].clock, t, v)
       /\ v \in Views /\ SeenBelow(hist.view[t], v)
  BY <1>1, <1>5, <1>8, <1>11, <1>12, LearntBarred
<1>14. n \in Nat /\ n = l[x].buf.pos[t] /\ v[x].seen <= n /\ r.active[t] = NoLoad
  <2>1. n \in Nat
    <3>1. r \in Buffers(Clock)
      BY <1>2, <1>8, BuffersTyped DEF Steady
    <3> QED
      BY <1>2, <3>1, BufferParts DEF End
  <2>2. r.pos[t] = End(r) /\ r.active[t] = NoLoad
    BY <1>4 DEF Stored
  <2>3. v[x].seen <= n
    BY <1>2, <1>4 DEF Within
  <2> QED
    BY <1>2, <2>1, <2>2, <2>3
<1>15. Barred(l, all, c, t, w) /\ SeenBelow(v, w)
  <2>1. Barred(l, all, c, t, v)
    BY <1>2, <1>13
  <2>2. Barred(l, all, c, t, WithStore(v, x, n)) /\ SeenBelow(v, WithStore(v, x, n))
    BY <1>4, <1>14, <2>1, StoreBarred
  <2> QED
    BY <1>3, <2>2
<1>16. SharesIn(H)'
  <2>1. CASE ~rel
    BY <1>9, <2>1
  <2>2. CASE rel
    <3>1. CommittedBy(t)
      <4>1. \A z \in Loc : loc'[z].buf.active[t] = NoLoad \/ loc'[z] = loc[z]
        BY <1>2, <1>4, <1>14
      <4> QED
        BY <1>1, <1>5, <1>8, <2>2, <4>1, ReleaseCommits
    <3>2. thr'[t].clock[t] = thr'[t].epoch
      BY <1>1, <1>5, <1>8, <2>2, StampedAt
    <3>3. c \in Clock /\ c[t] = thr'[t].epoch /\ Barred(loc', thr', c, t, w)
      BY <1>2, <1>4, <1>15, <3>2 DEF Ticks
    <3>4. Backed(loc', thr', [view |-> w, clock |-> c])
      BY <1>1, <1>5, <1>8, <3>1, <3>3, PublicationBacked
    <3>5. Kept /\ hist'.past[t][thr'[t].epoch] = [view |-> w, clock |-> c]
      BY <1>1, <1>4, TickKept
    <3>6. Backed(loc', thr', hist'.past[t][thr'[t].epoch])
      BY <3>4, <3>5
    <3>7. thr'[t].clock \in H
      BY <1>1, <1>5, <1>8, <1>11, <3>2, <3>6, ActorShares
    <3> QED
      BY <1>9, <3>7
  <2> QED
    BY <2>1, <2>2
<1>17. SeenBelow(hist.view[t], w) /\ SeenBelow(w, w)
  <2>1. hist.view[t] \in Views
    BY <1>1, <1>8, SteadyThread
  <2> QED
    BY <1>5, <1>13, <1>15, <2>1, SeenOrder
<1>18. Barred(loc', thr', thr'[t].clock, t, w)
  BY <1>2, <1>15
<1> QED
  BY <1>1, <1>4, <1>8, <1>10, <1>16, <1>17, <1>18, TickReads

\* AtomicStore.
LEMMA StoreReads ==
  ASSUME KeepsHistory, GoodInv, CoverInv, ReadInv, NEW t \in Running, NEW x \in Loc, NEW mo,
         Store(t, x, mo)
  PROVE  ReadInv'
<1>1. PICK v, th, rel : /\ v = Learn(hist.view[t], thr'[t].clock)
                        /\ th = Stamped(Ticked(thr[t])) /\ rel = IsReleaseOrder(mo)
  OBVIOUS
<1>2. ClocksIn(Clock) /\ HistInv(hist, thr, loc)
  BY GoodThread
<1>3. StoredBy(t, x, mo, th, v)
  BY <1>1, <1>2, StoreEffect
<1>4. /\ NewThread(t, "running", thr[t].epoch + 1,
                   IF IsReleaseOrder(mo) THEN thr[t].epoch + 1 ELSE thr[t].lastRelease,
                   thr[t].slimit, thr[t].swrite, thr[t].sread)
      /\ Acquires(Clock, t, thr[t].epoch + 1)
      /\ thr'[t].clock = th.clock
      /\ \E sync : NewLocation(x, sync, Buffered(x, th, mo))
      /\ ctx'.sfence = ctx.sfence
      /\ ctx'.swrite = IF mo = "seq_cst" THEN Raised(ctx.swrite, t, thr[t].epoch + 1)
                                         ELSE ctx.swrite
      /\ thr'[t].clock \in Clock => ClocksIn(Clock)'
  BY <1>1, <1>2, StoreStep, ClockLattice
<1>5. rel \in BOOLEAN
  BY <1>1 DEF IsReleaseOrder
<1>6. IF rel THEN /\ thr'[t].lastRelease = thr[t].epoch + 1
                  /\ Acquires(Clock, t, thr[t].epoch + 1)
             ELSE thr'[t].lastRelease = thr[t].lastRelease
  BY <1>1, <1>4 DEF NewThread, ThreadIs
<1>7. PICK H : H = BackedClocks(thr', loc', hist'.past)
  OBVIOUS
<1>8. ASSUME Lattice(H), SharesIn(H), ClocksIn(Clock)
      PROVE  /\ AcquiresFrom(H, t)
             /\ (rel => thr'[t].clock \in H) => SharesIn(H)'
  <2>1. /\ AcquiresFrom(H, t)
        /\ (IsReleaseOrder(mo) => thr'[t].clock \in H) => SharesIn(H)'
    BY <1>8, StoreShares
  <2> QED
    BY <1>1, <2>1
<1>9. StepOf(t)
  BY DEF StepOf
<1>10. Lattice(H) /\ SharesIn(H) /\ ClocksIn(Clock) =>
         /\ AcquiresFrom(H, t)
         /\ (rel => thr'[t].clock \in H) => SharesIn(H)'
  BY <1>8
<1> QED
  BY <1>1, <1>3, <1>5, <1>6, <1>7, <1>9, <1>10, StoredReads

\* AtomicRMW.
LEMMA RmwReads ==
  ASSUME KeepsHistory, GoodInv, CoverInv, ReadInv, NEW t \in Running, NEW x \in Loc, NEW mo,
         NEW keep \in BOOLEAN, Rmw(t, x, mo, keep)
  PROVE  ReadInv'
<1>1. PICK v, th, rel : /\ v = Learn(hist.view[t], thr'[t].clock)
                        /\ th = ScReads(Stamped(Ticked(thr[t])), mo)
                        /\ rel = IsReleaseOrder(mo)
  OBVIOUS
<1>2. ClocksIn(Clock) /\ HistInv(hist, thr, loc)
  BY GoodThread
<1>3. StoredBy(t, x, mo, th, v)
  BY <1>1, <1>2, RmwEffect
<1>4. /\ NewThread(t, "running", thr[t].epoch + 1,
                   IF IsReleaseOrder(mo) THEN thr[t].epoch + 1 ELSE thr[t].lastRelease,
                   thr[t].slimit, thr[t].swrite, ScReads(thr[t], mo).sread)
      /\ Acquires(Clock, t, thr[t].epoch + 1)
      /\ \E sync : NewLocation(x, sync, Buffered(x, th, mo))
      /\ ctx'.sfence = ctx.sfence
      /\ ctx'.swrite = IF mo = "seq_cst" THEN Raised(ctx.swrite, t, thr[t].epoch + 1)
                                         ELSE ctx.swrite
      /\ thr'[t].clock \in Clock => ClocksIn(Clock)'
  BY <1>1, <1>2, RmwStep, ClockLattice
<1>5. rel \in BOOLEAN
  BY <1>1 DEF IsReleaseOrder
<1>6. IF rel THEN /\ thr'[t].lastRelease = thr[t].epoch + 1
                  /\ Acquires(Clock, t, thr[t].epoch + 1)
             ELSE thr'[t].lastRelease = thr[t].lastRelease
  BY <1>1, <1>4 DEF NewThread, ThreadIs
<1>7. PICK H : H = BackedClocks(thr', loc', hist'.past)
  OBVIOUS
<1>8. ASSUME Lattice(H), SharesIn(H), ClocksIn(Clock)
      PROVE  /\ AcquiresFrom(H, t)
             /\ (rel => thr'[t].clock \in H) => SharesIn(H)'
  <2>1. /\ AcquiresFrom(H, t)
        /\ (IsReleaseOrder(mo) => thr'[t].clock \in H) => SharesIn(H)'
    BY <1>8, RmwShares
  <2> QED
    BY <1>1, <2>1
<1>9. StepOf(t)
  BY DEF StepOf
<1>10. Lattice(H) /\ SharesIn(H) /\ ClocksIn(Clock) =>
         /\ AcquiresFrom(H, t)
         /\ (rel => thr'[t].clock \in H) => SharesIn(H)'
  BY <1>8
<1> QED
  BY <1>1, <1>3, <1>5, <1>6, <1>7, <1>9, <1>10, StoredReads

\* AtomicCAS that succeeds with mo_relaxed.
LEMMA CasRelaxedReads ==
  ASSUME KeepsHistory, GoodInv, CoverInv, ReadInv, NEW t \in Running, NEW x \in Loc,
         CasRelaxed(t, x)
  PROVE  ReadInv'
<1>1. PICK v, th : v = Learn(hist.view[t], thr'[t].clock) /\ th = Ticked(thr[t])
  OBVIOUS
<1>2. ClocksIn(Clock) /\ HistInv(hist, thr, loc)
  BY GoodThread
<1>3. StoredBy(t, x, "relaxed", th, v)
  BY <1>1, <1>2, CasRelaxedEffect
<1>4. /\ NewThread(t, "running", thr[t].epoch + 1, thr[t].lastRelease,
                   thr[t].slimit, thr[t].swrite, thr[t].sread)
      /\ thr'[t].clock = thr[t].clock
      /\ NewLocation(x, loc[x].sync, Buffered(x, th, "relaxed"))
      /\ ClocksIn(Clock)'
  BY <1>1, <1>2, CasRelaxedStep, ClockLattice
<1>5. thr'[t].lastRelease = thr[t].lastRelease
  BY <1>4 DEF NewThread, ThreadIs
<1>6. PICK H, rel, mo : H = BackedClocks(thr', loc', hist'.past) /\ rel = FALSE /\ mo = "relaxed"
  OBVIOUS
<1>7. StepOf(t)
  BY DEF StepOf
<1>8. ASSUME Lattice(H), SharesIn(H), ClocksIn(Clock)
      PROVE  /\ AcquiresFrom(H, t)
             /\ (rel => thr'[t].clock \in H) => SharesIn(H)'
  BY <1>8, CasRelaxedShares
<1>9. Lattice(H) /\ SharesIn(H) /\ ClocksIn(Clock) =>
        /\ AcquiresFrom(H, t)
        /\ (rel => thr'[t].clock \in H) => SharesIn(H)'
  BY <1>8
<1>10. /\ rel \in BOOLEAN /\ StoredBy(t, x, mo, th, v)
       /\ IF rel THEN /\ thr'[t].lastRelease = thr[t].epoch + 1
                      /\ Acquires(Clock, t, thr[t].epoch + 1)
                 ELSE thr'[t].lastRelease = thr[t].lastRelease
  BY <1>3, <1>5, <1>6
<1> QED
  BY <1>1, <1>6, <1>7, <1>9, <1>10, StoredReads

\* AtomicCAS that fails.
LEMMA CasFailReads ==
  ASSUME KeepsHistory, GoodInv, CoverInv, ReadInv, NEW t \in Running, NEW x \in Loc, NEW fmo,
         CasFail(t, x, fmo)
  PROVE  ReadInv'
<1>1. /\ ClocksIn(Clock) /\ HistInv(hist, thr, loc)
      /\ t \in Tid /\ thr[t].status # "invalid" /\ thr[t].epoch \in Nat
      /\ thr[t].clock \in Clock /\ thr[t].epoch + 1 \in Nat
  BY GoodThread
<1>2. PICK v : v = Learn(hist.view[t], thr'[t].clock)
  OBVIOUS
<1>3. /\ PublishedBy(t, WithRead(v, x, End(loc[x].buf)))
      /\ v \in Views /\ Within(loc', v)
      /\ \A z \in Loc : End(loc'[z].buf) = End(loc[z].buf)
  BY <1>1, <1>2, CasFailEffect
<1>4. PICK th : th = ScReads(Ticked(thr[t]), fmo)
  OBVIOUS
<1>5. /\ NewThread(t, "running", thr[t].epoch + 1, thr[t].lastRelease,
                   thr[t].slimit, thr[t].swrite, ScReads(thr[t], fmo).sread)
      /\ IF IsAcquireOrder(fmo) THEN Acquires(Clock, t, thr[t].epoch + 1)
                                ELSE thr'[t].clock = thr[t].clock
      /\ NewLocation(x, loc[x].sync, AdvanceToEnd(loc[x].buf, th))
      /\ thr'[t].clock \in Clock => ClocksIn(Clock)'
  BY <1>1, <1>4, CasFailStep, ClockLattice
<1>6. /\ thr'[t].epoch = thr[t].epoch + 1 /\ thr'[t].lastRelease = thr[t].lastRelease
      /\ thr'[t].status = "running" /\ \A u \in Tid \ {t} : thr'[u] = thr[u]
  BY <1>5 DEF NewThread, ThreadIs
<1>7. /\ thr[t] \in ThreadStates(Clock) /\ thr[t].tid = t /\ ctx.sfence \in Clock
      /\ loc[x].buf \in Buffers(Clock) /\ Sound(loc[x].buf)
  BY <1>1, StateParts, ClockLattice
<1>8. /\ th \in ThreadStates(Clock) /\ th.tid = t /\ th.epoch = thr'[t].epoch
      /\ th.lastRelease = thr[t].lastRelease
  <2>1. PICK T : T = Ticked(thr[t])
    OBVIOUS
  <2>2. /\ T \in ThreadStates(Clock) /\ T.tid = t /\ T.epoch = thr[t].epoch + 1
        /\ T.lastRelease = thr[t].lastRelease
    BY <1>7, <2>1, TickedFacts
  <2>3. th.epoch = T.epoch /\ th.lastRelease = T.lastRelease
    BY <1>4, <2>1, <2>2 DEF ScReads, SCRead, ThreadStates
  <2> QED
    BY <1>4, <1>6, <1>7, <2>1, <2>2, <2>3, ScReadsFacts
<1>9. PICK b, r, p : b = loc[x].buf /\ r = AdvanceToEnd(b, th) /\ p = End(b)
  OBVIOUS
<1>10. /\ b \in Buffers(Clock) /\ Sound(b)
       /\ loc'[x].buf = r /\ \A z \in Loc \ {x} : loc'[z] = loc[z]
  BY <1>4, <1>5, <1>7, <1>9 DEF NewLocation
<1>11. IF b.active[t].at = p THEN r = b ELSE Moved(b, th, p, r)
  BY <1>8, <1>9, <1>10, AdvanceToEndFacts
<1>12. p \in Nat /\ p \in Held(b) /\ p >= b.pos[t]
  <2>1. p \in Nat /\ b.pos \in [Tid -> Nat]
    BY <1>9, <1>10, BufferParts DEF End
  <2>2. b.pos[t] \in Nat /\ b.pos[t] <= p
    BY <1>1, <1>9, <1>10, <2>1 DEF Sound
  <2> QED
    BY <1>9, <2>1, <2>2 DEF Held
<1>13. Turned(b, t, thr[t].lastRelease, thr'[t].epoch, r)
  BY <1>8, <1>11, <1>12 DEF Turned
<1>14. Turns(t)
  BY <1>9, <1>10, <1>13, TurnsAt
<1>15. Goes
  BY <1>6, GoesOn
<1>16. StepOf(t)
  BY DEF StepOf
<1>17. Steady(t)
  BY <1>14, <1>15, <1>16, StepSteady
<1>18. PICK H : H = BackedClocks(thr', loc', hist'.past)
  OBVIOUS
<1>19. Lattice(H) /\ SharesIn(H) /\ ClocksIn(Clock)
  BY <1>17, <1>18, SharesAfter
<1>20. AcquiresFrom(H, t) /\ SharesIn(H)'
  BY <1>19, CasFailShares
<1>21. BacksOthers(t)
  BY <1>1, <1>17, <1>18, <1>20, ActorBacks
<1>22. thr'[t].status # "invalid"
       /\ \A u \in Tid : thr[u].status = "invalid" => thr'[u].status = "invalid"
  BY <1>6, OthersSettled
<1>23. /\ Barred(loc', thr', thr'[t].clock, t, v)
       /\ v \in Views /\ SeenBelow(hist.view[t], v)
  BY <1>1, <1>2, <1>17, <1>21, <1>22, LearntBarred
<1>24. PICK all, c : all = thr' /\ c = thr'[t].clock
  OBVIOUS
<1>25. p <= loc'[x].buf.pos[t] \/ Bars(loc'[x].buf, all, c, p)
  <2>1. Moved(b, th, p, r) \/ (r = b /\ p = End(b) /\ AtEnd(b, t))
    BY <1>9, <1>11 DEF AtEnd
  <2>2. p <= r.pos[t] \/ Bars(r, all, c, p)
    BY <1>1, <1>8, <1>10, <1>12, <2>1, MoveBarred
  <2> QED
    BY <1>10, <2>2
<1>26. PICK w, l : w = WithRead(v, x, p) /\ l = loc'
  OBVIOUS
<1>27. Barred(l, all, c, t, w) /\ SeenBelow(v, w)
  <2>1. Barred(l, all, c, t, v) /\ (p <= l[x].buf.pos[t] \/ Bars(l[x].buf, all, c, p))
    BY <1>23, <1>24, <1>25, <1>26
  <2>2. Barred(l, all, c, t, WithRead(v, x, p)) /\ SeenBelow(v, WithRead(v, x, p))
    BY <1>12, <1>23, <2>1, ReadBarred
  <2> QED
    BY <1>26, <2>2
<1>28. Ticks(t, w, c, w)
  <2>1. PublishedBy(t, w)
    BY <1>3, <1>9, <1>26
  <2> QED
    BY <1>24, <2>1 DEF PublishedBy
<1>29. Barred(loc', thr', thr'[t].clock, t, w) /\ SeenBelow(hist.view[t], w) /\ SeenBelow(w, w)
  <2>1. w \in Views
    BY <1>28 DEF Ticks
  <2>2. hist.view[t] \in Views
    BY <1>1, <1>17, SteadyThread
  <2> QED
    BY <1>23, <1>24, <1>26, <1>27, <2>1, <2>2, SeenOrder
<1> QED
  BY <1>1, <1>17, <1>18, <1>20, <1>28, <1>29, TickReads

\* MutexLock.
LEMMA LockReads ==
  ASSUME KeepsHistory, GoodInv, CoverInv, ReadInv, NEW t \in Running, Lock(t)
  PROVE  ReadInv'
<1>1. /\ ClocksIn(Clock) /\ HistInv(hist, thr, loc)
      /\ t \in Tid /\ thr[t].status # "invalid" /\ thr[t].epoch \in Nat
      /\ thr[t].clock \in Clock /\ thr[t].epoch + 1 \in Nat
  BY GoodThread
<1>2. PICK v, c : v = Learn(hist.view[t], thr'[t].clock) /\ c = thr'[t].clock
  OBVIOUS
<1>3. PublishedBy(t, v) /\ v \in Views /\ Within(loc', v) /\ loc' = loc
  BY <1>1, <1>2, LockEffect
<1>4. /\ NewThread(t, "running", thr[t].epoch + 1, thr[t].lastRelease,
                   thr[t].slimit, thr[t].swrite, thr[t].sread)
      /\ Acquires(Clock, t, thr[t].epoch + 1)
      /\ thr'[t].clock \in Clock => ClocksIn(Clock)'
  BY <1>1, LockStep, ClockLattice
<1>5. /\ thr'[t].lastRelease = thr[t].lastRelease
      /\ thr'[t].status = "running" /\ \A u \in Tid \ {t} : thr'[u] = thr[u]
  BY <1>4 DEF NewThread, ThreadIs
<1>6. Turns(t)
  BY <1>3, TurnsNone
<1>7. Goes
  BY <1>5, GoesOn
<1>8. StepOf(t)
  BY DEF StepOf
<1>9. Steady(t)
  BY <1>6, <1>7, <1>8, StepSteady
<1>10. PICK H : H = BackedClocks(thr', loc', hist'.past)
  OBVIOUS
<1>11. Lattice(H) /\ SharesIn(H) /\ ClocksIn(Clock)
  BY <1>9, <1>10, SharesAfter
<1>12. AcquiresFrom(H, t) /\ SharesIn(H)'
  BY <1>11, LockShares
<1>13. BacksOthers(t)
  BY <1>1, <1>9, <1>10, <1>12, ActorBacks
<1>14. thr'[t].status # "invalid"
       /\ \A u \in Tid : thr[u].status = "invalid" => thr'[u].status = "invalid"
  BY <1>5, OthersSettled
<1>15. /\ Barred(loc', thr', thr'[t].clock, t, v)
       /\ v \in Views /\ SeenBelow(hist.view[t], v)
  BY <1>1, <1>2, <1>9, <1>13, <1>14, LearntBarred
<1>16. Ticks(t, v, c, v) /\ SeenBelow(v, v)
  BY <1>2, <1>3, SeenOrder DEF PublishedBy
<1> QED
  BY <1>1, <1>9, <1>10, <1>12, <1>15, <1>16, TickReads

\* OnJoined.
LEMMA JoinReads ==
  ASSUME KeepsHistory, GoodInv, CoverInv, ReadInv, NEW t \in Running, NEW u \in Tid,
         ThreadJoin(t, u)
  PROVE  ReadInv'
<1>1. /\ ClocksIn(Clock) /\ HistInv(hist, thr, loc)
      /\ t \in Tid /\ thr[t].status # "invalid" /\ thr[t].epoch \in Nat
      /\ thr[t].clock \in Clock /\ thr[t].epoch + 1 \in Nat
  BY GoodThread
<1>2. PICK v : v = Learn(hist.view[t], thr'[t].clock)
  OBVIOUS
<1>3. /\ ClocksIn(Clock)' /\ loc' = loc /\ v \in Views /\ Within(loc', v)
      /\ Learns(t, v) /\ SameOrder(hist', hist)
  BY <1>1, <1>2, JoinEffect
<1>4. /\ ThreadIs(t, "running", thr[t].epoch, thr[t].lastRelease,
                  thr[t].slimit, thr[t].swrite, thr[t].sread)
      /\ u # t /\ thr[u].status = "finished"
      /\ ThreadIs(u, "dead", thr[u].epoch, thr[u].lastRelease,
                  thr[u].slimit, thr[u].swrite, thr[u].sread)
      /\ thr'[u].clock = thr[u].clock
      /\ \A w \in Tid \ {t, u} : thr'[w] = thr[w]
      /\ Acquires(Clock, t, thr[t].epoch)
      /\ thr'[t].clock \in Clock => ClocksIn(Clock)'
  BY <1>1, JoinStep, ClockLattice
<1>5. /\ thr'[t].status # "invalid"
      /\ \A w \in Tid \ {t} : thr'[w].clock = thr[w].clock
      /\ \A w \in Tid : thr[w].status = "invalid" => thr'[w].status = "invalid"
  BY <1>1, <1>4 DEF ThreadIs
<1>6. Turns(t)
  BY <1>3, TurnsNone
<1>7. Goes
  <2> SUFFICES ASSUME NEW w \in Tid
               PROVE  /\ thr'[w].lastRelease = thr[w].lastRelease
                           \/ thr'[w].lastRelease > thr[w].epoch
                      /\ thr[w].status \in {"finished", "dead"} =>
                           thr'[w].status \in {"finished", "dead"}
    BY DEF Goes
  <2>1. thr[t].status = "running"
    BY DEF Running
  <2>2. CASE w = t
    BY <1>4, <2>1, <2>2 DEF ThreadIs
  <2>3. CASE w = u
    BY <1>4, <2>3 DEF ThreadIs
  <2>4. CASE w # t /\ w # u
    BY <1>4, <2>4
  <2> QED
    BY <2>2, <2>3, <2>4
<1>8. StepOf(t)
  BY DEF StepOf
<1>9. Steady(t)
  BY <1>6, <1>7, <1>8, StepSteady
<1>10. PICK H : H = BackedClocks(thr', loc', hist'.past)
  OBVIOUS
<1>11. Lattice(H) /\ SharesIn(H) /\ ClocksIn(Clock)
  BY <1>9, <1>10, SharesAfter
<1>12. AcquiresFrom(H, t) /\ SharesIn(H)'
  BY <1>11, JoinShares
<1>13. BacksOthers(t)
  BY <1>1, <1>9, <1>10, <1>12, ActorBacks
<1>14. /\ Barred(loc', thr', thr'[t].clock, t, v)
       /\ v \in Views /\ SeenBelow(hist.view[t], v)
  BY <1>1, <1>2, <1>5, <1>9, <1>13, LearntBarred
<1> QED
  BY <1>1, <1>3, <1>5, <1>9, <1>10, <1>12, <1>14, LearnReads

\* What t knew stays barred to a clock that knows what t did.
LEMMA ViewBarred ==
  ASSUME NEW t \in Tid, Steady(t), NEW c \in Clock, Leq(thr[t].clock, c)
  PROVE  Barred(loc', thr', c, t, hist.view[t])
<1>1. PICK v0 : v0 = hist.view[t]
  OBVIOUS
<1>2. v0 \in Views /\ thr[t].clock \in Clock
  BY <1>1, SteadyThread
<1>3. ASSUME NEW x \in Loc
      PROVE  v0[x].seen <= loc'[x].buf.pos[t] \/ Bars(loc'[x].buf, thr', c, v0[x].seen)
  <2>1. v0[x].seen \in Nat
    BY <1>2 DEF Views
  <2>2. v0[x].seen <= loc[x].buf.pos[t] \/ Bars(loc[x].buf, thr, thr[t].clock, v0[x].seen)
    BY <1>1 DEF Steady, ReadInv, ReadsBarred, Barred
  <2>3. CASE v0[x].seen <= loc[x].buf.pos[t]
    <3>1. loc[x].buf.pos[t] \in Nat /\ loc'[x].buf.pos[t] \in Nat
      BY BuffersTyped, BufferParts DEF Steady
    <3>2. loc[x].buf.pos[t] <= loc'[x].buf.pos[t]
      BY DEF Steady
    <3> QED
      BY <2>1, <2>3, <3>1, <3>2
  <2>4. CASE Bars(loc[x].buf, thr, thr[t].clock, v0[x].seen)
    <3>1. PICK s, c0 : s = v0[x].seen /\ c0 = thr[t].clock
      OBVIOUS
    <3>2. s \in Nat /\ c0 \in Clock /\ Leq(c0, c) /\ Bars(loc[x].buf, thr, c0, s)
      BY <1>2, <2>1, <2>4, <3>1
    <3>3. Bars(loc'[x].buf, thr', c, s)
      BY <3>2, BarsKept DEF Steady
    <3> QED
      BY <3>1, <3>3
  <2> QED
    BY <2>2, <2>3, <2>4
<1> QED
  BY <1>1, <1>3 DEF Barred

\* So the thread that unlocks the mutex has its loads committed.
LEMMA UnlockCommits ==
  ASSUME CommitsFirst, NEW t \in Running, Unlock(t)
  PROVE  \A x \in Loc : loc[x].buf.active[t] # NoLoad =>
           thr[t].lastRelease > loc[x].buf.active[t].epoch
<1>1. mutex.holder = t /\ mutex'.holder = NoTid
  BY DEF Unlock
<1>2. t \in Tid
  BY DEF Running
<1>3. NoTid \notin Tid
  BY NoTidAssumption
<1>4. mutex'.holder # t
  BY <1>1, <1>2, <1>3
<1> QED
  BY <1>1, <1>4 DEF CommitsFirst

\* MutexUnlock and OnFinished.
LEMMA StampReads ==
  ASSUME KeepsHistory, GoodInv, CoverInv, ReadInv, CommitsFirst, NEW t \in Running,
         Unlock(t) \/ Finish(t)
  PROVE  ReadInv'
<1>1. /\ ClocksIn(Clock) /\ HistInv(hist, thr, loc)
      /\ t \in Tid /\ thr[t].status # "invalid" /\ thr[t].epoch \in Nat
      /\ thr[t].clock \in Clock /\ thr[t].epoch + 1 \in Nat
  BY GoodThread
<1>2. PICK v, c : v = hist.view[t] /\ c = thr'[t].clock
  OBVIOUS
<1>3. /\ PublishedBy(t, v) /\ loc' = loc
      /\ thr'[t].clock = Raised(thr[t].clock, t, thr'[t].epoch)
  BY <1>1, <1>2, StampEffect
<1>4. /\ \/ NewThread(t, "running", thr[t].epoch + 1, thr[t].lastRelease,
                      thr[t].slimit, thr[t].swrite, thr[t].sread)
         \/ NewThread(t, "finished", thr[t].epoch + 1, thr[t].lastRelease,
                      thr[t].slimit, thr[t].swrite, thr[t].sread)
      /\ Unlock(t) \/ thr'[t].status = "finished"
  <2>1. CASE Unlock(t)
    BY <1>1, <2>1, UnlockStep, ClockLattice
  <2>2. CASE Finish(t)
    <3>1. NewThread(t, "finished", thr[t].epoch + 1, thr[t].lastRelease,
                    thr[t].slimit, thr[t].swrite, thr[t].sread)
      BY <1>1, <2>2, FinishStep, ClockLattice
    <3>2. thr'[t].status = "finished"
      BY <3>1 DEF NewThread, ThreadIs
    <3> QED
      BY <3>1, <3>2
  <2> QED
    BY <2>1, <2>2
<1>5. /\ thr'[t].lastRelease = thr[t].lastRelease /\ thr'[t].epoch = thr[t].epoch + 1
      /\ thr'[t].status # "invalid" /\ \A u \in Tid \ {t} : thr'[u] = thr[u]
  BY <1>4 DEF NewThread, ThreadIs
<1>6. Turns(t)
  BY <1>3, TurnsNone
<1>7. Goes
  BY <1>5, GoesOn
<1>8. StepOf(t)
  BY DEF StepOf
<1>9. Steady(t)
  BY <1>6, <1>7, <1>8, StepSteady
<1>10. PICK H : H = BackedClocks(thr', loc', hist'.past)
  OBVIOUS
<1>11. Lattice(H) /\ SharesIn(H) /\ ClocksIn(Clock)
  BY <1>9, <1>10, SharesAfter
<1>12. AcquiresFrom(H, t) /\ (thr'[t].clock \in H => SharesIn(H)')
  BY <1>11, StampShares
<1>13. BacksOthers(t)
  BY <1>1, <1>9, <1>10, <1>12, ActorBacks
<1>14. /\ v \in Views /\ c \in Clock /\ Leq(thr[t].clock, c)
  BY <1>1, <1>2, <1>9, SteadyThread DEF Steady
<1>15. Barred(loc', thr', c, t, v)
  BY <1>1, <1>2, <1>9, <1>14, ViewBarred
<1>16. c[t] = thr'[t].epoch
  <2>1. Acquires(Clock, t, thr'[t].epoch)
    <3>1. thr'[t].epoch \in Nat
      BY <1>1, <1>5
    <3> QED
      BY <1>1, <1>3, <3>1, ClockLattice, StampAcquires
  <2> QED
    BY <1>1, <1>2, <1>5, <1>9, <2>1, StampedAt
<1>17. CommittedBy(t)
  <2>1. CASE thr'[t].status = "finished"
    <3>1. \A x \in Loc : loc'[x].buf.active[t] = NoLoad \/ loc'[x] = loc[x]
      BY <1>3
    <3> QED
      BY <1>1, <1>5, <1>9, <2>1, <3>1, ReleaseCommits
  <2>2. CASE Unlock(t)
    <3>1. \A x \in Loc : loc[x].buf.active[t] # NoLoad =>
            thr[t].lastRelease > loc[x].buf.active[t].epoch
      BY <2>2, UnlockCommits
    <3> QED
      BY <1>1, <1>3, <1>5, <1>9, <3>1, FirstCommits
  <2> QED
    BY <1>4, <2>1, <2>2
<1>18. Ticks(t, v, c, v) /\ SeenBelow(v, v)
  BY <1>2, <1>3, <1>14, SeenOrder DEF PublishedBy
<1>19. Backed(loc', thr', hist'.past[t][thr'[t].epoch])
  <2>1. Backed(loc', thr', [view |-> v, clock |-> c])
    BY <1>1, <1>9, <1>14, <1>15, <1>16, <1>17, PublicationBacked
  <2>2. ClocksIn(Clock)' /\ EndsGrow
    BY <1>3 DEF PublishedBy
  <2>3. hist'.past[t][thr'[t].epoch] = [view |-> v, clock |-> c]
    BY <1>1, <1>18, <2>2, TickKept
  <2> QED
    BY <2>1, <2>3
<1>20. thr'[t].clock \in H
  BY <1>1, <1>2, <1>5, <1>9, <1>10, <1>13, <1>16, <1>19, ActorShares
<1>21. Barred(loc', thr', thr'[t].clock, t, v) /\ SeenBelow(hist.view[t], v)
  BY <1>2, <1>15, <1>18
<1> QED
  BY <1>1, <1>9, <1>10, <1>12, <1>18, <1>20, <1>21, TickReads

\* AtomicFence: a release fence publishes, and shares, what t knew.
LEMMA FencedClock ==
  ASSUME KeepsHistory, GoodInv, NEW t \in Running, Steady(t), ClocksIn(Clock)', EndsGrow,
         NEW e, e = thr[t].epoch + 1, thr'[t].epoch = e, NEW v,
         Ticks(t, hist.view[t], Raised(thr[t].clock, t, e), v)
  PROVE  /\ Raised(thr[t].clock, t, e) \in GoodClocks(thr', hist'.past)
         /\ Raised(thr[t].clock, t, e)[t] = e
         /\ Leq(thr[t].clock, Raised(thr[t].clock, t, e))
         /\ \A u \in Tid \ {t} : Raised(thr[t].clock, t, e)[u] = thr[t].clock[u]
         /\ hist'.past[t][e] = [view |-> hist.view[t], clock |-> Raised(thr[t].clock, t, e)]
<1>1. ClocksIn(Clock) /\ HistInv(hist, thr, loc) /\ t \in Tid /\ thr[t].clock \in Clock
      /\ thr[t].epoch + 1 \in Nat /\ thr[t].epoch \in Nat /\ thr[t].status # "invalid"
  BY GoodThread
<1>2. PICK pv, pc, a : pv = hist.view[t] /\ pc = Raised(thr[t].clock, t, e) /\ a = thr[t].clock
  OBVIOUS
<1>3. Ticks(t, pv, pc, v)
  BY <1>2
<1>4. Kept /\ hist'.past[t][thr'[t].epoch] = [view |-> pv, clock |-> pc]
  BY <1>1, <1>3, TickKept
<1>5. PICK H : H = GoodClocks(thr', hist'.past)
  OBVIOUS
<1>6. Lattice(H) /\ ClocksIn(H)
  BY <1>4, <1>5, GoodAfter
<1>7. a \in H /\ Zero \in H
  BY <1>2, <1>6, RunningParts DEF Lattice
<1>8. PastIn(thr', hist'.past)
  BY <1>4, HistoryPast DEF Kept
<1>9. pc \in Clock
  BY <1>3 DEF Ticks
<1>10. pc = Join(Raised(a, t, thr'[t].epoch), Zero)
  BY <1>2, <1>9, ZeroFacts
<1>11. Leq(hist'.past[t][thr'[t].epoch].clock, pc)
  BY <1>4, <1>9 DEF Leq, Clock
<1>12. thr'[t].status # "invalid"
  BY <1>3 DEF Ticks
<1>13. pc \in H
  BY <1>1, <1>5, <1>7, <1>8, <1>10, <1>11, <1>12, AcquiredGood
<1>14. a \in Clock /\ a[t] <= thr[t].epoch /\ a[t] \in Nat /\ e \in Nat
  BY <1>1, <1>2 DEF GoodInv, ClocksIn, ThreadsIn, GoodClocks, Reached, Clock
<1>15. a[t] <= e
  BY <1>1, <1>14
<1>16. /\ pc[t] = e /\ Leq(a, pc) /\ \A u \in Tid \ {t} : pc[u] = a[u]
  BY <1>1, <1>2, <1>14, <1>15, RaisedFacts
<1> QED
  BY <1>2, <1>4, <1>5, <1>13, <1>16

\* AtomicFence.
LEMMA FenceReads ==
  ASSUME KeepsHistory, GoodInv, CoverInv, ReadInv, NEW t \in Running, NEW mo, Fence(t, mo)
  PROVE  ReadInv'
<1>1. /\ ClocksIn(Clock) /\ HistInv(hist, thr, loc)
      /\ t \in Tid /\ thr[t].status # "invalid" /\ thr[t].epoch \in Nat
      /\ thr[t].clock \in Clock /\ thr[t].epoch + 1 \in Nat
  BY GoodThread
<1>2. PICK v, e : v = Learn(hist.view[t], thr'[t].clock) /\ e = thr[t].epoch + 1
  OBVIOUS
<1>3. PICK f : f = IF mo = "seq_cst" THEN Raised(ctx.sfence, t, e) ELSE ctx.sfence
  OBVIOUS
<1>4. /\ ClocksIn(Clock)' /\ loc' = loc /\ v \in Views /\ Within(loc', v)
      /\ Ticks(t, hist.view[t], Raised(thr[t].clock, t, e), v)
      /\ thr'[t].epoch = e
      /\ Leq(Raised(thr[t].clock, t, e), thr'[t].clock)
  BY <1>1, <1>2, FenceEffect
<1>5. NewThread(t, "running", e,
                IF IsReleaseOrder(mo) THEN e ELSE thr[t].lastRelease,
                IF mo = "seq_cst" THEN Join(thr[t].slimit, f) ELSE thr[t].slimit,
                IF mo = "seq_cst" THEN Join(thr[t].swrite, ctx.swrite) ELSE thr[t].swrite,
                thr[t].sread)
  BY <1>1, <1>2, <1>3, FenceStep, ClockLattice
<1>6. /\ thr'[t].lastRelease = IF IsReleaseOrder(mo) THEN e ELSE thr[t].lastRelease
      /\ thr'[t].status = "running" /\ \A u \in Tid \ {t} : thr'[u] = thr[u]
  BY <1>5 DEF NewThread, ThreadIs
<1>7. Turns(t)
  BY <1>4, TurnsNone
<1>8. Goes
  BY <1>2, <1>6, GoesOn
<1>9. StepOf(t)
  BY DEF StepOf
<1>10. Steady(t)
  BY <1>7, <1>8, <1>9, StepSteady
<1>11. PICK H : H = BackedClocks(thr', loc', hist'.past)
  OBVIOUS
<1>12. Lattice(H) /\ SharesIn(H) /\ ClocksIn(Clock)
  BY <1>10, <1>11, SharesAfter
<1>13. /\ AcquiresFrom(H, t)
       /\ (IsReleaseOrder(mo) => Raised(thr[t].clock, t, e) \in H) => SharesIn(H)'
  BY <1>2, <1>12, FenceShares
<1>14. BacksOthers(t)
  BY <1>1, <1>10, <1>11, <1>13, ActorBacks
<1>15. thr'[t].status # "invalid"
       /\ \A u \in Tid : thr[u].status = "invalid" => thr'[u].status = "invalid"
  BY <1>6, OthersSettled
<1>16. /\ Barred(loc', thr', thr'[t].clock, t, v)
       /\ v \in Views /\ SeenBelow(hist.view[t], v)
  BY <1>1, <1>2, <1>10, <1>14, <1>15, LearntBarred
<1>17. PICK pv, pc, a : pv = hist.view[t] /\ pc = Raised(thr[t].clock, t, e) /\ a = thr[t].clock
  OBVIOUS
<1>18. EndsGrow
  BY <1>10 DEF Steady
<1>19. /\ pc \in GoodClocks(thr', hist'.past) /\ pc[t] = e /\ Leq(a, pc)
       /\ \A u \in Tid \ {t} : pc[u] = a[u]
       /\ hist'.past[t][e] = [view |-> pv, clock |-> pc]
  BY <1>2, <1>4, <1>10, <1>17, <1>18, FencedClock
<1>20. pc \in Clock /\ pv \in Views
  BY <1>1, <1>10, <1>17, <1>19, SteadyThread DEF GoodClocks
<1>21. Barred(loc', thr', pc, t, pv)
  BY <1>1, <1>10, <1>17, <1>19, <1>20, ViewBarred
<1>22. ASSUME IsReleaseOrder(mo) PROVE pc \in H
  <2>1. CommittedBy(t)
    <3>1. thr'[t].lastRelease = thr'[t].epoch /\ thr'[t].epoch = thr[t].epoch + 1
      BY <1>2, <1>4, <1>6, <1>22
    <3>2. \A x \in Loc : loc'[x].buf.active[t] = NoLoad \/ loc'[x] = loc[x]
      BY <1>4
    <3> QED
      BY <1>1, <1>10, <3>1, <3>2, ReleaseCommits
  <2>2. pc[t] = thr'[t].epoch
    BY <1>4, <1>19
  <2>3. Backed(loc', thr', [view |-> pv, clock |-> pc])
    BY <1>1, <1>10, <1>20, <1>21, <2>1, <2>2, PublicationBacked
  <2>4. Backed(loc', thr', hist'.past[t][pc[t]])
    BY <1>19, <2>3
  <2>5. ASSUME NEW u \in Tid \ {t}
        PROVE  pc[u] = 0 \/ Backed(loc', thr', hist'.past[u][pc[u]])
    <3>1. thr[t].clock[u] = 0 \/ Backed(loc', thr', hist'.past[u][thr[t].clock[u]])
      BY <1>1, <1>10, KnewBacked
    <3> QED
      BY <1>17, <1>19, <3>1
  <2> QED
    BY <1>1, <1>11, <1>19, <2>4, <2>5, BackedShared
<1>23. SharesIn(H)'
  BY <1>13, <1>17, <1>22
<1>24. Ticks(t, pv, pc, v) /\ SeenBelow(pv, v)
  BY <1>4, <1>16, <1>17
<1> QED
  BY <1>1, <1>10, <1>11, <1>13, <1>16, <1>23, <1>24, TickReads

\* The thread that creates another has its loads committed.
LEMMA CreateCommits ==
  ASSUME CommitsFirst, NEW t \in Running, NEW u \in Tid, Create(t, u),
         thr'[u].status # "invalid"
  PROVE  \A x \in Loc : loc[x].buf.active[t] # NoLoad =>
           thr[t].lastRelease > loc[x].buf.active[t].epoch
<1>1. Creator[u] = t /\ thr[u].status = "invalid"
  BY DEF Create
<1> QED
  BY <1>1 DEF CommitsFirst

\* OnCreated and OnStarted.
LEMMA CreateReads ==
  ASSUME KeepsHistory, GoodInv, CoverInv, ReadInv, CommitsFirst, NEW t \in Running,
         NEW u \in Tid, Create(t, u)
  PROVE  ReadInv'
<1>1. /\ ClocksIn(Clock) /\ HistInv(hist, thr, loc)
      /\ t \in Tid /\ thr[t].status # "invalid" /\ thr[t].epoch \in Nat
      /\ thr[t].clock \in Clock /\ thr[t].epoch + 1 \in Nat
  BY GoodThread
<1>2. /\ ThreadIs(t, "running", thr[t].epoch + 1, thr[t].lastRelease,
                  thr[t].slimit, thr[t].swrite, thr[t].sread)
      /\ u # t /\ thr[u].status = "invalid"
      /\ ThreadIs(u, "running", 1, 0, Zero, Zero, Zero)
      /\ thr'[t].clock = Raised(thr[t].clock, t, thr[t].epoch + 1)
      /\ thr'[u].clock = Join(Raised(Raised(Zero, u, 1), u, 1), thr'[t].clock)
      /\ \A w \in Tid \ {t, u} : thr'[w] = thr[w]
      /\ thr'[t].clock \in Clock /\ thr'[u].clock \in Clock => ClocksIn(Clock)'
  BY <1>1, CreateStep, ClockLattice
<1>3. /\ thr'[t].status = "running" /\ thr'[t].epoch = thr[t].epoch + 1
      /\ thr'[t].lastRelease = thr[t].lastRelease
      /\ thr'[u].status = "running" /\ thr'[u].epoch = 1
  BY <1>2 DEF ThreadIs
<1>4. ClocksIn(Clock)' /\ loc' = loc /\ CreatedBy(t, u)
  BY <1>1, CreateEffect
<1>5. Goes
  <2> SUFFICES ASSUME NEW w \in Tid, thr[w].status # "invalid"
               PROVE  /\ thr'[w].lastRelease = thr[w].lastRelease
                           \/ thr'[w].lastRelease > thr[w].epoch
                      /\ thr[w].status \in {"finished", "dead"} =>
                           thr'[w].status \in {"finished", "dead"}
    BY DEF Goes
  <2>1. thr[t].status = "running"
    BY DEF Running
  <2>2. CASE w = t
    BY <1>3, <2>1, <2>2
  <2>3. CASE w # t
    BY <1>2, <2>3
  <2> QED
    BY <2>2, <2>3
<1>6. Turns(t)
  BY <1>4, TurnsNone
<1>7. StepOf(t)
  BY DEF StepOf
<1>8. Steady(t)
  BY <1>5, <1>6, <1>7, StepSteady
<1>9. PICK H : H = BackedClocks(thr', loc', hist'.past)
  OBVIOUS
<1>10. Lattice(H) /\ SharesIn(H) /\ ClocksIn(Clock)
  BY <1>8, <1>9, SharesAfter
<1>11. AcquiresFrom(H, t) /\ SharesIn(H)'
  BY <1>10, CreateShares
<1>12. BacksOthers(t)
  BY <1>1, <1>8, <1>9, <1>11, ActorBacks
<1>13. PICK e, c, c2, v : /\ e = thr[t].epoch /\ c = thr'[t].clock /\ c2 = thr'[u].clock
                          /\ v = hist.view[t]
  OBVIOUS
<1>14. /\ c \in Clock /\ c2 \in Clock /\ v \in Views /\ Leq(thr[t].clock, c)
       /\ e \in Nat /\ e + 1 \in Nat
  BY <1>1, <1>8, <1>13, SteadyThread DEF Steady
<1>15. c[t] = e + 1
  <2>1. PICK a : a = thr[t].clock
    OBVIOUS
  <2>2. a \in Clock /\ a[t] <= e /\ a[t] \in Nat
    BY <1>1, <1>13, <2>1 DEF GoodInv, ClocksIn, ThreadsIn, GoodClocks, Reached, Clock
  <2>3. a[t] <= e + 1
    BY <1>14, <2>2
  <2>4. c = Raised(a, t, e + 1)
    BY <1>2, <1>13, <2>1
  <2> QED
    BY <1>1, <1>14, <2>2, <2>3, <2>4, RaisedFacts
<1>16. Leq(c, c2) /\ \A w \in Tid \ {u} : c2[w] = c[w]
  <2>1. PICK z : z = Raised(Raised(Zero, u, 1), u, 1)
    OBVIOUS
  <2>2. z \in Clock /\ \A w \in Tid \ {u} : z[w] = 0
    <3>1. Zero \in Clock
      BY ClockFacts
    <3>2. z \in Clock
      BY <2>1, <3>1, RaisedType
    <3>3. \A w \in Tid \ {u} : z[w] = 0
      BY <2>1 DEF Raised, Zero
    <3> QED
      BY <3>2, <3>3
  <2>3. c2 = Join(z, c)
    BY <1>2, <1>13, <2>1
  <2>4. Leq(c, c2)
    BY <1>14, <2>2, <2>3, ClockFacts
  <2>5. ASSUME NEW w \in Tid \ {u} PROVE c2[w] = c[w]
    <3>1. c2[w] = z[w] \/ c2[w] = c[w]
      BY <2>3 DEF Join
    <3>2. c[w] <= c2[w] /\ c[w] \in Nat
      BY <1>14, <2>4 DEF Leq, Clock
    <3>3. z[w] = 0
      BY <2>2
    <3> QED
      BY <3>1, <3>2, <3>3
  <2> QED
    BY <2>4, <2>5
<1>17. Barred(loc', thr', c, t, v)
  BY <1>1, <1>8, <1>13, <1>14, ViewBarred
<1>18. CommittedBy(t)
  <2>1. \A x \in Loc : loc[x].buf.active[t] # NoLoad =>
          thr[t].lastRelease > loc[x].buf.active[t].epoch
    BY <1>3, CreateCommits
  <2> QED
    BY <1>1, <1>3, <1>4, <1>8, <2>1, FirstCommits
<1>19. PICK p, q : p = [view |-> v, clock |-> c] /\ q = [view |-> v, clock |-> c2]
  OBVIOUS
<1>20. p.view = v /\ p.clock = c /\ q.view = v /\ q.clock = c2
       /\ p \in Publications /\ q \in Publications
  BY <1>14, <1>19 DEF Publications
<1>21. Backed(loc', thr', p)
  <2>1. c[t] = thr'[t].epoch
    BY <1>3, <1>13, <1>15
  <2> QED
    BY <1>1, <1>8, <1>14, <1>17, <1>18, <1>19, <2>1, PublicationBacked
<1>22. /\ hist.view \in [Tid -> Views] /\ hist.past \in [Tid -> Seq(Publications)]
       /\ Len(hist.past[t]) = e
  BY <1>1, <1>13 DEF HistInv, HistoryIn
<1>23. /\ hist'.view = [hist.view EXCEPT ![u] = v]
       /\ hist'.past = [[hist.past EXCEPT ![t] = Append(@, p)] EXCEPT ![u] = << q >>]
  BY <1>4, <1>13, <1>19 DEF CreatedBy, Publishes
<1>24. /\ hist'.view[u] = v /\ \A w \in Tid \ {u} : hist'.view[w] = hist.view[w]
       /\ hist'.past[u] = << q >> /\ hist'.past[t] = Append(hist.past[t], p)
       /\ \A w \in Tid \ {t, u} : hist'.past[w] = hist.past[w]
  BY <1>1, <1>2, <1>22, <1>23
<1>25. PICK s : s = hist.past[t]
  OBVIOUS
<1>26. /\ s \in Seq(Publications) /\ Len(s) = e
       /\ Append(s, p) \in Seq(Publications) /\ Len(Append(s, p)) = e + 1
       /\ Append(s, p)[e + 1] = p /\ \A j \in 1..e : Append(s, p)[j] = s[j]
  <2>1. s \in Seq(Publications) /\ Len(s) = e
    BY <1>1, <1>22, <1>25
  <2>2. /\ Append(s, p) \in Seq(Publications) /\ Len(Append(s, p)) = Len(s) + 1
        /\ Append(s, p)[Len(s) + 1] = p
        /\ \A j \in 1..Len(s) : Append(s, p)[j] = s[j]
    BY <1>20, <2>1, AppendFacts
  <2> QED
    BY <2>1, <2>2
<1>27. Backed(loc', thr', hist'.past[t][e + 1])
  BY <1>21, <1>24, <1>25, <1>26
<1>28. BacksOthers(u)
  <2> SUFFICES ASSUME NEW w \in Tid \ {u}
               PROVE  thr'[u].clock[w] = 0 \/ Backed(loc', thr', hist'.past[w][thr'[u].clock[w]])
    BY DEF BacksOthers
  <2>1. thr'[u].clock[w] = c[w]
    BY <1>13, <1>16
  <2>2. CASE w = t
    BY <1>15, <1>27, <2>1, <2>2
  <2>3. CASE w # t
    <3>1. thr'[t].clock[w] = 0 \/ Backed(loc', thr', hist'.past[w][thr'[t].clock[w]])
      BY <1>12, <2>3 DEF BacksOthers
    <3> QED
      BY <1>13, <2>1, <3>1
  <2> QED
    BY <2>2, <2>3
<1>29. Barred(loc', thr', c2, u, v)
  <2> SUFFICES ASSUME NEW x \in Loc PROVE Bars(loc'[x].buf, thr', c2, v[x].seen)
    BY DEF Barred
  <2>1. PICK b, th, n : b = loc'[x].buf /\ th = thr' /\ n = v[x].seen
    OBVIOUS
  <2>2. b \in Buffers(Clock) /\ Sound(b) /\ n \in Nat /\ n <= n
    <3>1. b \in Buffers(Clock) /\ Sound(b)
      BY <1>8, <2>1, BuffersTyped DEF Steady
    <3>2. n \in Nat
      BY <1>14, <2>1 DEF Views
    <3> QED
      BY <3>1, <3>2
  <2>3. Bars(b, th, c, n)
    BY <1>20, <1>21, <2>1 DEF Backed
  <2>4. Bars(b, th, c2, n)
    BY <1>14, <1>16, <2>2, <2>3, BarsMore
  <2> QED
    BY <2>1, <2>4
<1>30. ASSUME NEW w \in Tid PROVE BacksOthers(w)
  <2>1. CASE w = t
    BY <1>12, <2>1
  <2>2. CASE w = u
    BY <1>28, <2>2
  <2>3. CASE w # t /\ w # u
    BY <1>2, <1>8, <2>3, OtherBacks
  <2> QED
    BY <2>1, <2>2, <2>3
<1>31. ASSUME NEW w \in Tid
       PROVE  \/ hist'.view[w] = hist.view[w] /\ thr'[w].clock = thr[w].clock
              \/ Barred(loc', thr', thr'[w].clock, w, hist'.view[w])
  <2>1. CASE w = t
    BY <1>2, <1>13, <1>17, <1>24, <2>1
  <2>2. CASE w = u
    BY <1>13, <1>24, <1>29, <2>2
  <2>3. CASE w # t /\ w # u
    BY <1>2, <1>24, <2>3
  <2> QED
    BY <2>1, <2>2, <2>3
<1>32. SeenBelow(v, v)
  BY <1>14, SeenOrder
<1>33. ASSUME NEW w \in Tid, NEW i \in DOMAIN hist'.past[w]
       PROVE  SeenBelow(hist'.past[w][i].view, hist'.view[w])
  <2>1. CASE w = u
    <3>1. i = 1 /\ hist'.past[w][i] = q
      BY <1>24, <2>1
    <3> QED
      BY <1>20, <1>24, <1>32, <2>1, <3>1
  <2>2. CASE w = t
    <3>1. hist'.past[w] = Append(s, p) /\ hist'.view[w] = v
      BY <1>1, <1>2, <1>13, <1>24, <1>25, <2>2
    <3>2. i \in 1..(e + 1)
      BY <1>26, <3>1
    <3>3. CASE i = e + 1
      BY <1>20, <1>26, <1>32, <3>1, <3>3
    <3>4. CASE i # e + 1
      <4>1. i \in 1..e
        BY <1>14, <3>2, <3>4
      <4>2. Append(s, p)[i] = s[i] /\ i \in DOMAIN hist.past[t]
        BY <1>25, <1>26, <4>1
      <4>3. SeenBelow(hist.past[t][i].view, hist.view[t])
        BY <1>1, <1>8, <4>2 DEF Steady, ReadInv, PastBelow, SeenBelow
      <4> QED
        BY <1>13, <1>25, <3>1, <4>2, <4>3
    <3> QED
      BY <3>3, <3>4
  <2>3. CASE w # u /\ w # t
    <3>1. hist'.past[w] = hist.past[w] /\ hist'.view[w] = hist.view[w]
      BY <1>24, <2>3
    <3> QED
      BY <1>8, <3>1 DEF Steady, ReadInv, PastBelow, SeenBelow
  <2> QED
    BY <2>1, <2>2, <2>3
<1> QED
  BY <1>8, <1>9, <1>11, <1>30, <1>31, <1>33, ReadsKept

\* Every step keeps it, if what a thread gives to a mutex or to a thread it creates
\* is committed first.
LEMMA StepReads ==
  ASSUME KeepsHistory, GoodInv, CoverInv, ReadInv, CommitsFirst, NEW t \in Running, StepOf(t)
  PROVE  ReadInv'
<1>1. ASSUME NEW x \in Loc, NEW mo, NEW p, LoadAt(t, x, mo, p) PROVE ReadInv'
  BY <1>1, LoadReads
<1>2. ASSUME NEW x \in Loc, NEW mo, Store(t, x, mo) PROVE ReadInv'
  BY <1>2, StoreReads
<1>3. ASSUME NEW x \in Loc, NEW mo, NEW keep \in BOOLEAN, Rmw(t, x, mo, keep) PROVE ReadInv'
  BY <1>3, RmwReads
<1>4. ASSUME NEW x \in Loc, CasRelaxed(t, x) PROVE ReadInv'
  BY <1>4, CasRelaxedReads
<1>5. ASSUME NEW x \in Loc, NEW fmo, CasFail(t, x, fmo) PROVE ReadInv'
  BY <1>5, CasFailReads
<1>6. ASSUME NEW mo, Fence(t, mo) PROVE ReadInv'
  BY <1>6, FenceReads
<1>7. ASSUME Lock(t) PROVE ReadInv'
  BY <1>7, LockReads
<1>8. ASSUME Unlock(t) \/ Finish(t) PROVE ReadInv'
  BY <1>8, StampReads
<1>9. ASSUME NEW u \in Tid, Create(t, u) PROVE ReadInv'
  BY <1>9, CreateReads
<1>10. ASSUME NEW u \in Tid, ThreadJoin(t, u) PROVE ReadInv'
  BY <1>10, JoinReads
<1> QED
  BY <1>1, <1>2, <1>3, <1>4, <1>5, <1>6, <1>7, <1>8, <1>9, <1>10 DEF StepOf

\* At first there is only the initial value to read.
LEMMA InitReads ==
  ASSUME KeepsHistory, Init
  PROVE  ReadInv
<1>1. /\ \A t \in Tid : /\ hist.view[t] = FirstView
                        /\ hist.past[t] = << [view |-> FirstView, clock |-> Raised(Zero, t, 1)] >>
                        /\ thr[t].epoch = 1 /\ thr[t].clock = Raised(Zero, t, 1)
      /\ FirstView \in Views
  BY FirstHistory
<1>2. GoodInv
  BY InitGood
<1>3. \A x \in Loc : loc[x].buf = EmptyBuffer
  BY DEF Init, InitWith
<1>4. /\ Held(EmptyBuffer) = {1} /\ EmptyBuffer.loads = {}
      /\ \A t \in Tid : EmptyBuffer.pos[t] = 0 /\ EmptyBuffer.active[t].epoch = 0
  BY DEF EmptyBuffer, Held, End, NoLoad
<1>5. \A x \in Loc : FirstView[x].seen = 1
  BY DEF FirstView
<1>6. ASSUME NEW x \in Loc, NEW c PROVE Bars(loc[x].buf, thr, c, FirstView[x].seen)
  <2>1. \A q \in Held(loc[x].buf) : FirstView[x].seen <= q
    BY <1>3, <1>4, <1>5
  <2> QED
    BY <2>1 DEF Bars
<1>7. ASSUME NEW t \in Tid
      PROVE  /\ hist.past[t][1] = [view |-> FirstView, clock |-> Raised(Zero, t, 1)]
             /\ DOMAIN hist.past[t] = {1} /\ Backed(loc, thr, hist.past[t][1])
             /\ Raised(Zero, t, 1) \in Clock
             /\ Raised(Zero, t, 1)[t] = 1 /\ \A u \in Tid \ {t} : Raised(Zero, t, 1)[u] = 0
  <2>1. PICK p : p = [view |-> FirstView, clock |-> Raised(Zero, t, 1)]
    OBVIOUS
  <2>2. hist.past[t] = << p >>
    BY <1>1, <2>1
  <2>3. hist.past[t][1] = p /\ DOMAIN hist.past[t] = {1}
    BY <2>2
  <2>4. p.view = FirstView
    BY <2>1
  <2>5. Backed(loc, thr, p)
    BY <1>6, <2>4 DEF Backed
  <2>6. /\ Raised(Zero, t, 1) \in Clock
        /\ Raised(Zero, t, 1)[t] = 1 /\ \A u \in Tid \ {t} : Raised(Zero, t, 1)[u] = 0
    BY DEF Raised, Zero, Clock
  <2> QED
    BY <2>1, <2>3, <2>5, <2>6
<1>8. PICK G, B : G = GoodClocks(thr, hist.past) /\ B = BackedClocks(thr, loc, hist.past)
  OBVIOUS
<1>9. ClocksIn(G) /\ PastIn(thr, hist.past)
  BY <1>2, <1>8, HistoryPast DEF GoodInv
<1>10. ASSUME NEW t \in Tid, Creator[t] = NoTid PROVE Raised(Zero, t, 1) \in B
  <2>1. thr[t].status # "invalid"
    BY <1>10 DEF Init, InitWith, FirstThread
  <2>2. thr[t].clock \in G
    BY <1>9, <2>1 DEF ClocksIn, ThreadsIn
  <2>3. PICK c : c = Raised(Zero, t, 1)
    OBVIOUS
  <2>4. c \in G /\ c[t] = 1 /\ \A u \in Tid \ {t} : c[u] = 0
    BY <1>1, <1>7, <2>2, <2>3
  <2>5. ASSUME NEW u \in Tid PROVE c[u] = 0 \/ Backed(loc, thr, hist.past[u][c[u]])
    <3>1. CASE u = t
      BY <1>7, <2>4, <3>1
    <3>2. CASE u # t
      BY <2>4, <3>2
    <3> QED
      BY <3>1, <3>2
  <2> QED
    BY <1>8, <2>3, <2>4, <2>5 DEF BackedClocks
<1>11. Lattice(B)
  BY <1>8, <1>9, BackedLattice
<1>12. ClocksIn(B)
  BY <1>10, <1>11, InitClocks
<1>13. SharesIn(B)
  BY <1>12 DEF ClocksIn, ThreadsIn, SharesIn
<1>14. OthersBacked
  <2> SUFFICES ASSUME NEW t \in Tid, NEW u \in Tid \ {t}
               PROVE  thr[t].clock[u] = 0
    BY DEF OthersBacked
  <2>1. PICK c : c = Raised(Zero, t, 1)
    OBVIOUS
  <2>2. c[u] = 0
    BY <1>7, <2>1
  <2>3. thr[t].clock = c
    BY <1>1, <2>1
  <2> QED
    BY <2>2, <2>3
<1>15. ReadsBarred
  BY <1>1, <1>6 DEF ReadsBarred, Barred
<1>16. PastBelow
  <2> SUFFICES ASSUME NEW t \in Tid, NEW e \in DOMAIN hist.past[t], NEW x \in Loc
               PROVE  hist.past[t][e].view[x].seen <= hist.view[t][x].seen
    BY DEF PastBelow
  <2>1. DOMAIN hist.past[t] = {1}
    BY <1>7
  <2>2. e = 1
    BY <2>1
  <2>3. PICK p : p = [view |-> FirstView, clock |-> Raised(Zero, t, 1)]
    OBVIOUS
  <2>4. p.view = FirstView
    BY <2>3
  <2>5. hist.past[t][e] = p
    BY <1>7, <2>2, <2>3
  <2>6. hist.past[t][e].view = FirstView /\ hist.view[t] = FirstView
    BY <1>1, <2>4, <2>5
  <2>7. FirstView[x].seen = 1
    BY <1>5
  <2> QED
    BY <2>6, <2>7
<1>17. PositionsPlaced
  <2> SUFFICES ASSUME NEW t \in Tid, NEW x \in Loc
               PROVE  \A q \in Held(loc[x].buf) : loc[x].buf.pos[t] <= q
    BY DEF PositionsPlaced, Placed
  <2> QED
    BY <1>3, <1>4
<1>18. LoadsReached
  <2> SUFFICES ASSUME NEW x \in Loc
               PROVE  /\ loc[x].buf.loads = {}
                      /\ \A t \in Tid : loc[x].buf.active[t].epoch <= thr[t].epoch
    BY DEF LoadsReached
  <2>1. loc[x].buf = EmptyBuffer
    BY <1>3
  <2>2. ASSUME NEW t \in Tid PROVE loc[x].buf.active[t].epoch <= thr[t].epoch
    <3>1. thr[t].epoch = 1
      BY <1>1
    <3>2. loc[x].buf.active[t].epoch = 0
      BY <1>4, <2>1
    <3> QED
      BY <3>1, <3>2
  <2> QED
    BY <1>4, <2>1, <2>2
<1> QED
  BY <1>8, <1>13, <1>14, <1>15, <1>16, <1>17, <1>18 DEF ReadInv

\* No load reads a store before s, if that is barred to its thread.
LEMMA ReadsNotBarred ==
  ASSUME NEW b \in Buffers(Clock), Sound(b), NEW th \in ThreadStates(Clock),
         NEW isSc \in BOOLEAN, NEW p \in Readable(b, th, isSc), NEW all, NEW s \in Nat,
         s <= End(b), s <= b.pos[th.tid] \/ Bars(b, all, th.clock, s)
  PROVE  p >= s
<1>1. /\ p \in Held(b) /\ p >= b.pos[th.tid]
      /\ \A q \in Held(b) : Bounds(th, Tag(b, q), isSc) => q <= p
      /\ AtEnd(b, th.tid) => p = End(b)
      /\ ~AtEnd(b, th.tid) => \A q \in Held(b) : LoadBefore(Scanned(b, th), th, q) => q <= p
  BY ReadableFacts
<1>2. th.tid \in Tid /\ p \in Nat /\ b.pos[th.tid] \in Nat /\ End(b) \in Nat
      /\ \A q \in Held(b) : q \in Nat
  <2>1. th.tid \in Tid
    BY ThreadParts
  <2>2. b.pos[th.tid] \in Nat /\ End(b) \in Nat
    BY <2>1, BufferParts DEF End
  <2>3. \A q \in Held(b) : q \in Nat
    BY TagFacts
  <2> QED
    BY <1>1, <2>1, <2>2, <2>3
<1>3. CASE s <= b.pos[th.tid]
  BY <1>1, <1>2, <1>3
<1>4. CASE \A q \in Held(b) : s <= q
  BY <1>1, <1>2, <1>4
<1>5. ASSUME NEW q \in Held(b), q >= s, th.clock[Tag(b, q).tid] >= Tag(b, q).epoch
      PROVE  p >= s
  <2>1. Bounds(th, Tag(b, q), isSc)
    BY <1>5 DEF Bounds
  <2>2. q <= p /\ q \in Nat
    BY <1>1, <1>2, <2>1
  <2> QED
    BY <1>2, <1>5, <2>2
<1>6. ASSUME NEW l \in b.loads, l.at >= s, th.clock[l.tid] > l.epoch
      PROVE  p >= s
  <2>1. l.at \in Held(b) /\ l.at \in Nat
    BY <1>2 DEF Sound
  <2>2. CASE AtEnd(b, th.tid)
    BY <1>1, <2>2
  <2>3. CASE ~AtEnd(b, th.tid)
    <3>1. PICK c : c = Scanned(b, th)
      OBVIOUS
    <3>2. \A k \in b.loads : k.at >= 1 /\ k \notin c.loads =>
            /\ k = ActiveLoad(b, th.tid)
            /\ ~(th.lastRelease > b.active[th.tid].epoch)
      BY <3>1, ScannedFacts
    <3>3. CASE l \in c.loads
      <4>1. LoadBefore(c, th, l.at)
        BY <1>6, <3>3 DEF LoadBefore
      <4>2. l.at <= p
        BY <1>1, <2>1, <2>3, <3>1, <4>1
      <4> QED
        BY <1>2, <1>6, <2>1, <4>2
    <3>4. CASE l \notin c.loads
      <4>1. l.at >= 1
        BY <2>1, TagFacts
      <4>2. l = ActiveLoad(b, th.tid)
        BY <3>2, <3>4, <4>1
      <4>3. l.at = b.active[th.tid].at
        BY <4>2 DEF ActiveLoad
      <4>4. b.active[th.tid] # NoLoad
        BY <4>1, <4>3 DEF NoLoad
      <4>5. b.pos[th.tid] = l.at
        BY <1>2, <4>3, <4>4 DEF Sound, Attached
      <4> QED
        BY <1>1, <1>2, <1>6, <2>1, <4>5
    <3> QED
      BY <3>3, <3>4
  <2> QED
    BY <2>2, <2>3
<1> QED
  BY <1>3, <1>4, <1>5, <1>6 DEF Bars

\* In every state that a program reaches which commits its loads before it gives its
\* clock to a mutex or to a thread it creates, the buffers bar what the views saw.
THEOREM ReadsAreBacked ==
  ASSUME KeepsHistory PROVE Spec /\ [][CommitsFirst]_vars => [](GoodInv /\ CoverInv /\ ReadInv)
<1>1. Init => ReadInv
  BY InitReads
<1>2. GoodInv /\ CoverInv /\ ReadInv /\ [Next]_vars /\ [CommitsFirst]_vars => ReadInv'
  <2> SUFFICES ASSUME GoodInv, CoverInv, ReadInv, [Next]_vars, [CommitsFirst]_vars
               PROVE  ReadInv'
    OBVIOUS
  <2>1. CASE UNCHANGED vars
    <3>1. thr' = thr /\ loc' = loc /\ hist' = hist /\ mutex' = mutex
      BY <2>1 DEF vars
    <3>2. PICK B : B = BackedClocks(thr, loc, hist.past)
      OBVIOUS
    <3>3. BackedClocks(thr', loc', hist'.past) = B
      BY <3>1, <3>2
    <3>4. SharesIn(B)
      BY <3>2 DEF ReadInv
    <3>5. SharesIn(B)'
      BY <3>1, <3>4 DEF SharesIn, LocationsIn, MutexIn
    <3>7. OthersBacked' /\ ReadsBarred'
      BY <3>1 DEF ReadInv, OthersBacked, ReadsBarred
    <3>8. PastBelow' /\ PositionsPlaced' /\ LoadsReached'
      BY <3>1 DEF ReadInv, PastBelow, PositionsPlaced, LoadsReached
    <3> QED
      BY <3>3, <3>5, <3>7, <3>8 DEF ReadInv
  <2>2. CASE Next /\ CommitsFirst
    <3>1. PICK t \in Running : StepOf(t)
      BY <2>2, StepCases
    <3> QED
      BY <2>2, <3>1, StepReads
  <2> QED
    BY <2>1, <2>2
<1> QED
  BY <1>1, <1>2, StoresAreCovered, PTL DEF Spec

\* No load of such a program reads a store that precedes one its past read
\* (ReadReadCoherence of Tsan11). Without the hypothesis it may: a load in progress
\* that is not committed when its thread unlocks or creates a thread moves on later.
THEOREM ReadsAreCoherent ==
  ASSUME KeepsHistory PROVE Spec /\ [][CommitsFirst]_vars => []ReadReadCoherence
<1>1. GoodInv /\ CoverInv /\ ReadInv => ReadReadCoherence
  <2> SUFFICES ASSUME GoodInv, CoverInv, ReadInv,
                      NEW t \in Tid, NEW x \in Loc, NEW mo, NEW p \in NextReads(t, x, mo)
               PROVE  p >= hist.view[t][x].seen
    BY NextLoadFacts DEF ReadReadCoherence
  <2>1. PICK b, th, isSc, s : /\ b = loc[x].buf /\ th = ScReads(thr[t], mo)
                              /\ isSc = (mo = "seq_cst") /\ s = hist.view[t][x].seen
    OBVIOUS
  <2>2. b \in Buffers(Clock) /\ Sound(b)
    BY <2>1, CoverParts
  <2>3. th \in ThreadStates(Clock) /\ th.tid = t /\ th.clock = thr[t].clock
    BY <2>1, ReaderFacts
  <2>4. isSc \in BOOLEAN /\ p \in Readable(b, th, isSc)
    BY <2>1 DEF NextReads
  <2>5. s \in Nat /\ s <= End(b)
    <3>1. hist.view[t] \in Views /\ Within(loc, hist.view[t])
      BY CoverParts
    <3> QED
      BY <2>1, <3>1 DEF Views, Within
  <2>6. s <= b.pos[th.tid] \/ Bars(b, thr, th.clock, s)
    BY <2>1, <2>3 DEF ReadInv, ReadsBarred, Barred
  <2>7. p >= s
    BY <2>2, <2>3, <2>4, <2>5, <2>6, ReadsNotBarred
  <2> QED
    BY <2>1, <2>7
<1> QED
  BY <1>1, ReadsAreBacked, PTL

\* The thread t has no load in progress.
Loadless(t) == \A x \in Loc : loc[x].buf.active[t] = NoLoad

\* No thread that creates others reads; its stores and read-modify-writes leave no load
\* in progress.
CreatorsReadNothing ==
  \A u \in Tid, x \in Loc : Creator[u] # NoTid =>
    Uses[<<Creator[u], x>>].load = {} /\ Uses[<<Creator[u], x>>].casfail = {}

\* A load of another thread is none of u.
LEMMA LoadLoadless ==
  ASSUME ClocksIn(Clock), NEW t \in Running, NEW x \in Loc, NEW mo, NEW p,
         LoadAt(t, x, mo, p), NEW u \in Tid \ {t}, Loadless(u)
  PROVE  Loadless(u)'
<1>1. PICK th : th = ScReads(thr[t], mo)
  OBVIOUS
<1>2. /\ NewLocation(x, loc[x].sync, FetchStore(loc[x].buf, ScReads(thr[t], mo), p))
      /\ p \in Held(loc[x].buf)
  BY LoadStep, ClockLattice
<1>3. /\ thr[t] \in ThreadStates(Clock) /\ thr[t].tid = t /\ ctx.sfence \in Clock
      /\ loc[x].buf \in Buffers(Clock) /\ Sound(loc[x].buf)
  BY StateParts, ClockLattice
<1>4. th \in ThreadStates(Clock) /\ th.tid = t
  BY <1>1, <1>3, ScReadsFacts
<1>5. PICK b, r : b = loc[x].buf /\ r = FetchStore(b, th, p)
  OBVIOUS
<1>6. loc'[x].buf = r /\ \A z \in Loc \ {x} : loc'[z] = loc[z]
  BY <1>1, <1>2, <1>5 DEF NewLocation
<1>7. IF AtEnd(b, th.tid) THEN r = b ELSE Moved(b, th, p, r)
  BY <1>2, <1>3, <1>4, <1>5, FetchStoreFacts
<1>8. r.active[u] = b.active[u]
  BY <1>4, <1>7 DEF Moved
<1> QED
  BY <1>5, <1>6, <1>8 DEF Loadless

\* Nor is a CAS of another thread that fails.
LEMMA CasFailLoadless ==
  ASSUME ClocksIn(Clock), NEW t \in Running, NEW x \in Loc, NEW fmo,
         CasFail(t, x, fmo), NEW u \in Tid \ {t}, Loadless(u)
  PROVE  Loadless(u)'
<1>1. PICK k : k = Ticked(thr[t])
  OBVIOUS
<1>2. PICK th : th = ScReads(k, fmo)
  OBVIOUS
<1>3. NewLocation(x, loc[x].sync, AdvanceToEnd(loc[x].buf, th))
  <2>1. th = ScReads(Ticked(thr[t]), fmo)
    BY <1>1, <1>2
  <2> QED
    BY <2>1, CasFailStep, ClockLattice
<1>4. /\ thr[t] \in ThreadStates(Clock) /\ thr[t].tid = t /\ ctx.sfence \in Clock
      /\ loc[x].buf \in Buffers(Clock) /\ Sound(loc[x].buf)
  BY StateParts, ClockLattice
<1>5. k \in ThreadStates(Clock) /\ k.tid = t
  BY <1>1, <1>4 DEF Ticked, ThreadStates
<1>6. th \in ThreadStates(Clock) /\ th.tid = t
  BY <1>2, <1>4, <1>5, ScReadsFacts
<1>7. PICK b, r : b = loc[x].buf /\ r = AdvanceToEnd(b, th)
  OBVIOUS
<1>8. loc'[x].buf = r /\ \A z \in Loc \ {x} : loc'[z] = loc[z]
  BY <1>3, <1>7 DEF NewLocation
<1>9. IF b.active[th.tid].at = End(b) THEN r = b ELSE Moved(b, th, End(b), r)
  BY <1>4, <1>6, <1>7, AdvanceToEndFacts
<1>10. r.active[u] = b.active[u]
  BY <1>6, <1>9 DEF Moved
<1> QED
  BY <1>7, <1>8, <1>10 DEF Loadless

\* A store ends the load of its thread, if it had one, and starts none.
LEMMA StoredLoadless ==
  ASSUME NEW t, NEW x \in Loc, NEW mo, NEW th, NEW v, StoredBy(t, x, mo, th, v),
         NEW u \in Tid, Loadless(u)
  PROVE  Loadless(u)'
<1>1. PICK b, r : b = loc[x].buf /\ r = loc'[x].buf
  OBVIOUS
<1>2. Stored(b, th, mo = "seq_cst", r) /\ \A z \in Loc \ {x} : loc'[z] = loc[z]
  BY <1>1 DEF StoredBy
<1>3. r.active[u] = NoLoad
  <2>1. b.active[u] = NoLoad
    BY <1>1 DEF Loadless
  <2> QED
    BY <1>2, <2>1 DEF Stored
<1> QED
  BY <1>1, <1>2, <1>3 DEF Loadless

\* The threads that create others have no load in progress, and nobody has the mutex.
CreatorsLoadless ==
  mutex.holder = NoTid /\ \A u \in Tid : Creator[u] # NoTid => Loadless(Creator[u])

\* A step of an operation on a location keeps that.
LEMMA AccessLoadless ==
  ASSUME KeepsHistory, GoodInv, CreatorsReadNothing, CreatorsLoadless,
         NEW t \in Running, NEW x \in Loc,
         \/ \E mo \in Uses[<<t, x>>].load : Load(t, x, mo)
         \/ \E mo \in Uses[<<t, x>>].store : Store(t, x, mo)
         \/ \E mo \in Uses[<<t, x>>].rmw, keep \in BOOLEAN : Rmw(t, x, mo, keep)
         \/ \E mo \in Uses[<<t, x>>].cas : mo = "relaxed" /\ CasRelaxed(t, x)
         \/ \E mo \in Uses[<<t, x>>].casfail : CasFail(t, x, mo)
  PROVE  CreatorsLoadless'
<1>1. ClocksIn(Clock) /\ HistInv(hist, thr, loc)
  BY GoodTyped
<1>2. mutex' = mutex
  BY DEF Load, LoadAt, Store, Rmw, CasRelaxed, CasFail
<1>3. ASSUME NEW c \in Tid, Creator[c] # NoTid PROVE Loadless(Creator[c])'
  <2>1. PICK u \in Tid : u = Creator[c]
    BY <1>3, CreatorAssumption
  <2>2. Loadless(u)
    BY <1>3, <2>1 DEF CreatorsLoadless
  <2>3. t = u => Uses[<<t, x>>].load = {} /\ Uses[<<t, x>>].casfail = {}
    BY <1>3, <2>1 DEF CreatorsReadNothing
  <2>4. ASSUME NEW mo \in Uses[<<t, x>>].load, Load(t, x, mo) PROVE Loadless(u)'
    <3>1. PICK p : LoadAt(t, x, mo, p)
      BY <2>4 DEF Load
    <3>2. u # t
      BY <2>3
    <3> QED
      BY <1>1, <2>2, <3>1, <3>2, LoadLoadless
  <2>5. ASSUME NEW mo \in Uses[<<t, x>>].casfail, CasFail(t, x, mo) PROVE Loadless(u)'
    <3>1. u # t
      BY <2>3
    <3> QED
      BY <1>1, <2>2, <2>5, <3>1, CasFailLoadless
  <2>6. ASSUME NEW mo, Store(t, x, mo) PROVE Loadless(u)'
    <3>1. PICK th : th = Stamped(Ticked(thr[t]))
      OBVIOUS
    <3>2. StoredBy(t, x, mo, th, Learn(hist.view[t], thr'[t].clock))
      BY <1>1, <2>6, <3>1, StoreEffect
    <3> QED
      BY <2>2, <3>2, StoredLoadless
  <2>7. ASSUME NEW mo, NEW keep \in BOOLEAN, Rmw(t, x, mo, keep) PROVE Loadless(u)'
    <3>1. PICK th : th = ScReads(Stamped(Ticked(thr[t])), mo)
      OBVIOUS
    <3>2. StoredBy(t, x, mo, th, Learn(hist.view[t], thr'[t].clock))
      BY <1>1, <2>7, <3>1, RmwEffect
    <3> QED
      BY <2>2, <3>2, StoredLoadless
  <2>8. ASSUME CasRelaxed(t, x) PROVE Loadless(u)'
    <3>1. PICK th : th = Ticked(thr[t])
      OBVIOUS
    <3>2. StoredBy(t, x, "relaxed", th, Learn(hist.view[t], thr'[t].clock))
      BY <1>1, <2>8, <3>1, CasRelaxedEffect
    <3> QED
      BY <2>2, <3>2, StoredLoadless
  <2>9. Loadless(u)'
    BY <2>4, <2>5, <2>6, <2>7, <2>8
  <2> QED
    BY <2>1, <2>9 DEF Loadless
<1> QED
  BY <1>2, <1>3 DEF CreatorsLoadless

\* A step of any other kind, too, if no thread locks the mutex.
LEMMA StepLoadless ==
  ASSUME KeepsHistory, ~UsesMutex, CreatorsReadNothing, GoodInv, CreatorsLoadless, Next
  PROVE  CreatorsLoadless'
<1>1. PICK t \in Running :
        \/ \E x \in Loc :
             \/ \E mo \in Uses[<<t, x>>].load : Load(t, x, mo)
             \/ \E mo \in Uses[<<t, x>>].store : Store(t, x, mo)
             \/ \E mo \in Uses[<<t, x>>].rmw, keep \in BOOLEAN : Rmw(t, x, mo, keep)
             \/ \E mo \in Uses[<<t, x>>].cas : mo = "relaxed" /\ CasRelaxed(t, x)
             \/ \E mo \in Uses[<<t, x>>].casfail : CasFail(t, x, mo)
        \/ \E mo \in Fences[t] : Fence(t, mo)
        \/ Lock(t)
        \/ Unlock(t)
        \/ \E u \in Tid : Create(t, u) \/ ThreadJoin(t, u)
        \/ Creator[t] # NoTid /\ Finish(t)
  BY DEF Next
<1>2. ASSUME NEW x \in Loc,
             \/ \E mo \in Uses[<<t, x>>].load : Load(t, x, mo)
             \/ \E mo \in Uses[<<t, x>>].store : Store(t, x, mo)
             \/ \E mo \in Uses[<<t, x>>].rmw, keep \in BOOLEAN : Rmw(t, x, mo, keep)
             \/ \E mo \in Uses[<<t, x>>].cas : mo = "relaxed" /\ CasRelaxed(t, x)
             \/ \E mo \in Uses[<<t, x>>].casfail : CasFail(t, x, mo)
      PROVE  CreatorsLoadless'
  BY <1>2, AccessLoadless
<1>3. ASSUME NEW mo, Fence(t, mo) PROVE UNCHANGED <<loc, mutex>>
  BY <1>3 DEF Fence
<1>4. ASSUME Finish(t) PROVE UNCHANGED <<loc, mutex>>
  BY <1>4 DEF Finish
<1>5. ASSUME NEW u \in Tid, Create(t, u) PROVE UNCHANGED <<loc, mutex>>
  BY <1>5 DEF Create
<1>6. ASSUME NEW u \in Tid, ThreadJoin(t, u) PROVE UNCHANGED <<loc, mutex>>
  BY <1>6 DEF ThreadJoin
<1>7. ~Lock(t) /\ ~Unlock(t)
  <2>1. mutex.holder # t
    BY NoTidAssumption DEF CreatorsLoadless, Running
  <2> QED
    BY <2>1 DEF Lock, Unlock
<1>8. ASSUME UNCHANGED <<loc, mutex>> PROVE CreatorsLoadless'
  BY <1>8 DEF CreatorsLoadless, Loadless
<1> QED
  BY <1>1, <1>2, <1>3, <1>4, <1>5, <1>6, <1>7, <1>8

\* So it is for every program without a mutex whose creators of threads read nothing:
\* the program of the run `coherence' is one.
THEOREM AtomicReadsAreCoherent ==
  ASSUME KeepsHistory, ~UsesMutex, CreatorsReadNothing
  PROVE  Spec => []ReadReadCoherence
<1>1. Init => CreatorsLoadless
  <2> SUFFICES ASSUME Init PROVE CreatorsLoadless
    OBVIOUS
  <2>1. mutex.holder = NoTid /\ \A x \in Loc : loc[x].buf = EmptyBuffer
    BY DEF Init, InitWith
  <2>2. \A u \in Tid : EmptyBuffer.active[u] = NoLoad
    BY DEF EmptyBuffer
  <2>3. \A u \in Tid : Creator[u] # NoTid => Creator[u] \in Tid
    BY CreatorAssumption
  <2> QED
    BY <2>1, <2>2, <2>3 DEF CreatorsLoadless, Loadless
<1>2. GoodInv /\ CreatorsLoadless /\ [Next]_vars => CreatorsLoadless'
  <2> SUFFICES ASSUME GoodInv, CreatorsLoadless, [Next]_vars PROVE CreatorsLoadless'
    OBVIOUS
  <2>1. CASE UNCHANGED vars
    BY <2>1 DEF vars, CreatorsLoadless, Loadless
  <2>2. CASE Next
    BY <2>2, StepLoadless
  <2> QED
    BY <2>1, <2>2
<1>3. CreatorsLoadless /\ [Next]_vars => [CommitsFirst]_vars
  <2> SUFFICES ASSUME CreatorsLoadless PROVE CommitsFirst
    OBVIOUS
  <2>1. NoTid \notin Tid /\ \A t \in Running : t \in Tid
    BY NoTidAssumption DEF Running
  <2>2. \A t \in Running : mutex.holder # t
    BY <2>1 DEF CreatorsLoadless
  <2>3. \A t \in Running, u \in Tid : Creator[u] = t => Loadless(t)
    BY <2>1 DEF CreatorsLoadless
  <2> QED
    BY <2>2, <2>3 DEF CommitsFirst, Loadless
<1>4. Spec /\ [][CommitsFirst]_vars => []ReadReadCoherence
  BY ReadsAreCoherent
<1>5. Spec => []GoodInv
  BY ClocksAreGood
<1> QED
  BY <1>1, <1>2, <1>3, <1>4, <1>5, PTL DEF Spec
=============================================================================
