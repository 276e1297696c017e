-------------------------- MODULE StoreBufferProofs --------------------------
(***************************************************************************)
(* Proofs about the StoreBuffer and the handlers that use it: types, how   *)
(* many stores a buffer holds, that no load is left behind on a store that *)
(* was freed, and what the positions a load may read have in common, for   *)
(* any threads, locations, orders and size of the buffer.                  *)
(***************************************************************************)
EXTENDS Tsan11, ClockProofs, FiniteSetTheorems, WellFoundedInduction

Statuses == {"invalid", "running", "finished", "dead"}

StoreElems(G) == [tid : Tid, epoch : Nat, sc : BOOLEAN, data : G]

\* The StoreBuffers whose copies of clocks are in G.
Buffers(G) ==
  [stores : UNION {[S -> StoreElems(G)] : S \in SUBSET Nat},
   last   : Nat,
   prev   : [tid : Tid, epoch : Nat, sc : BOOLEAN],
   pos    : [Tid -> Nat],
   loads  : SUBSET [at : Nat, tid : Tid, epoch : Nat],
   active : [Tid -> [at : Nat, epoch : Nat]]]

\* The ThreadStates whose fence clocks are in G.
ThreadStates(G) ==
  [tid : Tid, status : Statuses, epoch : Nat, clock : Clock, lastRelease : Nat,
   frel : G, facq : G, slimit : Clock, swrite : Clock, sread : Clock]

\* The positions of the stores that are still there, and what is known of them.
Held(b) == DOMAIN b.stores \cup {End(b)}

Tag(b, p) == IF p = End(b) THEN b.prev ELSE b.stores[p]

\* The buffer holds the positions from f on, at most kBuffMaxSize + 2 of them.
Window(b, f) ==
  /\ f >= 1 /\ b.last <= f + kBuffMaxSize + 1
  /\ f <= b.last \/ (f = 1 /\ b.last = 0)
  /\ DOMAIN b.stores = f..b.last

Attached(b) ==
  \A t \in Tid : b.active[t] # NoLoad =>
    ActiveLoad(b, t) \in b.loads /\ b.pos[t] = b.active[t].at

\* What the operations on a buffer keep.
Sound(b) ==
  /\ \E f \in Nat : Window(b, f)
  /\ \A t \in Tid : b.pos[t] <= End(b)
  /\ \A l \in b.loads : l.at \in Held(b)
  /\ Attached(b)

\* The load th makes at position p, and the buffer r that results from b: the
\* load of th moves there from where it was, unless it was committed.
NewLoad(th, p) == [at |-> p, tid |-> th.tid, epoch |-> th.epoch]

Moved(b, th, p, r) ==
  /\ r.stores = b.stores /\ r.last = b.last /\ r.prev = b.prev
  /\ r.pos[th.tid] = p /\ \A u \in Tid \ {th.tid} : r.pos[u] = b.pos[u]
  /\ r.active[th.tid] = [at |-> p, epoch |-> th.epoch]
  /\ \A u \in Tid \ {th.tid} : r.active[u] = b.active[u]
  /\ NewLoad(th, p) \in r.loads
  /\ \A l \in r.loads : l \in b.loads \/ l = NewLoad(th, p)
  /\ \A l \in b.loads : l \in r.loads \/ (l = ActiveLoad(b, th.tid)
                                         /\ ~(th.lastRelease > b.active[th.tid].epoch))

\* The buffer r that a store of th makes of b: the stores keep their tags, but for
\* new SC marks, and only loads that are evicted and the active load of th go.
Stored(b, th, isSc, r) ==
  /\ r.last = End(b)
  /\ r.prev = [tid |-> th.tid, epoch |-> th.epoch, sc |-> isSc]
  /\ r.pos[th.tid] = End(r) /\ \A u \in Tid \ {th.tid} : r.pos[u] = b.pos[u]
  /\ DOMAIN r.stores \subseteq Held(b)
  /\ \A q \in DOMAIN r.stores :
       /\ r.stores[q].tid = Tag(b, q).tid /\ r.stores[q].epoch = Tag(b, q).epoch
       /\ r.stores[q].sc <=> Tag(b, q).sc \/ Marks(th, Tag(b, q), isSc)
  /\ r.loads \subseteq b.loads
  /\ \A l \in b.loads : l \in r.loads \/ l.at \notin Held(r)
                        \/ (l = ActiveLoad(b, th.tid)
                             /\ ~(th.lastRelease > b.active[th.tid].epoch))
  /\ r.active[th.tid] = NoLoad
  /\ \A u \in Tid \ {th.tid} : r.active[u] = IF b.active[u].at \in Held(r) THEN b.active[u]
                                                                        ELSE NoLoad

-----------------------------------------------------------------------------
(* Extrema. *)

\* A set of numbers that is not empty has a least element.
LEMMA MinFacts ==
  ASSUME NEW S \in SUBSET Nat, S # {}
  PROVE  Min(S) \in S /\ \A s \in S : Min(S) <= s
<1>1. PICK x \in S : \A y \in S : <<y, x>> \notin OpToRel(<, Nat)
  BY NatLessThanWellFounded, WFMin
<1>2. ASSUME NEW y \in S PROVE x <= y
  <2>1. ~(y < x)
    BY <1>1 DEF OpToRel
  <2> QED
    BY <2>1
<1> QED
  BY <1>2 DEF Min

\* A bounded one has a greatest element.
LEMMA MaxFacts ==
  ASSUME NEW S \in SUBSET Nat, S # {}, NEW n \in Nat, \A s \in S : s <= n
  PROVE  Max(S) \in S /\ \A s \in S : s <= Max(S)
<1> DEFINE D == {k \in Nat : \E s \in S : k + s = n}
<1>1. D \in SUBSET Nat /\ D # {}
  <2>1. PICK s \in S : TRUE
    OBVIOUS
  <2>2. s \in Nat /\ s <= n
    BY <2>1
  <2>3. n - s \in Nat /\ (n - s) + s = n
    BY <2>2
  <2> QED
    BY <2>3
<1>2. PICK k \in D : \A j \in D : k <= j
  BY <1>1, MinFacts
<1>3. PICK m \in S : k + m = n
  OBVIOUS
<1>4. ASSUME NEW s \in S PROVE s <= m
  <2>1. s \in Nat /\ s <= n /\ m \in Nat /\ k \in Nat
    BY <1>2, <1>3
  <2>2. n - s \in D
    <3>1. n - s \in Nat /\ (n - s) + s = n
      BY <2>1
    <3> QED
      BY <3>1
  <2>3. k <= n - s
    BY <1>2, <2>2
  <2> QED
    BY <1>3, <2>1, <2>3
<1> HIDE DEF D
<1>5. \A s \in S : m >= s
  <2>1. m \in Nat /\ \A s \in S : s \in Nat
    OBVIOUS
  <2> QED
    BY <1>4, <2>1
<1>6. Max(S) \in S /\ \A s \in S : Max(S) >= s
  BY <1>5 DEF Max
<1>7. ASSUME NEW s \in S PROVE s <= Max(S)
  BY <1>6
<1> QED
  BY <1>6, <1>7

-----------------------------------------------------------------------------
(* The operations on a StoreBuffer. *)

\* The parts of a buffer.
LEMMA BufferParts ==
  ASSUME NEW G, NEW b \in Buffers(G)
  PROVE  /\ b = [stores |-> b.stores, last |-> b.last, prev |-> b.prev,
                 pos |-> b.pos, loads |-> b.loads, active |-> b.active]
         /\ b.stores \in UNION {[S -> StoreElems(G)] : S \in SUBSET Nat}
         /\ \A p \in DOMAIN b.stores : p \in Nat /\ b.stores[p] \in StoreElems(G)
         /\ b.last \in Nat /\ End(b) \in Nat
         /\ b.prev \in [tid : Tid, epoch : Nat, sc : BOOLEAN]
         /\ b.pos \in [Tid -> Nat]
         /\ b.loads \in SUBSET [at : Nat, tid : Tid, epoch : Nat]
         /\ b.active \in [Tid -> [at : Nat, epoch : Nat]]
<1>1. /\ b = [stores |-> b.stores, last |-> b.last, prev |-> b.prev,
               pos |-> b.pos, loads |-> b.loads, active |-> b.active]
      /\ b.stores \in UNION {[S -> StoreElems(G)] : S \in SUBSET Nat}
      /\ b.last \in Nat
      /\ b.prev \in [tid : Tid, epoch : Nat, sc : BOOLEAN]
      /\ b.pos \in [Tid -> Nat]
      /\ b.loads \in SUBSET [at : Nat, tid : Tid, epoch : Nat]
      /\ b.active \in [Tid -> [at : Nat, epoch : Nat]]
  BY DEF Buffers
<1>2. End(b) \in Nat
  BY <1>1 DEF End
<1>3. \A p \in DOMAIN b.stores : p \in Nat /\ b.stores[p] \in StoreElems(G)
  <2>1. PICK S \in SUBSET Nat : b.stores \in [S -> StoreElems(G)]
    BY <1>1
  <2> QED
    BY <2>1
<1> QED
  BY <1>1, <1>2, <1>3

\* A buffer from its parts.
LEMMA BufferFrom ==
  ASSUME NEW G, NEW s, NEW D \in SUBSET Nat, DOMAIN s = D, s = [p \in D |-> s[p]],
         \A p \in D : s[p] \in StoreElems(G),
         NEW l \in Nat, NEW v \in [tid : Tid, epoch : Nat, sc : BOOLEAN],
         NEW q \in [Tid -> Nat], NEW ld \in SUBSET [at : Nat, tid : Tid, epoch : Nat],
         NEW a \in [Tid -> [at : Nat, epoch : Nat]]
  PROVE  [stores |-> s, last |-> l, prev |-> v, pos |-> q, loads |-> ld, active |-> a]
           \in Buffers(G)
<1>1. s \in [D -> StoreElems(G)]
  OBVIOUS
<1> QED
  BY <1>1 DEF Buffers

\* Two tags, and what a tag is.
LEMMA TagType ==
  ASSUME NEW G, NEW b \in Buffers(G), NEW p \in Held(b)
  PROVE  Tag(b, p).tid \in Tid /\ Tag(b, p).epoch \in Nat /\ Tag(b, p).sc \in BOOLEAN
<1>1. CASE p = End(b)
  BY <1>1, BufferParts DEF Tag
<1>2. CASE p # End(b)
  <2>1. b.stores[p] \in StoreElems(G)
    BY <1>2, BufferParts DEF Held
  <2> QED
    BY <1>2, <2>1 DEF Tag, StoreElems
<1> QED
  BY <1>1, <1>2

\* A committed load stays where it is, and the active load of t is gone.
LEMMA ScannedFacts ==
  ASSUME NEW G, NEW b \in Buffers(G), NEW th \in ThreadStates(G), NEW s, s = Scanned(b, th)
  PROVE  /\ s \in Buffers(G)
         /\ s.stores = b.stores /\ s.last = b.last /\ s.prev = b.prev /\ s.pos = b.pos
         /\ s.active[th.tid] = NoLoad
         /\ \A u \in Tid \ {th.tid} : s.active[u] = b.active[u]
         /\ s.loads \subseteq b.loads
         /\ \A l \in b.loads : l.at >= 1 /\ l \notin s.loads =>
              /\ l = ActiveLoad(b, th.tid)
              /\ ~(th.lastRelease > b.active[th.tid].epoch)
<1> DEFINE t == th.tid
           c == Commit(b, th)
<1>1. t \in Tid /\ NoLoad \in [at : Nat, epoch : Nat]
  BY DEF ThreadStates, NoLoad
<1>2. /\ c \in Buffers(G)
      /\ c.stores = b.stores /\ c.last = b.last /\ c.prev = b.prev /\ c.pos = b.pos
      /\ c.loads = b.loads
      /\ \A u \in Tid \ {t} : c.active[u] = b.active[u]
      /\ c.active[t] = IF b.active[t] # NoLoad /\ th.lastRelease > b.active[t].epoch
                       THEN NoLoad ELSE b.active[t]
  BY <1>1 DEF Commit, Buffers
<1>3. s = [c EXCEPT !.loads = @ \ {ActiveLoad(c, t)}, !.active[t] = NoLoad]
  BY DEF Scanned, DropActive
<1> HIDE DEF c
<1>4. /\ s \in Buffers(G)
      /\ s.stores = c.stores /\ s.last = c.last /\ s.prev = c.prev /\ s.pos = c.pos
      /\ s.loads = c.loads \ {ActiveLoad(c, t)}
      /\ s.active[t] = NoLoad
      /\ \A u \in Tid \ {t} : s.active[u] = c.active[u]
  <2> DEFINE a == [c.active EXCEPT ![t] = NoLoad]
             ld == c.loads \ {ActiveLoad(c, t)}
  <2>1. s = [c EXCEPT !.loads = ld, !.active = a]
    BY <1>2, <1>3, BufferParts
  <2>2. /\ a \in [Tid -> [at : Nat, epoch : Nat]] /\ a[t] = NoLoad
        /\ \A u \in Tid \ {t} : a[u] = c.active[u]
        /\ ld \in SUBSET [at : Nat, tid : Tid, epoch : Nat]
    BY <1>1, <1>2, BufferParts
  <2> HIDE DEF a
  <2>3. s \in Buffers(G)
    BY <1>2, <2>1, <2>2 DEF Buffers
  <2>4. /\ s.stores = c.stores /\ s.last = c.last /\ s.prev = c.prev /\ s.pos = c.pos
        /\ s.loads = ld /\ s.active = a
    BY <1>2, <2>1, BufferParts
  <2> QED
    BY <2>2, <2>3, <2>4
<1>5. ASSUME NEW l \in b.loads, l.at >= 1, l \notin s.loads
      PROVE  l = ActiveLoad(b, t) /\ ~(th.lastRelease > b.active[t].epoch)
  <2>1. l = ActiveLoad(c, t) /\ l.at = c.active[t].at
    BY <1>2, <1>4, <1>5 DEF ActiveLoad
  <2>2. c.active[t] # NoLoad
    BY <1>5, <2>1 DEF NoLoad
  <2> QED
    BY <1>2, <2>1, <2>2 DEF ActiveLoad
<1> QED
  BY <1>2, <1>4, <1>5

\* The front store and its loads fall off a buffer that is over its cap.
LEMMA EvictFacts ==
  ASSUME NEW G, NEW b \in Buffers(G), Sound(b), NEW e, e = Evict(b)
  PROVE  /\ e \in Buffers(G)
         /\ e.last = b.last /\ e.prev = b.prev /\ e.pos = b.pos
         /\ \E f \in Nat : Window(e, f) /\ e.last <= f + kBuffMaxSize
         /\ DOMAIN e.stores \subseteq DOMAIN b.stores
         /\ \A p \in DOMAIN e.stores : e.stores[p] = b.stores[p]
         /\ \A l : l \in e.loads <=> l \in b.loads /\ l.at \in Held(e)
         /\ \A t \in Tid : e.active[t] = IF b.active[t].at \in Held(e) THEN b.active[t]
                                                                     ELSE NoLoad
<1>0. kBuffMaxSize \in Nat
  BY BuffAssumption
<1>1. PICK f \in Nat : Window(b, f)
  BY DEF Sound
<1>2. /\ b.last \in Nat /\ DOMAIN b.stores = f..b.last /\ f >= 1
      /\ \A l \in b.loads : l.at \in Held(b) /\ l.at \in Nat
  BY <1>1, BufferParts DEF Window, Sound
<1>3. ASSUME NEW t \in Tid PROVE b.active[t] = NoLoad \/ b.active[t].at \in Held(b)
  BY <1>2 DEF Sound, Attached, ActiveLoad
<1>4. CASE ~(DOMAIN b.stores # {} /\ b.last - Min(DOMAIN b.stores) > kBuffMaxSize)
  <2>1. e = b
    BY <1>4 DEF Evict
  <2>2. b.last <= f + kBuffMaxSize
    <3>1. CASE f <= b.last
      <4>1. DOMAIN b.stores # {} /\ DOMAIN b.stores \in SUBSET Nat /\ f \in DOMAIN b.stores
        BY <1>2, <3>1
      <4>2. Min(DOMAIN b.stores) \in DOMAIN b.stores /\ Min(DOMAIN b.stores) <= f
        BY <4>1, MinFacts
      <4>3. Min(DOMAIN b.stores) = f
        BY <1>2, <4>2
      <4>4. ~(b.last - f > kBuffMaxSize)
        BY <1>4, <4>1, <4>3
      <4> QED
        BY <1>0, <1>2, <4>4
    <3>2. CASE f > b.last
      BY <1>0, <1>2, <3>2
    <3> QED
      BY <1>2, <3>1, <3>2
  <2>3. \A t \in Tid : b.active[t] = IF b.active[t].at \in Held(b) THEN b.active[t] ELSE NoLoad
    BY <1>3
  <2> QED
    BY <1>1, <1>2, <2>1, <2>2, <2>3
<1>5. CASE DOMAIN b.stores # {} /\ b.last - Min(DOMAIN b.stores) > kBuffMaxSize
  <2>1. f <= b.last
    BY <1>2, <1>5
  <2>2. Min(DOMAIN b.stores) = f
    <3>1. DOMAIN b.stores # {} /\ DOMAIN b.stores \in SUBSET Nat /\ f \in DOMAIN b.stores
      BY <1>2, <2>1
    <3>2. Min(DOMAIN b.stores) \in DOMAIN b.stores /\ Min(DOMAIN b.stores) <= f
      BY <3>1, MinFacts
    <3> QED
      BY <1>2, <3>2
  <2>3. f + 1 <= b.last /\ b.last <= (f + 1) + kBuffMaxSize
    BY <1>0, <1>1, <1>2, <1>5, <2>2 DEF Window
  <2> DEFINE D == (f + 1)..b.last
             s == [p \in D |-> b.stores[p]]
             ld == {l \in b.loads : l.at # f}
             a == [t \in Tid |-> IF b.active[t].at = f THEN NoLoad ELSE b.active[t]]
  <2>4. e = [b EXCEPT !.stores = s, !.loads = ld, !.active = a]
    BY <1>5, <2>2 DEF Evict
  <2>5. /\ e.stores = s /\ e.loads = ld /\ e.active = a
        /\ e.last = b.last /\ e.prev = b.prev /\ e.pos = b.pos
    BY <2>4, BufferParts
  <2>6. e \in Buffers(G)
    <3>1. D \in SUBSET Nat /\ D \subseteq DOMAIN b.stores
      BY <1>2
    <3>2. \A p \in D : s[p] \in StoreElems(G)
      BY <3>1, BufferParts
    <3>3. ld \in SUBSET [at : Nat, tid : Tid, epoch : Nat] /\ a \in [Tid -> [at : Nat, epoch : Nat]]
      BY BufferParts DEF NoLoad
    <3>4. [stores |-> s, last |-> b.last, prev |-> b.prev, pos |-> b.pos, loads |-> ld,
           active |-> a] \in Buffers(G)
      <4>1. DOMAIN s = D /\ s = [p \in D |-> s[p]]
        OBVIOUS
      <4> HIDE DEF s, D, ld, a
      <4> QED
        BY <3>1, <3>2, <3>3, <4>1, BufferParts, BufferFrom
    <3>5. e = [stores |-> s, last |-> b.last, prev |-> b.prev, pos |-> b.pos, loads |-> ld,
               active |-> a]
      BY <2>4, BufferParts
    <3> QED
      BY <3>4, <3>5
  <2>7. DOMAIN e.stores = (f + 1)..b.last /\ End(e) = End(b)
    BY <2>5 DEF End
  <2>8. \A p : p \in Held(e) <=> p \in Held(b) /\ p # f
    <3>1. End(b) # f
      BY <1>2, <2>1 DEF End
    <3>2. \A p : p \in (f + 1)..b.last <=> p \in f..b.last /\ p # f
      BY <1>2
    <3> QED
      BY <1>2, <2>7, <3>1, <3>2 DEF Held
  <2>9. Window(e, f + 1) /\ f + 1 \in Nat
    BY <1>0, <1>2, <2>3, <2>5, <2>7 DEF Window
  <2>10. \A l : l \in e.loads <=> l \in b.loads /\ l.at \in Held(e)
    BY <1>2, <2>5, <2>8
  <2>11. ASSUME NEW t \in Tid
         PROVE  e.active[t] = IF b.active[t].at \in Held(e) THEN b.active[t] ELSE NoLoad
    BY <1>3, <2>5, <2>8
  <2>12. /\ DOMAIN e.stores \subseteq DOMAIN b.stores
         /\ \A p \in DOMAIN e.stores : e.stores[p] = b.stores[p]
    BY <1>2, <2>5, <2>7
  <2> QED
    BY <2>3, <2>5, <2>6, <2>9, <2>10, <2>11, <2>12
<1> QED
  BY <1>4, <1>5

\* The latest store enters the buffer, and th's takes its place.
LEMMA PushFacts ==
  ASSUME NEW G, NEW b \in Buffers(G), NEW th \in ThreadStates(G), NEW data \in G,
         NEW isSc \in BOOLEAN, NEW r, r = Push(b, th, data, isSc)
  PROVE  /\ r \in Buffers(G)
         /\ r.last = End(b) /\ r.loads = b.loads /\ r.active = b.active
         /\ r.prev = [tid |-> th.tid, epoch |-> th.epoch, sc |-> isSc]
         /\ r.pos[th.tid] = End(b) + 1 /\ \A u \in Tid \ {th.tid} : r.pos[u] = b.pos[u]
         /\ DOMAIN r.stores = Held(b)
         /\ \A q \in Held(b) :
              /\ r.stores[q].tid = Tag(b, q).tid /\ r.stores[q].epoch = Tag(b, q).epoch
              /\ r.stores[q].sc <=> Tag(b, q).sc \/ Marks(th, Tag(b, q), isSc)
<1> DEFINE elem == [tid |-> b.prev.tid, epoch |-> b.prev.epoch, sc |-> b.prev.sc, data |-> data]
           all == [p \in DOMAIN b.stores \cup {End(b)} |->
                     IF p = End(b) THEN elem ELSE b.stores[p]]
           Marked(e) == [e EXCEPT !.sc = @ \/ Marks(th, e, isSc)]
           st == [p \in DOMAIN all |-> Marked(all[p])]
<1>1. /\ th.tid \in Tid /\ th.epoch \in Nat /\ b.last \in Nat /\ End(b) \in Nat
      /\ b.prev \in [tid : Tid, epoch : Nat, sc : BOOLEAN]
  BY BufferParts DEF ThreadStates
<1>2. /\ DOMAIN st = Held(b) /\ Held(b) \in SUBSET Nat
      /\ \A p \in Held(b) : st[p] = Marked(all[p])
  BY <1>1, BufferParts DEF Held
<1>3. \A p \in Held(b) : /\ all[p] \in StoreElems(G)
                          /\ all[p].tid = Tag(b, p).tid /\ all[p].epoch = Tag(b, p).epoch
                          /\ all[p].sc = Tag(b, p).sc
  <2> TAKE p \in Held(b)
  <2>1. CASE p = End(b)
    <3>1. all[p] = elem
      BY <2>1
    <3> QED
      BY <1>1, <2>1, <3>1 DEF Tag, StoreElems
  <2>2. CASE p # End(b)
    <3>1. p \in DOMAIN b.stores /\ all[p] = b.stores[p] /\ Tag(b, p) = b.stores[p]
      BY <2>2 DEF Held, Tag
    <3> QED
      BY <3>1, BufferParts
  <2> QED
    BY <2>1, <2>2
<1> HIDE DEF all
<1>4. ASSUME NEW p \in Held(b)
      PROVE  /\ st[p] \in StoreElems(G)
             /\ st[p].tid = Tag(b, p).tid /\ st[p].epoch = Tag(b, p).epoch
             /\ st[p].sc <=> Tag(b, p).sc \/ Marks(th, Tag(b, p), isSc)
  <2> DEFINE e == all[p]
             m == e.sc \/ Marks(th, e, isSc)
  <2>1. e \in StoreElems(G) /\ st[p] = [e EXCEPT !.sc = m]
    BY <1>2, <1>3
  <2>2. m \in BOOLEAN
    <3>1. e.sc \in BOOLEAN
      BY <2>1 DEF StoreElems
    <3> QED
      BY <3>1 DEF Marks
  <2>3. m <=> Tag(b, p).sc \/ Marks(th, Tag(b, p), isSc)
    BY <1>3 DEF Marks
  <2> HIDE DEF m, e
  <2>4. st[p] \in StoreElems(G) /\ st[p].tid = e.tid /\ st[p].epoch = e.epoch /\ st[p].sc = m
    BY <2>1, <2>2 DEF StoreElems
  <2> QED
    BY <1>3, <2>3, <2>4 DEF e
<1> DEFINE v == [tid |-> th.tid, epoch |-> th.epoch, sc |-> isSc]
           q == [b.pos EXCEPT ![th.tid] = End(b) + 1]
<1>5. /\ v \in [tid : Tid, epoch : Nat, sc : BOOLEAN]
      /\ q \in [Tid -> Nat] /\ q[th.tid] = End(b) + 1
      /\ \A u \in Tid \ {th.tid} : q[u] = b.pos[u]
  BY <1>1, BufferParts
<1>6. r = [b EXCEPT !.stores = st, !.last = @ + 1, !.prev = v, !.pos = q]
  BY BufferParts DEF Push, all
<1>7. DOMAIN st = Held(b) /\ st = [p \in Held(b) |-> st[p]]
  BY <1>2
<1> HIDE DEF st, v, q
<1>8. r = [stores |-> st, last |-> End(b), prev |-> v, pos |-> q, loads |-> b.loads,
           active |-> b.active]
  <2>1. b = [stores |-> b.stores, last |-> b.last, prev |-> b.prev,
             pos |-> b.pos, loads |-> b.loads, active |-> b.active]
    BY BufferParts
  <2> QED
    BY <1>6, <2>1 DEF End
<1>9. r \in Buffers(G)
  <2>1. st \in UNION {[S -> StoreElems(G)] : S \in SUBSET Nat}
    <3>1. st \in [Held(b) -> StoreElems(G)]
      BY <1>4, <1>7
    <3> QED
      BY <1>2, <3>1
  <2>2. /\ b.loads \in SUBSET [at : Nat, tid : Tid, epoch : Nat]
        /\ b.active \in [Tid -> [at : Nat, epoch : Nat]]
    BY BufferParts
  <2> QED
    BY <1>1, <1>5, <1>8, <2>1, <2>2 DEF Buffers
<1> QED
  BY <1>2, <1>4, <1>5, <1>8, <1>9 DEF v

\* BufferStore: the tags of the stores stay, but for new SC marks, th's store is
\* the end, and only evicted loads and the active load of t are gone.
LEMMA BufferStoreFacts ==
  ASSUME NEW G, NEW b \in Buffers(G), Sound(b), NEW th \in ThreadStates(G), NEW data \in G,
         NEW isSc \in BOOLEAN, NEW r, r = BufferStore(b, th, data, isSc)
  PROVE  r \in Buffers(G) /\ Sound(r) /\ Stored(b, th, isSc, r)
<1> DEFINE t == th.tid
           e == Evict(b)
           p == Push(e, th, data, isSc)
<1>0. t \in Tid /\ kBuffMaxSize \in Nat /\ b.last \in Nat
  BY BuffAssumption, BufferParts DEF ThreadStates
<1>1. r = Scanned(p, th)
  BY DEF BufferStore, Scanned
<1>2. /\ e \in Buffers(G) /\ e.last = b.last /\ e.prev = b.prev /\ e.pos = b.pos
      /\ \E f \in Nat : Window(e, f) /\ e.last <= f + kBuffMaxSize
      /\ DOMAIN e.stores \subseteq DOMAIN b.stores
      /\ \A q \in DOMAIN e.stores : e.stores[q] = b.stores[q]
      /\ \A l : l \in e.loads <=> l \in b.loads /\ l.at \in Held(e)
      /\ \A u \in Tid : e.active[u] = IF b.active[u].at \in Held(e) THEN b.active[u] ELSE NoLoad
  BY EvictFacts
<1> HIDE DEF e
<1>3. /\ p \in Buffers(G)
      /\ p.last = End(e) /\ p.loads = e.loads /\ p.active = e.active
      /\ p.prev = [tid |-> t, epoch |-> th.epoch, sc |-> isSc]
      /\ p.pos[t] = End(e) + 1 /\ \A u \in Tid \ {t} : p.pos[u] = e.pos[u]
      /\ DOMAIN p.stores = Held(e)
      /\ \A q \in Held(e) :
           /\ p.stores[q].tid = Tag(e, q).tid /\ p.stores[q].epoch = Tag(e, q).epoch
           /\ p.stores[q].sc <=> Tag(e, q).sc \/ Marks(th, Tag(e, q), isSc)
  BY <1>2, PushFacts
<1> HIDE DEF p
<1>4. /\ r \in Buffers(G)
      /\ r.stores = p.stores /\ r.last = p.last /\ r.prev = p.prev /\ r.pos = p.pos
      /\ r.active[t] = NoLoad
      /\ \A u \in Tid \ {t} : r.active[u] = p.active[u]
      /\ r.loads \subseteq p.loads
      /\ \A l \in p.loads : l.at >= 1 /\ l \notin r.loads =>
           /\ l = ActiveLoad(p, t)
           /\ ~(th.lastRelease > p.active[t].epoch)
  BY <1>1, <1>3, ScannedFacts
<1>5. End(e) = End(b) /\ Held(e) \subseteq Held(b) /\ End(r) = End(b) + 1
      /\ Held(r) = Held(e) \cup {End(r)}
  BY <1>2, <1>3, <1>4 DEF End, Held
<1>6. \A q \in Held(e) : Tag(e, q) = Tag(b, q)
  BY <1>2, <1>5 DEF Tag, Held
<1>7. PICK f \in Nat : Window(e, f) /\ e.last <= f + kBuffMaxSize
  BY <1>2
<1>8. DOMAIN e.stores = f..b.last /\ f >= 1 /\ f <= b.last + 1 /\ Held(e) = f..(b.last + 1)
  <2>1. DOMAIN e.stores = f..b.last /\ f >= 1 /\ f <= b.last + 1
    BY <1>0, <1>2, <1>7 DEF Window
  <2>2. f..b.last \cup {b.last + 1} = f..(b.last + 1)
    BY <1>0, <2>1
  <2> QED
    BY <1>2, <2>1, <2>2 DEF Held, End
<1>9. Window(r, f)
  BY <1>0, <1>2, <1>3, <1>4, <1>7, <1>8 DEF Window, End
<1>10. \A u \in Tid : r.pos[u] <= End(r)
  <2> TAKE u \in Tid
  <2>1. CASE u = t
    BY <1>0, <1>3, <1>4, <1>5, <2>1, BufferParts DEF End
  <2>2. CASE u # t
    <3>1. r.pos[u] = b.pos[u] /\ b.pos[u] <= End(b) /\ b.pos[u] \in Nat
      BY <1>2, <1>3, <1>4, <2>2, BufferParts DEF Sound
    <3> QED
      BY <1>0, <1>5, <3>1 DEF End
  <2> QED
    BY <2>1, <2>2
<1>11. /\ \A l \in r.loads : l.at \in Held(r)
       /\ r.loads \subseteq b.loads
  BY <1>2, <1>3, <1>4, <1>5
<1>12. \A l \in b.loads : l.at >= 1 /\ l.at \in Nat
  <2>1. PICK g \in Nat : Window(b, g)
    BY DEF Sound
  <2>2. g >= 1 /\ DOMAIN b.stores = g..b.last /\ b.last \in Nat /\ End(b) = b.last + 1
        /\ (g <= b.last \/ g = 1)
    BY <2>1, BufferParts DEF Window, End
  <2>3. \A q \in Held(b) : q >= 1 /\ q \in Nat
    BY <2>2 DEF Held
  <2> QED
    BY <2>3 DEF Sound
<1>13. ASSUME NEW l \in b.loads
       PROVE  \/ l \in r.loads \/ l.at \notin Held(r)
              \/ (l = ActiveLoad(b, t) /\ ~(th.lastRelease > b.active[t].epoch))
  <2> SUFFICES ASSUME l \notin r.loads, l.at \in Held(r)
               PROVE  l = ActiveLoad(b, t) /\ ~(th.lastRelease > b.active[t].epoch)
    OBVIOUS
  <2>1. l.at \in Held(b) /\ l.at # End(r)
    <3>1. PICK g \in Nat : DOMAIN b.stores = g..b.last
      BY DEF Sound, Window
    <3>2. l.at \in Held(b)
      BY DEF Sound
    <3> QED
      BY <1>0, <1>5, <3>1, <3>2 DEF End, Held
  <2>2. l \in p.loads /\ l.at \in Held(e)
    BY <1>2, <1>3, <1>5, <2>1
  <2>3. l = ActiveLoad(p, t) /\ ~(th.lastRelease > p.active[t].epoch)
    BY <1>4, <1>12, <2>2
  <2>4. p.active[t].at = l.at /\ p.active[t] = e.active[t]
    BY <1>3, <2>3 DEF ActiveLoad
  <2>5. e.active[t] = b.active[t]
    BY <1>0, <1>2, <1>12, <2>4 DEF NoLoad
  <2> QED
    BY <2>3, <2>4, <2>5 DEF ActiveLoad
<1>14. Attached(r)
  <2> SUFFICES ASSUME NEW u \in Tid, r.active[u] # NoLoad
               PROVE  ActiveLoad(r, u) \in r.loads /\ r.pos[u] = r.active[u].at
    BY DEF Attached
  <2>1. u # t
    BY <1>4
  <2>2. r.active[u] = b.active[u] /\ b.active[u].at \in Held(e)
    BY <1>2, <1>3, <1>4, <2>1
  <2>3. ActiveLoad(b, u) \in b.loads /\ b.pos[u] = b.active[u].at
    BY <2>2 DEF Sound, Attached
  <2>4. ActiveLoad(r, u) = ActiveLoad(b, u) /\ ActiveLoad(r, u).tid = u
        /\ ActiveLoad(b, u).at \in Held(r) /\ ActiveLoad(b, t).tid = t
    BY <1>5, <2>2 DEF ActiveLoad
  <2>5. ActiveLoad(r, u) \in r.loads
    BY <1>13, <2>1, <2>3, <2>4
  <2> QED
    BY <1>2, <1>3, <1>4, <2>1, <2>2, <2>3, <2>5
<1>15. Sound(r)
  BY <1>9, <1>10, <1>11, <1>14 DEF Sound
<1>16. ASSUME NEW u \in Tid \ {t}
       PROVE  r.active[u] = IF b.active[u].at \in Held(r) THEN b.active[u] ELSE NoLoad
  <2>1. r.active[u] = IF b.active[u].at \in Held(e) THEN b.active[u] ELSE NoLoad
    BY <1>2, <1>3, <1>4
  <2>2. b.active[u].at # End(r)
    <3>1. b.active[u].at \in Nat /\ b.pos[u] \in Nat /\ b.pos[u] <= End(b)
      BY BufferParts DEF Sound
    <3>2. b.active[u] # NoLoad => b.pos[u] = b.active[u].at
      BY DEF Sound, Attached
    <3>3. b.active[u] = NoLoad => b.active[u].at = 0
      BY DEF NoLoad
    <3> QED
      BY <1>0, <1>5, <3>1, <3>2, <3>3 DEF End
  <2> QED
    BY <1>5, <2>1, <2>2
<1>17. \A q \in DOMAIN r.stores :
         /\ r.stores[q].tid = Tag(b, q).tid /\ r.stores[q].epoch = Tag(b, q).epoch
         /\ r.stores[q].sc <=> Tag(b, q).sc \/ Marks(th, Tag(b, q), isSc)
  BY <1>3, <1>4, <1>6
<1>18. Stored(b, th, isSc, r)
  BY <1>2, <1>3, <1>4, <1>5, <1>11, <1>13, <1>16, <1>17 DEF Stored
<1> QED
  BY <1>4, <1>15, <1>18

\* BufferStore, in short.
LEMMA BufferStoreSound ==
  ASSUME NEW G, NEW th \in ThreadStates(G)
  PROVE  \A b \in Buffers(G), data \in G, isSc \in BOOLEAN :
           Sound(b) => /\ BufferStore(b, th, data, isSc) \in Buffers(G)
                       /\ Sound(BufferStore(b, th, data, isSc))
<1> TAKE b \in Buffers(G), data \in G, isSc \in BOOLEAN
<1> DEFINE r == BufferStore(b, th, data, isSc)
<1>1. r = BufferStore(b, th, data, isSc)
  OBVIOUS
<1> HIDE DEF r
<1>2. ASSUME Sound(b) PROVE r \in Buffers(G) /\ Sound(r)
  BY <1>1, <1>2, BufferStoreFacts
<1> QED
  BY <1>1, <1>2

\* The positions a sound buffer holds.
LEMMA HeldFacts ==
  ASSUME NEW G, NEW b \in Buffers(G), Sound(b)
  PROVE  \E f \in Nat : /\ f >= 1 /\ f <= End(b)
                        /\ DOMAIN b.stores = f..b.last /\ Held(b) = f..End(b)
<1>1. PICK f \in Nat : Window(b, f)
  BY DEF Sound
<1>2. b.last \in Nat
  BY BufferParts
<1>3. f >= 1 /\ f <= End(b) /\ DOMAIN b.stores = f..b.last
  BY <1>1, <1>2 DEF Window, End
<1>4. (f..b.last) \cup {b.last + 1} = f..(b.last + 1)
  BY <1>2, <1>3 DEF End
<1> QED
  BY <1>3, <1>4 DEF Held, End

\* A load moves to a position p of a store that is still held.
LEMMA PlaceFacts ==
  ASSUME NEW G, NEW b \in Buffers(G), Sound(b), NEW th \in ThreadStates(G),
         NEW p \in Held(b), NEW s \in Buffers(G),
         s.stores = b.stores, s.last = b.last, s.prev = b.prev,
         s.pos[th.tid] = p, \A u \in Tid \ {th.tid} : s.pos[u] = b.pos[u],
         \A u \in Tid \ {th.tid} : s.active[u] = b.active[u],
         s.loads \subseteq b.loads,
         \A l \in b.loads : l.at >= 1 /\ l \notin s.loads =>
           /\ l = ActiveLoad(b, th.tid)
           /\ ~(th.lastRelease > b.active[th.tid].epoch),
         NEW r, r = PlaceLoad(s, th, p)
  PROVE  r \in Buffers(G) /\ Sound(r) /\ Moved(b, th, p, r)
<1> DEFINE t == th.tid
           a == [s.active EXCEPT ![t] = [at |-> p, epoch |-> th.epoch]]
           ld == s.loads \cup {NewLoad(th, p)}
<1>0. t \in Tid /\ th.epoch \in Nat
  BY DEF ThreadStates
<1>1. PICK f \in Nat : /\ f >= 1 /\ f <= End(b)
                       /\ DOMAIN b.stores = f..b.last /\ Held(b) = f..End(b)
  BY HeldFacts
<1>2. p \in Nat /\ p >= 1 /\ p <= End(b) /\ End(b) \in Nat
  BY <1>1, BufferParts
<1>3. /\ a \in [Tid -> [at : Nat, epoch : Nat]] /\ a[t] = [at |-> p, epoch |-> th.epoch]
      /\ \A u \in Tid \ {t} : a[u] = b.active[u]
      /\ ld \in SUBSET [at : Nat, tid : Tid, epoch : Nat]
  BY <1>0, <1>2, BufferParts DEF NewLoad
<1>4. r = [s EXCEPT !.loads = ld, !.active = a]
  BY BufferParts DEF PlaceLoad, NewLoad
<1> HIDE DEF a
<1>5. /\ r.stores = b.stores /\ r.last = b.last /\ r.prev = b.prev /\ r.pos = s.pos
      /\ r.loads = ld /\ r.active = a
  <2> HIDE DEF ld
  <2> QED
    BY <1>4, BufferParts
<1>6. r \in Buffers(G)
  <2> HIDE DEF ld
  <2> QED
    BY <1>3, <1>4 DEF Buffers
<1>7. \A l \in b.loads : l.at >= 1 /\ l.at \in Held(b)
  BY <1>1, BufferParts DEF Sound
<1>8. Moved(b, th, p, r)
  BY <1>3, <1>5, <1>7 DEF Moved
<1>9. Held(r) = Held(b) /\ End(r) = End(b)
  BY <1>5 DEF Held, End
<1>10. \E g \in Nat : Window(r, g)
  BY <1>5 DEF Sound, Window
<1>11. \A u \in Tid : r.pos[u] <= End(r)
  BY <1>2, <1>5, <1>9 DEF Sound
<1>12. \A l \in r.loads : l.at \in Held(r)
  BY <1>5, <1>7, <1>9 DEF NewLoad
<1>13. Attached(r)
  <2> SUFFICES ASSUME NEW u \in Tid, r.active[u] # NoLoad
               PROVE  ActiveLoad(r, u) \in r.loads /\ r.pos[u] = r.active[u].at
    BY DEF Attached
  <2>1. CASE u = t
    BY <1>3, <1>5, <2>1 DEF ActiveLoad, NewLoad
  <2>2. CASE u # t
    <3>1. r.active[u] = b.active[u] /\ r.pos[u] = b.pos[u]
      BY <1>3, <1>5, <2>2
    <3>2. ActiveLoad(b, u) \in b.loads /\ b.pos[u] = b.active[u].at
      BY <3>1 DEF Sound, Attached
    <3>3. ActiveLoad(b, u) # ActiveLoad(b, t) /\ ActiveLoad(r, u) = ActiveLoad(b, u)
      BY <2>2, <3>1 DEF ActiveLoad
    <3>4. ActiveLoad(b, u) \in s.loads
      BY <1>7, <3>2, <3>3
    <3> QED
      BY <1>5, <3>1, <3>2, <3>3, <3>4
  <2> QED
    BY <2>1, <2>2
<1> QED
  BY <1>6, <1>8, <1>10, <1>11, <1>12, <1>13 DEF Sound

\* FetchStore leaves the buffer alone or moves the load of th to what it read.
LEMMA FetchStoreFacts ==
  ASSUME NEW G, NEW b \in Buffers(G), Sound(b), NEW th \in ThreadStates(G),
         NEW p \in Held(b), NEW r, r = FetchStore(b, th, p)
  PROVE  /\ r \in Buffers(G) /\ Sound(r)
         /\ IF AtEnd(b, th.tid) THEN r = b ELSE Moved(b, th, p, r)
<1>1. CASE AtEnd(b, th.tid)
  BY <1>1 DEF FetchStore
<1>2. CASE ~AtEnd(b, th.tid)
  <2> DEFINE c == Scanned(b, th)
             s == [c EXCEPT !.pos[th.tid] = p]
  <2>1. r = PlaceLoad(s, th, p)
    BY <1>2 DEF FetchStore
  <2>2. /\ c \in Buffers(G)
        /\ c.stores = b.stores /\ c.last = b.last /\ c.prev = b.prev /\ c.pos = b.pos
        /\ \A u \in Tid \ {th.tid} : c.active[u] = b.active[u]
        /\ c.loads \subseteq b.loads
        /\ \A l \in b.loads : l.at >= 1 /\ l \notin c.loads =>
             /\ l = ActiveLoad(b, th.tid)
             /\ ~(th.lastRelease > b.active[th.tid].epoch)
    BY ScannedFacts
  <2> HIDE DEF c
  <2>3. th.tid \in Tid /\ p \in Nat
    BY BufferParts DEF ThreadStates, Held
  <2>4. /\ s \in Buffers(G)
        /\ s.stores = c.stores /\ s.last = c.last /\ s.prev = c.prev
        /\ s.loads = c.loads /\ s.active = c.active
        /\ s.pos[th.tid] = p /\ \A u \in Tid \ {th.tid} : s.pos[u] = c.pos[u]
    BY <2>2, <2>3 DEF Buffers
  <2> HIDE DEF s
  <2>5. r \in Buffers(G) /\ Sound(r) /\ Moved(b, th, p, r)
    BY <2>1, <2>2, <2>4, PlaceFacts
  <2> QED
    BY <1>2, <2>5
<1> QED
  BY <1>1, <1>2

\* A failed CAS moves th's position, and mostly its load, to the end.
LEMMA AdvanceToEndFacts ==
  ASSUME NEW G, NEW b \in Buffers(G), Sound(b), NEW th \in ThreadStates(G),
         NEW r, r = AdvanceToEnd(b, th)
  PROVE  /\ r \in Buffers(G) /\ Sound(r)
         /\ IF b.active[th.tid].at = End(b)
            THEN r = b
            ELSE Moved(b, th, End(b), r)
<1> DEFINE e == [b EXCEPT !.pos[th.tid] = End(b)]
           c == Scanned(e, th)
<1>1. th.tid \in Tid /\ End(b) \in Nat /\ End(b) \in Held(b)
  BY BufferParts DEF ThreadStates, Held
<1>2. /\ e \in Buffers(G)
      /\ e.stores = b.stores /\ e.last = b.last /\ e.prev = b.prev
      /\ e.loads = b.loads /\ e.active = b.active
      /\ e.pos[th.tid] = End(b) /\ \A u \in Tid \ {th.tid} : e.pos[u] = b.pos[u]
  BY <1>1 DEF Buffers
<1>3. CASE b.active[th.tid].at = End(b)
  <2>1. r = e
    BY <1>3 DEF AdvanceToEnd
  <2>2. b.pos[th.tid] = End(b)
    <3>1. End(b) # 0
      BY BufferParts DEF End
    <3>2. b.active[th.tid] # NoLoad
      BY <1>3, <3>1 DEF NoLoad
    <3> QED
      BY <1>1, <1>3, <3>2 DEF Sound, Attached
  <2>3. e = b
    BY <2>2, BufferParts
  <2> QED
    BY <1>2, <1>3, <2>1, <2>3
<1>4. CASE b.active[th.tid].at # End(b)
  <2>1. r = PlaceLoad(c, th, End(b))
    BY <1>4, <1>2 DEF AdvanceToEnd, End
  <2>2. /\ c \in Buffers(G)
        /\ c.stores = e.stores /\ c.last = e.last /\ c.prev = e.prev /\ c.pos = e.pos
        /\ \A u \in Tid \ {th.tid} : c.active[u] = e.active[u]
        /\ c.loads \subseteq e.loads
        /\ \A l \in e.loads : l.at >= 1 /\ l \notin c.loads =>
             /\ l = ActiveLoad(e, th.tid)
             /\ ~(th.lastRelease > e.active[th.tid].epoch)
    <3> HIDE DEF e
    <3> QED
      BY <1>2, ScannedFacts
  <2> HIDE DEF c, e
  <2>3. ActiveLoad(e, th.tid) = ActiveLoad(b, th.tid)
    BY <1>2 DEF ActiveLoad
  <2>4. r \in Buffers(G) /\ Sound(r) /\ Moved(b, th, End(b), r)
    BY <1>1, <1>2, <2>1, <2>2, <2>3, PlaceFacts
  <2> QED
    BY <1>4, <2>4
<1> QED
  BY <1>3, <1>4

\* The limit is a position still held, not before the thread's, and not before
\* any store that bounds the thread or that a load before it read.
LEMMA LimitFacts ==
  ASSUME NEW G, NEW b \in Buffers(G), Sound(b), NEW th \in ThreadStates(G),
         NEW isSc \in BOOLEAN, NEW L, L = Limit(b, th, isSc)
  PROVE  /\ L \in Held(b) /\ L >= b.pos[th.tid]
         /\ \A q \in Held(b) : Bounds(th, Tag(b, q), isSc) \/ LoadBefore(b, th, q) => q <= L
<1> DEFINE t == th.tid
           w == {p \in DOMAIN b.stores : p >= b.pos[t]}
           h == {p \in w : Bounds(th, b.stores[p], isSc) \/ LoadBefore(b, th, p)}
<1>0. t \in Tid
  BY DEF ThreadStates
<1>1. PICK f \in Nat : /\ f >= 1 /\ f <= End(b)
                       /\ DOMAIN b.stores = f..b.last /\ Held(b) = f..End(b)
  BY HeldFacts
<1>2. b.last \in Nat /\ End(b) = b.last + 1 /\ b.pos[t] \in Nat /\ b.pos[t] <= End(b)
  BY <1>0, BufferParts DEF Sound, End
<1>3. w \in SUBSET Nat /\ h \subseteq w /\ \A p \in w : p <= b.last /\ p \in Held(b)
  BY <1>1, <1>2
<1>4. ASSUME NEW q \in Held(b), Bounds(th, Tag(b, q), isSc) \/ LoadBefore(b, th, q)
      PROVE  q \in h \/ q < b.pos[t]
               \/ (q = End(b) /\ (Bounds(th, b.prev, isSc) \/ LoadBefore(b, th, End(b))))
  <2>1. CASE q = End(b)
    BY <1>4, <2>1 DEF Tag
  <2>2. CASE q # End(b)
    <3>1. q \in DOMAIN b.stores /\ Tag(b, q) = b.stores[q] /\ q \in Nat
      BY <1>1, <1>2, <2>2 DEF Held, Tag
    <3> QED
      BY <1>2, <1>4, <3>1
  <2> QED
    BY <2>1, <2>2
<1>5. L = IF w = {} \/ Bounds(th, b.prev, isSc) \/ LoadBefore(b, th, End(b)) THEN End(b)
          ELSE IF h # {} THEN Max(h) ELSE Min(w)
  BY DEF Limit
<1> HIDE DEF w, h
<1>6. \A q \in Held(b) : q \in Nat /\ q <= End(b)
  BY <1>1, <1>2
<1>7. CASE L = End(b)
  BY <1>2, <1>6, <1>7 DEF Held
<1>8. CASE L # End(b)
  <2>1. ~(Bounds(th, b.prev, isSc) \/ LoadBefore(b, th, End(b))) /\ w # {}
    BY <1>5, <1>8
  <2>2. CASE h # {}
    <3>1. Max(h) \in h /\ \A s \in h : s <= Max(h)
      BY <1>2, <1>3, <2>2, MaxFacts
    <3>2. L = Max(h)
      BY <1>5, <2>1, <2>2
    <3>3. L \in w /\ L >= b.pos[t] /\ L \in Nat
      BY <1>3, <3>1, <3>2 DEF w
    <3>4. ASSUME NEW q \in Held(b), Bounds(th, Tag(b, q), isSc) \/ LoadBefore(b, th, q)
          PROVE  q <= L
      <4>1. CASE q \in h
        BY <3>1, <3>2, <4>1
      <4>2. CASE q < b.pos[t]
        BY <1>2, <1>6, <3>3, <4>2
      <4>3. q \in h \/ q < b.pos[t]
        BY <1>4, <2>1, <3>4
      <4> QED
        BY <4>1, <4>2, <4>3
    <3> QED
      BY <1>3, <3>3, <3>4
  <2>3. CASE h = {}
    <3>1. Min(w) \in w
      BY <1>3, <2>1, MinFacts
    <3>2. L = Min(w)
      BY <1>5, <2>1, <2>3
    <3>3. L \in w /\ L >= b.pos[t] /\ L \in Nat
      BY <1>3, <3>1, <3>2 DEF w
    <3>4. ASSUME NEW q \in Held(b), Bounds(th, Tag(b, q), isSc) \/ LoadBefore(b, th, q)
          PROVE  q <= L
      BY <1>2, <1>4, <1>6, <2>1, <2>3, <3>3, <3>4
    <3> QED
      BY <1>3, <3>3, <3>4
  <2> QED
    BY <2>2, <2>3
<1> QED
  BY <1>7, <1>8

\* What a load of th may read: stores still held, at the limit of the buffer as
\* it is scanned or later. An SC load reads none that Skipped skips.
LEMMA ReadableFacts ==
  ASSUME NEW G, NEW b \in Buffers(G), Sound(b), NEW th \in ThreadStates(G),
         NEW isSc \in BOOLEAN, NEW p \in Readable(b, th, isSc)
  PROVE  /\ p \in Held(b) /\ p >= b.pos[th.tid]
         /\ \A q \in Held(b) : Bounds(th, Tag(b, q), isSc) => q <= p
         /\ AtEnd(b, th.tid) => p = End(b)
         /\ ~AtEnd(b, th.tid) =>
              \A q \in Held(b) : LoadBefore(Scanned(b, th), th, q) => q <= p
         /\ p # End(b) => \E L \in Held(b) :
              /\ p \in L..b.last
              /\ isSc => ~Skipped(b, L..b.last, p)
<1>0. th.tid \in Tid
  BY DEF ThreadStates
<1>1. PICK f \in Nat : /\ f >= 1 /\ f <= End(b)
                       /\ DOMAIN b.stores = f..b.last /\ Held(b) = f..End(b)
  BY HeldFacts
<1>2. b.last \in Nat /\ End(b) = b.last + 1 /\ b.pos[th.tid] \in Nat /\ b.pos[th.tid] <= End(b)
      /\ \A q \in Held(b) : q \in Nat /\ q <= End(b)
  BY <1>0, <1>1, BufferParts DEF Sound, End
<1>3. CASE p = End(b)
  BY <1>2, <1>3 DEF Held
<1>4. CASE p # End(b)
  <2> DEFINE s == Scanned(b, th)
             L == Limit(s, th, isSc)
  <2>1. ~AtEnd(b, th.tid) /\ p \in L..b.last /\ (isSc => ~Skipped(b, L..b.last, p))
    BY <1>4 DEF Readable
  <2>2. /\ s \in Buffers(G)
        /\ s.stores = b.stores /\ s.last = b.last /\ s.prev = b.prev /\ s.pos = b.pos
        /\ s.active[th.tid] = NoLoad
        /\ \A u \in Tid \ {th.tid} : s.active[u] = b.active[u]
        /\ s.loads \subseteq b.loads
        /\ \A l \in b.loads : l.at >= 1 /\ l \notin s.loads => l = ActiveLoad(b, th.tid)
    BY ScannedFacts
  <2> HIDE DEF s
  <2>3. Held(s) = Held(b) /\ \A q \in Held(b) : Tag(s, q) = Tag(b, q)
    BY <2>2 DEF Held, Tag, End
  <2>4. Sound(s)
    <3>1. \E g \in Nat : Window(s, g)
      BY <2>2 DEF Sound, Window
    <3>2. Attached(s)
      <4> SUFFICES ASSUME NEW u \in Tid, s.active[u] # NoLoad
                   PROVE  ActiveLoad(s, u) \in s.loads /\ s.pos[u] = s.active[u].at
        BY DEF Attached
      <4>1. u # th.tid /\ s.active[u] = b.active[u]
        BY <2>2
      <4>2. ActiveLoad(b, u) \in b.loads /\ b.pos[u] = b.active[u].at
        BY <4>1 DEF Sound, Attached
      <4>3. ActiveLoad(s, u) = ActiveLoad(b, u) /\ ActiveLoad(b, u) # ActiveLoad(b, th.tid)
        BY <4>1 DEF ActiveLoad
      <4>4. ActiveLoad(b, u).at >= 1
        BY <1>1, <4>2 DEF Sound
      <4> QED
        BY <2>2, <4>1, <4>2, <4>3, <4>4
    <3> QED
      BY <2>2, <2>3, <3>1, <3>2 DEF Sound, End
  <2>5. /\ L \in Held(s) /\ L >= s.pos[th.tid]
        /\ \A q \in Held(s) : Bounds(th, Tag(s, q), isSc) \/ LoadBefore(s, th, q) => q <= L
    BY <2>2, <2>4, LimitFacts
  <2> HIDE DEF L
  <2>6. L \in Held(b) /\ L \in Nat /\ p \in Nat /\ L <= p /\ p <= b.last /\ p \in Held(b)
    BY <1>1, <1>2, <2>1, <2>3, <2>5
  <2>7. p >= b.pos[th.tid]
    BY <1>2, <2>2, <2>5, <2>6
  <2>8. ASSUME NEW q \in Held(b), Bounds(th, Tag(b, q), isSc) \/ LoadBefore(s, th, q)
        PROVE  q <= p
    <3>1. q <= L
      BY <2>3, <2>5, <2>8
    <3>2. q \in Nat
      BY <1>2
    <3> QED
      BY <2>6, <3>1, <3>2
  <2> QED
    BY <1>4, <2>1, <2>6, <2>7, <2>8 DEF s
<1> QED
  BY <1>3, <1>4

\* No load of th reads a store before w, if w is gone, or bounds th, or is not
\* past th's position.
LEMMA ReadsNotBefore ==
  ASSUME NEW G, NEW b \in Buffers(G), Sound(b), NEW th \in ThreadStates(G),
         NEW isSc \in BOOLEAN, NEW p \in Readable(b, th, isSc),
         NEW w \in Nat, w <= End(b),
         w \in Held(b) => Bounds(th, Tag(b, w), isSc) \/ w <= b.pos[th.tid]
  PROVE  p >= w
<1>1. /\ p \in Held(b) /\ p >= b.pos[th.tid]
      /\ \A q \in Held(b) : Bounds(th, Tag(b, q), isSc) => q <= p
  BY ReadableFacts
<1>2. PICK f \in Nat : f >= 1 /\ f <= End(b) /\ Held(b) = f..End(b)
  BY HeldFacts
<1>3. End(b) \in Nat /\ p \in Nat /\ b.pos[th.tid] \in Nat
  BY <1>1, <1>2, BufferParts DEF ThreadStates
<1>4. CASE w \notin Held(b)
  BY <1>1, <1>2, <1>3, <1>4
<1>5. CASE w \in Held(b)
  BY <1>1, <1>3, <1>5
<1> QED
  BY <1>4, <1>5

-----------------------------------------------------------------------------
(* The state. *)

SyncVars(G) == [sync : SyncClocks(G), buf : Buffers(G)]

\* The clocks of threads that exist, of locations and of the mutex are in G. A
\* thread that is not created yet has no clock anyone knows.
ThreadsIn(G) ==
  /\ thr \in [Tid -> ThreadStates(G)]
  /\ \A t \in Tid : thr[t].tid = t /\ (thr[t].status # "invalid" => thr[t].clock \in G)

LocationsIn(G) == loc \in [Loc -> SyncVars(G)] /\ \A x \in Loc : Sound(loc[x].buf)

MutexIn(G) == mutex \in [clk : G, holder : Tid \cup {NoTid}]

ClocksIn(G) ==
  /\ ThreadsIn(G) /\ LocationsIn(G) /\ MutexIn(G)
  /\ ctx \in [sfence : Clock, swrite : Clock]

\* c with t's own entry set to e.
Raised(c, t, e) == [c EXCEPT ![t] = e]

\* A raised clock is a clock, above the old one if t's entry grew.
LEMMA RaisedFacts ==
  ASSUME NEW c \in Clock, NEW t \in Tid, NEW e \in Nat, c[t] <= e
  PROVE  /\ Raised(c, t, e) \in Clock /\ Raised(c, t, e)[t] = e
         /\ \A u \in Tid \ {t} : Raised(c, t, e)[u] = c[u]
         /\ Leq(c, Raised(c, t, e))
<1>1. /\ Raised(c, t, e) \in Clock /\ Raised(c, t, e)[t] = e
      /\ \A u \in Tid \ {t} : Raised(c, t, e)[u] = c[u]
  BY DEF Raised, Clock
<1>2. ASSUME NEW u \in Tid PROVE c[u] <= Raised(c, t, e)[u]
  <2>1. c[u] \in Nat
    BY DEF Clock
  <2> QED
    BY <1>1, <2>1
<1> QED
  BY <1>1, <1>2 DEF Leq

\* Raising an entry gives a clock, even one that goes back.
LEMMA RaisedType ==
  ASSUME NEW c \in Clock, NEW t \in Tid, NEW e \in Nat
  PROVE  Raised(c, t, e) \in Clock
BY DEF Raised, Clock

\* The parts of a ThreadState.
LEMMA ThreadParts ==
  ASSUME NEW G, NEW th \in ThreadStates(G)
  PROVE  /\ th = [tid |-> th.tid, status |-> th.status, epoch |-> th.epoch,
                  clock |-> th.clock, lastRelease |-> th.lastRelease, frel |-> th.frel,
                  facq |-> th.facq, slimit |-> th.slimit, swrite |-> th.swrite,
                  sread |-> th.sread]
         /\ th.tid \in Tid /\ th.status \in Statuses /\ th.epoch \in Nat /\ th.clock \in Clock
         /\ th.lastRelease \in Nat /\ th.frel \in G /\ th.facq \in G
         /\ th.slimit \in Clock /\ th.swrite \in Clock /\ th.sread \in Clock
BY DEF ThreadStates

\* IncrementEpoch, and what the SC side of a load does.
LEMMA TickedFacts ==
  ASSUME NEW G, NEW th \in ThreadStates(G)
  PROVE  Ticked(th) = [tid |-> th.tid, status |-> th.status, epoch |-> th.epoch + 1,
                       clock |-> th.clock, lastRelease |-> th.lastRelease, frel |-> th.frel,
                       facq |-> th.facq, slimit |-> th.slimit, swrite |-> th.swrite,
                       sread |-> th.sread]
         /\ Ticked(th) \in ThreadStates(G)
<1>1. th.epoch + 1 \in Nat
  BY ThreadParts
<1> QED
  BY <1>1 DEF ThreadStates, Ticked

\* thr->clock.set(thr->fast_state.epoch()): the clock knows the epoch.
LEMMA StampedFacts ==
  ASSUME NEW G, NEW th \in ThreadStates(G)
  PROVE  Stamped(th) = [tid |-> th.tid, status |-> th.status, epoch |-> th.epoch,
                        clock |-> Raised(th.clock, th.tid, th.epoch),
                        lastRelease |-> th.lastRelease, frel |-> th.frel,
                        facq |-> th.facq, slimit |-> th.slimit, swrite |-> th.swrite,
                        sread |-> th.sread]
         /\ Stamped(th) \in ThreadStates(G)
<1>1. Raised(th.clock, th.tid, th.epoch) \in Clock
  BY ThreadParts, RaisedType
<1>2. Stamped(th) = [th EXCEPT !.clock = Raised(th.clock, th.tid, th.epoch)]
  BY DEF Stamped, Raised
<1> QED
  BY <1>1, <1>2 DEF ThreadStates

\* AcquireImpl, NonAcquireLoadImpl, and the SC side of a load.
LEMMA AcquireFacts ==
  ASSUME NEW G, Lattice(G), NEW th \in ThreadStates(G), NEW c \in Clock
  PROVE  /\ Acquire(th, c)
              = [tid |-> th.tid, status |-> th.status, epoch |-> th.epoch,
                 clock |-> Join(Raised(th.clock, th.tid, th.epoch), c),
                 lastRelease |-> th.lastRelease, frel |-> th.frel, facq |-> th.facq,
                 slimit |-> th.slimit, swrite |-> th.swrite, sread |-> th.sread]
         /\ Acquire(th, c) \in ThreadStates(G)
<1> DEFINE s == Stamped(th)
           j == Join(Raised(th.clock, th.tid, th.epoch), c)
<1>1. /\ s \in ThreadStates(G)
      /\ s = [tid |-> th.tid, status |-> th.status, epoch |-> th.epoch,
              clock |-> Raised(th.clock, th.tid, th.epoch),
              lastRelease |-> th.lastRelease, frel |-> th.frel, facq |-> th.facq,
              slimit |-> th.slimit, swrite |-> th.swrite, sread |-> th.sread]
  BY StampedFacts
<1>2. j \in Clock
  BY ThreadParts, RaisedType, ClockFacts
<1>3. Acquire(th, c) = [s EXCEPT !.clock = j]
  BY <1>1 DEF Acquire
<1> HIDE DEF j, s
<1>4. Acquire(th, c) \in ThreadStates(G)
  BY <1>1, <1>2, <1>3 DEF ThreadStates
<1>5. Acquire(th, c) = [tid |-> th.tid, status |-> th.status, epoch |-> th.epoch,
                        clock |-> j, lastRelease |-> th.lastRelease,
                        frel |-> th.frel, facq |-> th.facq, slimit |-> th.slimit,
                        swrite |-> th.swrite, sread |-> th.sread]
  BY <1>1, <1>3
<1> QED
  BY <1>4, <1>5 DEF j

\* NonAcquireLoadImpl: what is read waits in facq for a fence.
LEMMA NonAcquireLoadFacts ==
  ASSUME NEW G, Lattice(G), NEW th \in ThreadStates(G), NEW c \in G
  PROVE  /\ NonAcquireLoad(th, c)
              = [tid |-> th.tid, status |-> th.status, epoch |-> th.epoch,
                 clock |-> Raised(th.clock, th.tid, th.epoch),
                 lastRelease |-> th.lastRelease, frel |-> th.frel,
                 facq |-> Join(th.facq, c), slimit |-> th.slimit,
                 swrite |-> th.swrite, sread |-> th.sread]
         /\ NonAcquireLoad(th, c) \in ThreadStates(G)
<1> DEFINE s == Stamped(th)
           j == Join(th.facq, c)
<1>1. /\ s \in ThreadStates(G)
      /\ s = [tid |-> th.tid, status |-> th.status, epoch |-> th.epoch,
              clock |-> Raised(th.clock, th.tid, th.epoch),
              lastRelease |-> th.lastRelease, frel |-> th.frel, facq |-> th.facq,
              slimit |-> th.slimit, swrite |-> th.swrite, sread |-> th.sread]
  BY StampedFacts
<1>2. j \in G
  BY ThreadParts DEF Lattice
<1>3. NonAcquireLoad(th, c) = [s EXCEPT !.facq = j]
  BY <1>1 DEF NonAcquireLoad
<1> HIDE DEF j, s
<1>4. NonAcquireLoad(th, c) \in ThreadStates(G)
  BY <1>1, <1>2, <1>3 DEF ThreadStates
<1>5. NonAcquireLoad(th, c)
        = [tid |-> th.tid, status |-> th.status, epoch |-> th.epoch,
           clock |-> Raised(th.clock, th.tid, th.epoch),
           lastRelease |-> th.lastRelease, frel |-> th.frel, facq |-> j,
           slimit |-> th.slimit, swrite |-> th.swrite, sread |-> th.sread]
  BY <1>1, <1>3
<1> QED
  BY <1>4, <1>5 DEF j

\* SCRead: Sread learns the SC fences so far.
LEMMA ScReadsFacts ==
  ASSUME NEW G, NEW th \in ThreadStates(G), ctx.sfence \in Clock, NEW mo
  PROVE  /\ ScReads(th, mo)
              = [tid |-> th.tid, status |-> th.status, epoch |-> th.epoch,
                 clock |-> th.clock, lastRelease |-> th.lastRelease,
                 frel |-> th.frel, facq |-> th.facq, slimit |-> th.slimit,
                 swrite |-> th.swrite,
                 sread |-> IF mo = "seq_cst" THEN Join(th.sread, ctx.sfence) ELSE th.sread]
         /\ ScReads(th, mo) \in ThreadStates(G)
<1>1. Join(th.sread, ctx.sfence) \in Clock
  BY ThreadParts, ClockFacts
<1>2. CASE mo = "seq_cst"
  BY <1>1, <1>2 DEF ScReads, SCRead, ThreadStates
<1>3. CASE mo # "seq_cst"
  BY <1>3, ThreadParts DEF ScReads
<1> QED
  BY <1>2, <1>3

\* An operation with a release order sets last_release.
LEMMA ReleasedFacts ==
  ASSUME NEW G, NEW th \in ThreadStates(G), NEW mo
  PROVE  /\ Released(th, mo)
              = [tid |-> th.tid, status |-> th.status, epoch |-> th.epoch,
                 clock |-> th.clock,
                 lastRelease |-> IF IsReleaseOrder(mo) THEN th.epoch ELSE th.lastRelease,
                 frel |-> th.frel, facq |-> th.facq, slimit |-> th.slimit,
                 swrite |-> th.swrite, sread |-> th.sread]
         /\ Released(th, mo) \in ThreadStates(G)
<1>1. CASE IsReleaseOrder(mo)
  BY <1>1 DEF Released, ThreadStates
<1>2. CASE ~IsReleaseOrder(mo)
  BY <1>2, ThreadParts DEF Released
<1> QED
  BY <1>1, <1>2

\* SCFence acquires what SC fences and SC stores left in the context.
LEMMA ScFenceFacts ==
  ASSUME NEW G, NEW th \in ThreadStates(G), ctx.swrite \in Clock, NEW f \in Clock
  PROVE  /\ SCFence(th, f)
              = [tid |-> th.tid, status |-> th.status, epoch |-> th.epoch,
                 clock |-> th.clock, lastRelease |-> th.lastRelease,
                 frel |-> th.frel, facq |-> th.facq, slimit |-> Join(th.slimit, f),
                 swrite |-> Join(th.swrite, ctx.swrite), sread |-> th.sread]
         /\ SCFence(th, f) \in ThreadStates(G)
<1> DEFINE j == Join(th.slimit, f)
           k == Join(th.swrite, ctx.swrite)
<1>1. j \in Clock /\ k \in Clock
  BY ThreadParts, ClockFacts
<1>2. SCFence(th, f) = [[th EXCEPT !.slimit = j] EXCEPT !.swrite = k]
  BY ThreadParts DEF SCFence
<1> HIDE DEF j, k
<1>3. [[th EXCEPT !.slimit = j] EXCEPT !.swrite = k]
       = [tid |-> th.tid, status |-> th.status, epoch |-> th.epoch,
          clock |-> th.clock, lastRelease |-> th.lastRelease,
          frel |-> th.frel, facq |-> th.facq, slimit |-> j,
          swrite |-> k, sread |-> th.sread]
  <2>1. PICK m : m = [th EXCEPT !.slimit = j]
    OBVIOUS
  <2>2. m = [tid |-> th.tid, status |-> th.status, epoch |-> th.epoch,
             clock |-> th.clock, lastRelease |-> th.lastRelease,
             frel |-> th.frel, facq |-> th.facq, slimit |-> j,
             swrite |-> th.swrite, sread |-> th.sread]
    BY <2>1 DEF ThreadStates
  <2>3. [m EXCEPT !.swrite = k]
          = [tid |-> th.tid, status |-> th.status, epoch |-> th.epoch,
             clock |-> th.clock, lastRelease |-> th.lastRelease,
             frel |-> th.frel, facq |-> th.facq, slimit |-> j,
             swrite |-> k, sread |-> th.sread]
    BY <2>2
  <2> QED
    BY <2>1, <2>3
<1>4. [tid |-> th.tid, status |-> th.status, epoch |-> th.epoch,
        clock |-> th.clock, lastRelease |-> th.lastRelease,
        frel |-> th.frel, facq |-> th.facq, slimit |-> j,
        swrite |-> k, sread |-> th.sread] \in ThreadStates(G)
  BY <1>1, ThreadParts DEF ThreadStates
<1> QED
  BY <1>2, <1>3, <1>4 DEF j, k

-----------------------------------------------------------------------------
(* The steps. *)

\* A step that gives thread t the state th.
LEMMA ThreadSet ==
  ASSUME NEW G, ThreadsIn(G), NEW t \in Tid, NEW th \in ThreadStates(G), th.tid = t,
         th.clock \in G, thr' = [thr EXCEPT ![t] = th]
  PROVE  ThreadsIn(G)' /\ thr'[t] = th /\ \A u \in Tid \ {t} : thr'[u] = thr[u]
BY DEF ThreadsIn

\* A step that gives location x the SyncVar v.
LEMMA LocationSet ==
  ASSUME NEW G, LocationsIn(G), NEW x \in Loc, NEW v \in SyncVars(G), Sound(v.buf),
         loc' = [loc EXCEPT ![x] = v]
  PROVE  LocationsIn(G)' /\ loc'[x] = v /\ \A z \in Loc \ {x} : loc'[z] = loc[z]
<1>1. loc' \in [Loc -> SyncVars(G)] /\ loc'[x] = v /\ \A z \in Loc \ {x} : loc'[z] = loc[z]
  BY DEF LocationsIn
<1>2. ASSUME NEW z \in Loc PROVE Sound(loc'[z].buf)
  BY <1>1 DEF LocationsIn
<1> QED
  BY <1>1, <1>2 DEF LocationsIn

\* A step that gives location x the buffer r.
LEMMA BufferSet ==
  ASSUME NEW G, LocationsIn(G), NEW x \in Loc, NEW r \in Buffers(G), Sound(r),
         loc' = [loc EXCEPT ![x].buf = r]
  PROVE  /\ LocationsIn(G)'
         /\ loc'[x] = [sync |-> loc[x].sync, buf |-> r]
         /\ \A z \in Loc \ {x} : loc'[z] = loc[z]
<1> DEFINE v == [sync |-> loc[x].sync, buf |-> r]
<1>1. loc[x] \in SyncVars(G)
  BY DEF LocationsIn
<1>2. v \in SyncVars(G) /\ v.buf = r /\ [loc[x] EXCEPT !.buf = r] = v
  BY <1>1 DEF SyncVars
<1>3. loc' = [loc EXCEPT ![x] = v]
  BY <1>2 DEF LocationsIn
<1> HIDE DEF v
<1>4. LocationsIn(G)' /\ loc'[x] = v /\ \A z \in Loc \ {x} : loc'[z] = loc[z]
  BY <1>2, <1>3, LocationSet
<1> QED
  BY <1>4 DEF v

\* What a step makes of thread t but for its clocks: its epoch, the epoch of its last
\* release, and what SC fences and SC stores order its accesses after.
ThreadIs(t, st, e, lr, sl, sw, sr) ==
  /\ thr'[t].tid = t /\ thr'[t].status = st /\ thr'[t].epoch = e
  /\ thr'[t].lastRelease = lr
  /\ thr'[t].slimit = sl /\ thr'[t].swrite = sw /\ thr'[t].sread = sr

\* The same, where no other thread changes.
NewThread(t, st, e, lr, sl, sw, sr) ==
  /\ ThreadIs(t, st, e, lr, sl, sw, sr)
  /\ \A u \in Tid \ {t} : thr'[u] = thr[u]

\* t stamps its clock with e and acquires a clock of G.
Acquires(G, t, e) ==
  \E d \in G : thr'[t].clock = Join(Raised(thr[t].clock, t, e), d)

\* Only location x changes.
NewLocation(x, sync, buf) ==
  /\ loc'[x] = [sync |-> sync, buf |-> buf]
  /\ \A z \in Loc \ {x} : loc'[z] = loc[z]

\* A running thread and a location of a state whose clocks are in G.
LEMMA StateParts ==
  ASSUME NEW G, Lattice(G), ClocksIn(G), NEW t \in Running, NEW x \in Loc
  PROVE  /\ t \in Tid /\ thr[t] \in ThreadStates(G) /\ thr[t].tid = t
         /\ thr[t].status = "running" /\ thr[t].clock \in G
         /\ loc[x].sync \in SyncClocks(G) /\ loc[x].sync.clk \in G
         /\ loc[x].buf \in Buffers(G) /\ Sound(loc[x].buf)
         /\ ctx.sfence \in Clock /\ ctx.swrite \in Clock
         /\ ThreadsIn(G) /\ LocationsIn(G) /\ MutexIn(G)
<1>1. t \in Tid /\ thr[t] \in ThreadStates(G) /\ thr[t].tid = t
        /\ thr[t].status = "running" /\ thr[t].clock \in G
  BY DEF Running, ClocksIn, ThreadsIn
<1>2. loc[x] \in SyncVars(G) /\ Sound(loc[x].buf)
  BY DEF ClocksIn, LocationsIn
<1>3. loc[x].sync \in SyncClocks(G) /\ loc[x].buf \in Buffers(G)
  BY <1>2 DEF SyncVars
<1>4. loc[x].sync.clk \in G
  BY <1>3, SyncClocksParts
<1> QED
  BY <1>1, <1>2, <1>3, <1>4 DEF ClocksIn

\* The clock that comes with a position that is held.
LEMMA ClockAtIn ==
  ASSUME NEW G, Lattice(G), ClocksIn(G), NEW t \in Running, NEW x \in Loc,
         NEW p \in Held(loc[x].buf)
  PROVE  ClockAt(x, p) \in G
<1>1. CASE p = End(loc[x].buf)
  BY <1>1, StateParts DEF ClockAt
<1>2. CASE p # End(loc[x].buf)
  <2>1. loc[x].buf.stores[p] \in StoreElems(G)
    BY <1>2, StateParts, BufferParts DEF Held
  <2> QED
    BY <1>2, <2>1 DEF ClockAt, StoreElems
<1> QED
  BY <1>1, <1>2

\* AtomicLoad.
LEMMA LoadStep ==
  ASSUME NEW G, Lattice(G), ClocksIn(G), NEW t \in Running, NEW x \in Loc, NEW mo, NEW p,
         LoadAt(t, x, mo, p)
  PROVE  /\ NewThread(t, "running", thr[t].epoch, thr[t].lastRelease, thr[t].slimit,
                      thr[t].swrite, ScReads(thr[t], mo).sread)
         /\ Acquires(G, t, thr[t].epoch)
         /\ NewLocation(x, loc[x].sync, FetchStore(loc[x].buf, ScReads(thr[t], mo), p))
         /\ p \in Held(loc[x].buf)
         /\ thr'[t].clock \in G => ClocksIn(G)'
<1> DEFINE th == ScReads(thr[t], mo)
           c == ClockAt(x, p)
           done == IF IsAcquireOrder(mo) THEN Acquire(th, c) ELSE NonAcquireLoad(th, c)
           b == loc[x].buf
           r == FetchStore(b, th, p)
<1>1. /\ p \in Readable(b, th, mo = "seq_cst")
      /\ thr' = [thr EXCEPT ![t] = done] /\ loc' = [loc EXCEPT ![x].buf = FetchStore(@, th, p)]
      /\ ctx' = ctx /\ mutex' = mutex
  BY DEF LoadAt, NextReads
<1>2. /\ t \in Tid /\ thr[t] \in ThreadStates(G) /\ thr[t].tid = t
      /\ thr[t].status = "running" /\ thr[t].clock \in G
      /\ b \in Buffers(G) /\ Sound(b) /\ ctx.sfence \in Clock
      /\ ThreadsIn(G) /\ LocationsIn(G) /\ MutexIn(G)
  BY StateParts
<1>3. /\ th \in ThreadStates(G) /\ th.tid = t /\ th.status = "running"
      /\ th.epoch = thr[t].epoch /\ th.clock = thr[t].clock
      /\ th.lastRelease = thr[t].lastRelease /\ th.slimit = thr[t].slimit
      /\ th.swrite = thr[t].swrite
  BY <1>2, ScReadsFacts
<1>4. p \in Held(b)
  <2> HIDE DEF b, th
  <2> QED
    BY <1>1, <1>2, <1>3, ReadableFacts
<1>5. c \in G /\ c \in Clock
  BY <1>4, ClockAtIn DEF Lattice
<1>6. r \in Buffers(G) /\ Sound(r)
  <2> HIDE DEF b, th
  <2> QED
    BY <1>2, <1>3, <1>4, FetchStoreFacts
<1>7. loc' = [loc EXCEPT ![x].buf = r]
  BY <1>1
<1> HIDE DEF th, c, b, r
<1>8. /\ done \in ThreadStates(G) /\ done.tid = t /\ done.status = "running"
      /\ done.epoch = thr[t].epoch /\ done.lastRelease = thr[t].lastRelease
      /\ done.slimit = thr[t].slimit /\ done.swrite = thr[t].swrite /\ done.sread = th.sread
      /\ \E d \in G : done.clock = Join(Raised(thr[t].clock, t, thr[t].epoch), d)
  <2>1. CASE IsAcquireOrder(mo)
    <3>1. done = Acquire(th, c)
      BY <2>1
    <3> HIDE DEF done
    <3> QED
      BY <3>1, <1>3, <1>5, AcquireFacts
  <2>2. CASE ~IsAcquireOrder(mo)
    <3>1. done = NonAcquireLoad(th, c)
      BY <2>2
    <3> HIDE DEF done
    <3>2. done.clock = Raised(thr[t].clock, t, thr[t].epoch)
      BY <3>1, <1>3, <1>5, NonAcquireLoadFacts
    <3>3. Raised(thr[t].clock, t, thr[t].epoch) \in Clock
      BY <1>2, ThreadParts, RaisedType
    <3>4. Zero \in G /\ done.clock = Join(Raised(thr[t].clock, t, thr[t].epoch), Zero)
      BY <3>2, <3>3, ZeroFacts DEF Lattice
    <3> QED
      BY <3>1, <3>4, <1>3, <1>5, NonAcquireLoadFacts
  <2> QED
    BY <2>1, <2>2
<1> HIDE DEF done
<1>9. thr'[t] = done /\ \A u \in Tid \ {t} : thr'[u] = thr[u]
  BY <1>1, <1>2 DEF ThreadsIn
<1>10. LocationsIn(G)' /\ NewLocation(x, loc[x].sync, r)
  BY <1>2, <1>6, <1>7, BufferSet DEF NewLocation
<1>11. ASSUME thr'[t].clock \in G PROVE ClocksIn(G)'
  <2>1. ThreadsIn(G)'
    BY <1>1, <1>2, <1>8, <1>9, <1>11, ThreadSet
  <2> QED
    BY <2>1, <1>1, <1>10 DEF ClocksIn, MutexIn
<1> QED
  BY <1>4, <1>8, <1>9, <1>10, <1>11 DEF NewThread, ThreadIs, Acquires, th, r, b

\* A thread at its next epoch, its clock stamped with it.
LEMMA NextEpochFacts ==
  ASSUME NEW G, NEW T \in ThreadStates(G), NEW th, th = Stamped(Ticked(T))
  PROVE  /\ th \in ThreadStates(G) /\ th.tid = T.tid /\ th.status = T.status
         /\ th.epoch = T.epoch + 1 /\ th.clock = Raised(T.clock, T.tid, T.epoch + 1)
         /\ th.lastRelease = T.lastRelease /\ th.frel = T.frel /\ th.facq = T.facq
         /\ th.slimit = T.slimit /\ th.swrite = T.swrite /\ th.sread = T.sread
<1> DEFINE k == Ticked(T)
<1>1. /\ k \in ThreadStates(G) /\ k.tid = T.tid /\ k.status = T.status
      /\ k.epoch = T.epoch + 1 /\ k.clock = T.clock
      /\ k.lastRelease = T.lastRelease /\ k.frel = T.frel /\ k.facq = T.facq
      /\ k.slimit = T.slimit /\ k.swrite = T.swrite /\ k.sread = T.sread
  BY TickedFacts
<1>2. th = Stamped(k)
  OBVIOUS
<1> HIDE DEF k
<1>3. /\ th = [tid |-> k.tid, status |-> k.status, epoch |-> k.epoch,
               clock |-> Raised(k.clock, k.tid, k.epoch),
               lastRelease |-> k.lastRelease, frel |-> k.frel,
               facq |-> k.facq, slimit |-> k.slimit, swrite |-> k.swrite,
               sread |-> k.sread]
      /\ th \in ThreadStates(G)
  BY <1>1, <1>2, StampedFacts
<1> QED
  BY <1>1, <1>3

\* What SCWrite leaves in the context.
LEMMA ScWrittenFacts ==
  ASSUME NEW G, NEW th \in ThreadStates(G), ctx \in [sfence : Clock, swrite : Clock], NEW mo
  PROVE  /\ ScWritten(th, mo) \in [sfence : Clock, swrite : Clock]
         /\ ScWritten(th, mo).sfence = ctx.sfence
         /\ ScWritten(th, mo).swrite = IF mo = "seq_cst" THEN Raised(ctx.swrite, th.tid, th.epoch)
                                                         ELSE ctx.swrite
<1> DEFINE k == Raised(ctx.swrite, th.tid, th.epoch)
<1>1. k \in Clock
  BY ThreadParts, RaisedType
<1>2. [ctx EXCEPT !.swrite[th.tid] = th.epoch] = [ctx EXCEPT !.swrite = k]
  BY DEF Raised
<1> HIDE DEF k
<1>3. CASE mo = "seq_cst"
  <2>1. [ctx EXCEPT !.swrite = k] = [sfence |-> ctx.sfence, swrite |-> k]
    OBVIOUS
  <2> QED
    BY <1>1, <1>2, <1>3, <2>1 DEF ScWritten, k
<1>4. CASE mo # "seq_cst"
  BY <1>4 DEF ScWritten
<1> QED
  BY <1>3, <1>4

\* AtomicStore.
LEMMA StoreStep ==
  ASSUME NEW G, Lattice(G), ClocksIn(G), NEW t \in Running, NEW x \in Loc, NEW mo,
         Store(t, x, mo), NEW th, th = Stamped(Ticked(thr[t]))
  PROVE  /\ NewThread(t, "running", thr[t].epoch + 1,
                      IF IsReleaseOrder(mo) THEN thr[t].epoch + 1 ELSE thr[t].lastRelease,
                      thr[t].slimit, thr[t].swrite, thr[t].sread)
         /\ Acquires(G, t, thr[t].epoch + 1)
         /\ thr'[t].clock = th.clock
         /\ \E sync : NewLocation(x, sync, Buffered(x, th, mo))
         /\ ctx'.sfence = ctx.sfence
         /\ ctx'.swrite = IF mo = "seq_cst" THEN Raised(ctx.swrite, t, thr[t].epoch + 1)
                                            ELSE ctx.swrite
         /\ thr'[t].clock \in G => ClocksIn(G)'
<1> DEFINE done == Released(th, mo)
           b == loc[x].buf
           r == Buffered(x, th, mo)
           s == IF IsReleaseOrder(mo)
                THEN ReleaseStore(t, th.clock)
                ELSE NonReleaseStore2(NonReleaseStore(loc[x].sync, t), t, th.frel)
           v == [sync |-> s, buf |-> r]
<1>1. /\ thr' = [thr EXCEPT ![t] = done] /\ loc' = [loc EXCEPT ![x] = v]
      /\ ctx' = ScWritten(th, mo) /\ mutex' = mutex
  BY DEF Store
<1>2. /\ t \in Tid /\ thr[t] \in ThreadStates(G) /\ thr[t].tid = t
      /\ thr[t].status = "running" /\ thr[t].clock \in G
      /\ b \in Buffers(G) /\ Sound(b)
      /\ loc[x].sync \in SyncClocks(G) /\ loc[x].sync.clk \in G
      /\ ThreadsIn(G) /\ LocationsIn(G) /\ MutexIn(G)
  BY StateParts
<1>3. /\ th \in ThreadStates(G) /\ th.tid = t /\ th.status = "running"
      /\ th.epoch = thr[t].epoch + 1 /\ th.clock = Raised(thr[t].clock, t, thr[t].epoch + 1)
      /\ th.lastRelease = thr[t].lastRelease /\ th.frel \in G
      /\ th.slimit = thr[t].slimit /\ th.swrite = thr[t].swrite /\ th.sread = thr[t].sread
  BY <1>2, NextEpochFacts, ThreadParts
<1>4. r \in Buffers(G) /\ Sound(r)
  <2> DEFINE isSc == mo = "seq_cst"
  <2>1. r = BufferStore(b, th, loc[x].sync.clk, isSc) /\ isSc \in BOOLEAN
    BY DEF Buffered
  <2> HIDE DEF b, r, isSc
  <2> QED
    BY <1>2, <1>3, <2>1, BufferStoreSound
<1>5. ctx \in [sfence : Clock, swrite : Clock]
  BY DEF ClocksIn
<1>6. /\ ctx' \in [sfence : Clock, swrite : Clock] /\ ctx'.sfence = ctx.sfence
      /\ ctx'.swrite = IF mo = "seq_cst" THEN Raised(ctx.swrite, t, thr[t].epoch + 1)
                                         ELSE ctx.swrite
  BY <1>1, <1>3, <1>5, ScWrittenFacts
<1>7. /\ done \in ThreadStates(G) /\ done.tid = t /\ done.status = "running"
      /\ done.epoch = thr[t].epoch + 1 /\ done.clock = th.clock
      /\ done.lastRelease = IF IsReleaseOrder(mo) THEN thr[t].epoch + 1 ELSE thr[t].lastRelease
      /\ done.slimit = thr[t].slimit /\ done.swrite = thr[t].swrite
      /\ done.sread = thr[t].sread
  BY <1>3, ReleasedFacts
<1>8. \E d \in G : done.clock = Join(Raised(thr[t].clock, t, thr[t].epoch + 1), d)
  <2>1. Raised(thr[t].clock, t, thr[t].epoch + 1) \in Clock
    BY <1>2, ThreadParts, RaisedType
  <2> QED
    BY <1>3, <1>7, <2>1, ZeroFacts DEF Lattice
<1>9. v.sync = s /\ v.buf = r
  OBVIOUS
<1> HIDE DEF done, b, r, s, v
<1>10. thr'[t] = done /\ \A u \in Tid \ {t} : thr'[u] = thr[u]
  BY <1>1, <1>2 DEF ThreadsIn
<1>11. loc'[x] = v /\ \A z \in Loc \ {x} : loc'[z] = loc[z]
  BY <1>1, <1>2 DEF LocationsIn
<1>12. ASSUME thr'[t].clock \in G PROVE ClocksIn(G)'
  <2>1. ThreadsIn(G)'
    BY <1>1, <1>2, <1>7, <1>10, <1>12, ThreadSet
  <2>2. s \in SyncClocks(G)
    <3>1. th.clock \in G
      BY <1>7, <1>10, <1>12
    <3> QED
      BY <3>1, <1>2, <1>3, ReleaseStoreIn, PlainStoreIn DEF s
  <2>3. v \in SyncVars(G) /\ Sound(v.buf)
    BY <1>4, <2>2 DEF SyncVars, v
  <2>4. LocationsIn(G)'
    BY <1>1, <1>2, <2>3, LocationSet
  <2> QED
    BY <2>1, <2>4, <1>1, <1>2, <1>6 DEF ClocksIn, MutexIn
<1>13. NewThread(t, "running", thr[t].epoch + 1,
                 IF IsReleaseOrder(mo) THEN thr[t].epoch + 1 ELSE thr[t].lastRelease,
                 thr[t].slimit, thr[t].swrite, thr[t].sread)
  BY <1>7, <1>10 DEF NewThread, ThreadIs
<1>14. NewLocation(x, s, r)
  BY <1>11 DEF NewLocation, v
<1> QED
  BY <1>6, <1>7, <1>8, <1>10, <1>12, <1>13, <1>14 DEF Acquires, r

\* What an atomic access that reads does to the clocks of its thread.
LEMMA ReadFacts ==
  ASSUME NEW G, Lattice(G), NEW th \in ThreadStates(G), NEW c \in G, NEW mo, NEW done,
         done = IF IsAcquireOrder(mo) THEN Acquire(th, c) ELSE NonAcquireLoad(th, c)
  PROVE  /\ done \in ThreadStates(G) /\ done.tid = th.tid /\ done.status = th.status
         /\ done.epoch = th.epoch /\ done.lastRelease = th.lastRelease /\ done.frel = th.frel
         /\ done.slimit = th.slimit /\ done.swrite = th.swrite /\ done.sread = th.sread
         /\ \E d \in G : done.clock = Join(Raised(th.clock, th.tid, th.epoch), d)
<1>1. c \in Clock
  BY DEF Lattice
<1>2. CASE IsAcquireOrder(mo)
  BY <1>1, <1>2, AcquireFacts
<1>3. CASE ~IsAcquireOrder(mo)
  <2>1. done = NonAcquireLoad(th, c)
    BY <1>3
  <2>2. done.clock = Raised(th.clock, th.tid, th.epoch)
    BY <2>1, NonAcquireLoadFacts
  <2>3. Raised(th.clock, th.tid, th.epoch) \in Clock
    BY ThreadParts, RaisedType
  <2>4. Zero \in G /\ done.clock = Join(Raised(th.clock, th.tid, th.epoch), Zero)
    BY <2>2, <2>3, ZeroFacts DEF Lattice
  <2> QED
    BY <2>1, <2>4, NonAcquireLoadFacts
<1> QED
  BY <1>2, <1>3

\* A stamp repeated.
LEMMA RaisedTwice ==
  ASSUME NEW c \in Clock, NEW t \in Tid, NEW e \in Nat
  PROVE  Raised(Raised(c, t, e), t, e) = Raised(c, t, e)
BY DEF Raised, Clock

\* AtomicRMW.
LEMMA RmwStep ==
  ASSUME NEW G, Lattice(G), ClocksIn(G), NEW t \in Running, NEW x \in Loc, NEW mo,
         NEW keep \in BOOLEAN, Rmw(t, x, mo, keep),
         NEW th, th = ScReads(Stamped(Ticked(thr[t])), mo)
  PROVE  /\ NewThread(t, "running", thr[t].epoch + 1,
                      IF IsReleaseOrder(mo) THEN thr[t].epoch + 1 ELSE thr[t].lastRelease,
                      thr[t].slimit, thr[t].swrite, ScReads(thr[t], mo).sread)
         /\ Acquires(G, t, thr[t].epoch + 1)
         /\ \E sync : NewLocation(x, sync, Buffered(x, th, mo))
         /\ ctx'.sfence = ctx.sfence
         /\ ctx'.swrite = IF mo = "seq_cst" THEN Raised(ctx.swrite, t, thr[t].epoch + 1)
                                            ELSE ctx.swrite
         /\ thr'[t].clock \in G => ClocksIn(G)'
<1> DEFINE st == Stamped(Ticked(thr[t]))
           sync == loc[x].sync
           rd == IF IsAcquireOrder(mo) THEN Acquire(th, sync.clk) ELSE NonAcquireLoad(th, sync.clk)
           done == Released(rd, mo)
           b == loc[x].buf
           r == Buffered(x, th, mo)
           s == RmwSync(sync, t, rd.clock, th.frel, IsReleaseOrder(mo), keep)
           v == [sync |-> s, buf |-> r]
<1>1. /\ thr' = [thr EXCEPT ![t] = done] /\ loc' = [loc EXCEPT ![x] = v]
      /\ ctx' = ScWritten(th, mo) /\ mutex' = mutex
  BY DEF Rmw
<1>2. /\ t \in Tid /\ thr[t] \in ThreadStates(G) /\ thr[t].tid = t
      /\ thr[t].status = "running" /\ thr[t].clock \in G
      /\ b \in Buffers(G) /\ Sound(b) /\ ctx.sfence \in Clock
      /\ sync \in SyncClocks(G) /\ sync.clk \in G
      /\ ThreadsIn(G) /\ LocationsIn(G) /\ MutexIn(G)
  BY StateParts
<1>3. /\ st \in ThreadStates(G) /\ st.tid = t /\ st.status = "running"
      /\ st.epoch = thr[t].epoch + 1 /\ st.clock = Raised(thr[t].clock, t, thr[t].epoch + 1)
      /\ st.lastRelease = thr[t].lastRelease /\ st.frel \in G
      /\ st.slimit = thr[t].slimit /\ st.swrite = thr[t].swrite /\ st.sread = thr[t].sread
  BY <1>2, NextEpochFacts, ThreadParts
<1>4. th = ScReads(st, mo)
  OBVIOUS
<1> HIDE DEF st
<1>5. /\ th \in ThreadStates(G) /\ th.tid = t /\ th.status = "running"
      /\ th.epoch = thr[t].epoch + 1 /\ th.clock = Raised(thr[t].clock, t, thr[t].epoch + 1)
      /\ th.lastRelease = thr[t].lastRelease /\ th.frel \in G
      /\ th.slimit = thr[t].slimit /\ th.swrite = thr[t].swrite
      /\ th.sread = IF mo = "seq_cst" THEN Join(thr[t].sread, ctx.sfence) ELSE thr[t].sread
  BY <1>2, <1>3, <1>4, ScReadsFacts
<1>6. th.sread = ScReads(thr[t], mo).sread
  BY <1>2, <1>5, ScReadsFacts
<1>7. r \in Buffers(G) /\ Sound(r)
  <2> DEFINE isSc == mo = "seq_cst"
  <2>1. r = BufferStore(b, th, loc[x].sync.clk, isSc) /\ isSc \in BOOLEAN
    BY DEF Buffered
  <2> HIDE DEF b, r, isSc
  <2> QED
    BY <1>2, <1>5, <2>1, BufferStoreSound
<1>8. ctx \in [sfence : Clock, swrite : Clock]
  BY DEF ClocksIn
<1>9. /\ ctx' \in [sfence : Clock, swrite : Clock] /\ ctx'.sfence = ctx.sfence
      /\ ctx'.swrite = IF mo = "seq_cst" THEN Raised(ctx.swrite, t, thr[t].epoch + 1)
                                         ELSE ctx.swrite
  BY <1>1, <1>5, <1>8, ScWrittenFacts
<1>10. Raised(Raised(thr[t].clock, t, thr[t].epoch + 1), t, thr[t].epoch + 1)
         = Raised(thr[t].clock, t, thr[t].epoch + 1)
  BY <1>2, ThreadParts, RaisedTwice
<1>11. /\ rd \in ThreadStates(G) /\ rd.tid = t /\ rd.status = "running"
       /\ rd.epoch = th.epoch /\ rd.lastRelease = thr[t].lastRelease
       /\ rd.slimit = thr[t].slimit /\ rd.swrite = thr[t].swrite /\ rd.sread = th.sread
       /\ \E d \in G : rd.clock = Join(Raised(thr[t].clock, t, thr[t].epoch + 1), d)
  <2> DEFINE c == sync.clk
  <2>1. c \in G /\ rd = IF IsAcquireOrder(mo) THEN Acquire(th, c) ELSE NonAcquireLoad(th, c)
    BY <1>2
  <2> HIDE DEF rd, c
  <2>2. /\ rd \in ThreadStates(G) /\ rd.tid = th.tid /\ rd.status = th.status
        /\ rd.epoch = th.epoch /\ rd.lastRelease = th.lastRelease /\ rd.frel = th.frel
        /\ rd.slimit = th.slimit /\ rd.swrite = th.swrite /\ rd.sread = th.sread
        /\ \E d \in G : rd.clock = Join(Raised(th.clock, th.tid, th.epoch), d)
    <3>1. th \in ThreadStates(G)
      BY <1>5
    <3> QED
      BY <2>1, <3>1, ReadFacts
  <2>3. Raised(th.clock, th.tid, th.epoch) = Raised(thr[t].clock, t, thr[t].epoch + 1)
    BY <1>5, <1>10
  <2> QED
    BY <2>2, <2>3, <1>5
<1> HIDE DEF rd
<1>12. /\ done \in ThreadStates(G) /\ done.tid = t /\ done.status = "running"
       /\ done.epoch = thr[t].epoch + 1 /\ done.clock = rd.clock
       /\ done.lastRelease = IF IsReleaseOrder(mo) THEN thr[t].epoch + 1 ELSE thr[t].lastRelease
       /\ done.slimit = thr[t].slimit /\ done.swrite = thr[t].swrite
       /\ done.sread = th.sread
  BY <1>5, <1>11, ReleasedFacts
<1>13. v.sync = s /\ v.buf = r
  OBVIOUS
<1> HIDE DEF done, b, r, s, v, sync
<1>14. thr'[t] = done /\ \A u \in Tid \ {t} : thr'[u] = thr[u]
  BY <1>1, <1>2 DEF ThreadsIn
<1>15. loc'[x] = v /\ \A z \in Loc \ {x} : loc'[z] = loc[z]
  BY <1>1, <1>2 DEF LocationsIn
<1>16. ASSUME thr'[t].clock \in G PROVE ClocksIn(G)'
  <2>1. ThreadsIn(G)'
    BY <1>1, <1>2, <1>12, <1>14, <1>16, ThreadSet
  <2>2. s \in SyncClocks(G)
    <3>1. rd.clock \in G
      BY <1>12, <1>14, <1>16
    <3>2. IsReleaseOrder(mo) \in BOOLEAN
      BY DEF IsReleaseOrder
    <3> QED
      BY <3>1, <3>2, <1>2, <1>5, RmwSyncIn DEF s
  <2>3. v \in SyncVars(G) /\ Sound(v.buf)
    BY <1>7, <2>2 DEF SyncVars, v
  <2>4. LocationsIn(G)'
    BY <1>1, <1>2, <2>3, LocationSet
  <2> QED
    BY <2>1, <2>4, <1>1, <1>2, <1>9 DEF ClocksIn, MutexIn
<1>17. NewThread(t, "running", thr[t].epoch + 1,
                 IF IsReleaseOrder(mo) THEN thr[t].epoch + 1 ELSE thr[t].lastRelease,
                 thr[t].slimit, thr[t].swrite, ScReads(thr[t], mo).sread)
  BY <1>6, <1>12, <1>14 DEF NewThread, ThreadIs
<1>18. NewLocation(x, s, r)
  BY <1>15 DEF NewLocation, v
<1> QED
  BY <1>9, <1>11, <1>12, <1>14, <1>16, <1>17, <1>18 DEF Acquires, r

\* AtomicCAS that succeeds with mo_relaxed.
LEMMA CasRelaxedStep ==
  ASSUME NEW G, Lattice(G), ClocksIn(G), NEW t \in Running, NEW x \in Loc,
         CasRelaxed(t, x), NEW th, th = Ticked(thr[t])
  PROVE  /\ NewThread(t, "running", thr[t].epoch + 1, thr[t].lastRelease,
                      thr[t].slimit, thr[t].swrite, thr[t].sread)
         /\ thr'[t].clock = thr[t].clock
         /\ NewLocation(x, loc[x].sync, Buffered(x, th, "relaxed"))
         /\ ClocksIn(G)'
<1> DEFINE b == loc[x].buf
           r == Buffered(x, th, "relaxed")
<1>1. /\ thr' = [thr EXCEPT ![t] = th] /\ loc' = [loc EXCEPT ![x].buf = r]
      /\ ctx' = ctx /\ mutex' = mutex
  BY DEF CasRelaxed
<1>2. /\ t \in Tid /\ thr[t] \in ThreadStates(G) /\ thr[t].tid = t
      /\ thr[t].status = "running" /\ thr[t].clock \in G
      /\ b \in Buffers(G) /\ Sound(b) /\ loc[x].sync.clk \in G
      /\ ThreadsIn(G) /\ LocationsIn(G) /\ MutexIn(G)
  BY StateParts
<1>3. /\ th \in ThreadStates(G) /\ th.tid = t /\ th.status = "running"
      /\ th.epoch = thr[t].epoch + 1 /\ th.clock = thr[t].clock
      /\ th.lastRelease = thr[t].lastRelease
      /\ th.slimit = thr[t].slimit /\ th.swrite = thr[t].swrite /\ th.sread = thr[t].sread
  BY <1>2, TickedFacts
<1>4. r \in Buffers(G) /\ Sound(r)
  <2> DEFINE isSc == "relaxed" = "seq_cst"
  <2>1. r = BufferStore(b, th, loc[x].sync.clk, isSc) /\ isSc \in BOOLEAN
    BY DEF Buffered
  <2> HIDE DEF b, r, isSc
  <2> QED
    BY <1>2, <1>3, <2>1, BufferStoreSound
<1> HIDE DEF b, r
<1>5. ThreadsIn(G)' /\ thr'[t] = th /\ \A u \in Tid \ {t} : thr'[u] = thr[u]
  BY <1>1, <1>2, <1>3, ThreadSet
<1>6. LocationsIn(G)' /\ NewLocation(x, loc[x].sync, r)
  BY <1>1, <1>2, <1>4, BufferSet DEF NewLocation
<1>7. ClocksIn(G)'
  BY <1>1, <1>5, <1>6 DEF ClocksIn, MutexIn
<1> QED
  BY <1>3, <1>5, <1>6, <1>7 DEF NewThread, ThreadIs, r

\* AtomicCAS that fails.
LEMMA CasFailStep ==
  ASSUME NEW G, Lattice(G), ClocksIn(G), NEW t \in Running, NEW x \in Loc, NEW fmo,
         CasFail(t, x, fmo), NEW th, th = ScReads(Ticked(thr[t]), fmo)
  PROVE  /\ NewThread(t, "running", thr[t].epoch + 1, thr[t].lastRelease,
                      thr[t].slimit, thr[t].swrite, ScReads(thr[t], fmo).sread)
         /\ IF IsAcquireOrder(fmo) THEN Acquires(G, t, thr[t].epoch + 1)
                                   ELSE thr'[t].clock = thr[t].clock
         /\ NewLocation(x, loc[x].sync, AdvanceToEnd(loc[x].buf, th))
         /\ thr'[t].clock \in G => ClocksIn(G)'
<1> DEFINE k == Ticked(thr[t])
           c == loc[x].sync.clk
           done == IF IsAcquireOrder(fmo) THEN Acquire(th, c) ELSE th
           b == loc[x].buf
           r == AdvanceToEnd(b, th)
<1>1. /\ thr' = [thr EXCEPT ![t] = done] /\ loc' = [loc EXCEPT ![x].buf = AdvanceToEnd(@, th)]
      /\ ctx' = ctx /\ mutex' = mutex
  BY DEF CasFail
<1>2. /\ t \in Tid /\ thr[t] \in ThreadStates(G) /\ thr[t].tid = t
      /\ thr[t].status = "running" /\ thr[t].clock \in G
      /\ b \in Buffers(G) /\ Sound(b) /\ c \in G /\ ctx.sfence \in Clock
      /\ ThreadsIn(G) /\ LocationsIn(G) /\ MutexIn(G)
  BY StateParts
<1>3. /\ k \in ThreadStates(G) /\ k.tid = t /\ k.status = "running"
      /\ k.epoch = thr[t].epoch + 1 /\ k.clock = thr[t].clock
      /\ k.lastRelease = thr[t].lastRelease
      /\ k.slimit = thr[t].slimit /\ k.swrite = thr[t].swrite /\ k.sread = thr[t].sread
  BY <1>2, TickedFacts
<1>4. th = ScReads(k, fmo)
  OBVIOUS
<1> HIDE DEF k
<1>5. /\ th \in ThreadStates(G) /\ th.tid = t /\ th.status = "running"
      /\ th.epoch = thr[t].epoch + 1 /\ th.clock = thr[t].clock
      /\ th.lastRelease = thr[t].lastRelease
      /\ th.slimit = thr[t].slimit /\ th.swrite = thr[t].swrite
      /\ th.sread = IF fmo = "seq_cst" THEN Join(thr[t].sread, ctx.sfence) ELSE thr[t].sread
  BY <1>2, <1>3, <1>4, ScReadsFacts
<1>6. th.sread = ScReads(thr[t], fmo).sread
  BY <1>2, <1>5, ScReadsFacts
<1>7. r \in Buffers(G) /\ Sound(r)
  <2>1. r = AdvanceToEnd(b, th)
    OBVIOUS
  <2> HIDE DEF b, r
  <2> QED
    BY <1>2, <1>5, <2>1, AdvanceToEndFacts
<1>8. loc' = [loc EXCEPT ![x].buf = r]
  BY <1>1
<1> HIDE DEF b, r, c
<1>9. /\ done \in ThreadStates(G) /\ done.tid = t /\ done.status = "running"
      /\ done.epoch = thr[t].epoch + 1 /\ done.lastRelease = thr[t].lastRelease
      /\ done.slimit = thr[t].slimit /\ done.swrite = thr[t].swrite /\ done.sread = th.sread
      /\ IF IsAcquireOrder(fmo)
         THEN \E d \in G : done.clock = Join(Raised(thr[t].clock, t, thr[t].epoch + 1), d)
         ELSE done.clock = thr[t].clock
  <2>1. CASE IsAcquireOrder(fmo)
    <3>1. done = Acquire(th, c) /\ c \in G /\ c \in Clock
      BY <1>2, <2>1 DEF Lattice
    <3> HIDE DEF done
    <3>2. done.clock = Join(Raised(thr[t].clock, t, thr[t].epoch + 1), c)
      BY <3>1, <1>5, AcquireFacts
    <3> QED
      BY <3>1, <3>2, <2>1, <1>5, AcquireFacts
  <2>2. CASE ~IsAcquireOrder(fmo)
    <3>1. done = th
      BY <2>2
    <3> HIDE DEF done
    <3> QED
      BY <3>1, <2>2, <1>5
  <2> QED
    BY <2>1, <2>2
<1> HIDE DEF done
<1>10. thr'[t] = done /\ \A u \in Tid \ {t} : thr'[u] = thr[u]
  BY <1>1, <1>2 DEF ThreadsIn
<1>11. LocationsIn(G)' /\ NewLocation(x, loc[x].sync, r)
  BY <1>2, <1>7, <1>8, BufferSet DEF NewLocation
<1>12. ASSUME thr'[t].clock \in G PROVE ClocksIn(G)'
  <2>1. ThreadsIn(G)'
    BY <1>1, <1>2, <1>9, <1>10, <1>12, ThreadSet
  <2> QED
    BY <2>1, <1>1, <1>11 DEF ClocksIn, MutexIn
<1> QED
  BY <1>6, <1>9, <1>10, <1>11, <1>12 DEF NewThread, ThreadIs, Acquires, r, b

\* A running thread of a state whose clocks are in G.
LEMMA RunningParts ==
  ASSUME NEW G, Lattice(G), ClocksIn(G), NEW t \in Running
  PROVE  /\ t \in Tid /\ thr[t] \in ThreadStates(G) /\ thr[t].tid = t
         /\ thr[t].status = "running" /\ thr[t].clock \in G /\ thr[t].clock \in Clock
         /\ ctx.sfence \in Clock /\ ctx.swrite \in Clock
         /\ ThreadsIn(G) /\ LocationsIn(G) /\ MutexIn(G)
BY DEF Running, ClocksIn, ThreadsIn, ThreadStates

\* The release side of a fence.
LEMMA FenceReleaseFacts ==
  ASSUME NEW th \in ThreadStates(Clock), NEW mo, NEW r,
         r = IF IsReleaseOrder(mo) THEN [th EXCEPT !.frel = Join(@, th.clock)] ELSE th
  PROVE  /\ r \in ThreadStates(Clock) /\ r.tid = th.tid /\ r.status = th.status
         /\ r.epoch = th.epoch /\ r.lastRelease = th.lastRelease
         /\ r.clock = th.clock /\ r.facq = th.facq
         /\ r.frel = IF IsReleaseOrder(mo) THEN Join(th.frel, th.clock) ELSE th.frel
         /\ r.slimit = th.slimit /\ r.swrite = th.swrite /\ r.sread = th.sread
<1> DEFINE j == Join(th.frel, th.clock)
<1>1. j \in Clock
  BY ThreadParts, ClockFacts
<1>2. r = IF IsReleaseOrder(mo) THEN [th EXCEPT !.frel = j] ELSE th
  OBVIOUS
<1> HIDE DEF j
<1>3. CASE IsReleaseOrder(mo)
  <2>1. r = [tid |-> th.tid, status |-> th.status, epoch |-> th.epoch,
             clock |-> th.clock, lastRelease |-> th.lastRelease, frel |-> j,
             facq |-> th.facq, slimit |-> th.slimit, swrite |-> th.swrite,
             sread |-> th.sread]
    BY <1>2, <1>3 DEF ThreadStates
  <2>2. r \in ThreadStates(Clock)
    BY <1>1, <2>1, ThreadParts DEF ThreadStates
  <2> QED
    BY <1>3, <2>1, <2>2 DEF j
<1>4. CASE ~IsReleaseOrder(mo)
  BY <1>2, <1>4
<1> QED
  BY <1>3, <1>4

\* AtomicFence. e is the epoch it enters, and f what it makes of Sfence.
LEMMA FenceStep ==
  ASSUME NEW G, Lattice(G), ClocksIn(G), NEW t \in Running, NEW mo, Fence(t, mo),
         NEW e, e = thr[t].epoch + 1,
         NEW f, f = IF mo = "seq_cst" THEN Raised(ctx.sfence, t, e) ELSE ctx.sfence
  PROVE  /\ NewThread(t, "running", e,
                      IF IsReleaseOrder(mo) THEN e ELSE thr[t].lastRelease,
                      IF mo = "seq_cst" THEN Join(thr[t].slimit, f) ELSE thr[t].slimit,
                      IF mo = "seq_cst" THEN Join(thr[t].swrite, ctx.swrite) ELSE thr[t].swrite,
                      thr[t].sread)
         /\ Acquires(G, t, e)
         /\ loc' = loc
         /\ ctx'.sfence = f /\ ctx'.swrite = ctx.swrite
         /\ Raised(thr[t].clock, t, e) \in G /\ thr'[t].clock \in G => ClocksIn(G)'
<1> DEFINE isSc == mo = "seq_cst"
           st == Stamped(Ticked(thr[t]))
           th == Released(st, mo)
           sc == IF isSc THEN SCFence(th, f) ELSE th
           rel == IF IsReleaseOrder(mo) THEN [sc EXCEPT !.frel = Join(@, sc.clock)] ELSE sc
           acq == IF IsLoadOrder(mo) THEN Acquire(rel, rel.facq) ELSE rel
<1>1. /\ t \in Tid /\ thr[t] \in ThreadStates(G) /\ thr[t].tid = t
      /\ thr[t].status = "running" /\ thr[t].clock \in G /\ thr[t].clock \in Clock
      /\ ctx.sfence \in Clock /\ ctx.swrite \in Clock
      /\ ThreadsIn(G) /\ LocationsIn(G) /\ MutexIn(G)
  BY RunningParts
<1>2. thr[t] \in ThreadStates(Clock)
  BY <1>1 DEF ThreadStates, Lattice
<1>3. e \in Nat /\ thr[t].frel \in G /\ thr[t].facq \in G
  BY <1>1, ThreadParts
<1>4. /\ st \in ThreadStates(Clock) /\ st.tid = t /\ st.status = "running"
      /\ st.epoch = e /\ st.clock = Raised(thr[t].clock, t, e)
      /\ st.lastRelease = thr[t].lastRelease /\ st.frel = thr[t].frel
      /\ st.facq = thr[t].facq /\ st.slimit = thr[t].slimit
      /\ st.swrite = thr[t].swrite /\ st.sread = thr[t].sread
  BY <1>1, <1>2, NextEpochFacts
<1>5. th = Released(st, mo)
  OBVIOUS
<1> HIDE DEF st
<1>6. /\ th \in ThreadStates(Clock) /\ th.tid = t /\ th.status = "running"
      /\ th.epoch = e /\ th.clock = Raised(thr[t].clock, t, e)
      /\ th.lastRelease = IF IsReleaseOrder(mo) THEN e ELSE thr[t].lastRelease
      /\ th.frel = thr[t].frel /\ th.facq = thr[t].facq /\ th.slimit = thr[t].slimit
      /\ th.swrite = thr[t].swrite /\ th.sread = thr[t].sread
  BY <1>4, <1>5, ReleasedFacts
<1>7. IF isSc THEN [ctx.sfence EXCEPT ![t] = th.epoch] = f ELSE ctx.sfence = f
  BY <1>6 DEF Raised
<1>8. thr' = [thr EXCEPT ![t] = acq] /\ ctx' = [ctx EXCEPT !.sfence = f]
      /\ loc' = loc /\ mutex' = mutex
  <2> DEFINE sfence == IF isSc THEN [ctx.sfence EXCEPT ![t] = th.epoch] ELSE ctx.sfence
             sc2 == IF isSc THEN SCFence(th, sfence) ELSE th
             rel2 == IF IsReleaseOrder(mo) THEN [sc2 EXCEPT !.frel = Join(@, sc2.clock)] ELSE sc2
             acq2 == IF IsLoadOrder(mo) THEN Acquire(rel2, rel2.facq) ELSE rel2
  <2>1. thr' = [thr EXCEPT ![t] = acq2] /\ ctx' = [ctx EXCEPT !.sfence = sfence]
        /\ loc' = loc /\ mutex' = mutex
    BY DEF Fence, st
  <2>2. sfence = f
    BY <1>7
  <2> HIDE DEF sfence, th
  <2> QED
    BY <2>1, <2>2
<1> HIDE DEF th
<1>9. f \in Clock
  BY <1>1, <1>3, RaisedType
<1>10. /\ sc \in ThreadStates(Clock) /\ sc.tid = t /\ sc.status = "running"
       /\ sc.epoch = e /\ sc.clock = Raised(thr[t].clock, t, e)
       /\ sc.lastRelease = th.lastRelease /\ sc.frel = thr[t].frel /\ sc.facq = thr[t].facq
       /\ sc.slimit = IF isSc THEN Join(thr[t].slimit, f) ELSE thr[t].slimit
       /\ sc.swrite = IF isSc THEN Join(thr[t].swrite, ctx.swrite) ELSE thr[t].swrite
       /\ sc.sread = thr[t].sread
  <2>1. CASE isSc
    <3>1. sc = SCFence(th, f)
      BY <2>1
    <3> HIDE DEF sc
    <3>2. /\ sc = [tid |-> th.tid, status |-> th.status, epoch |-> th.epoch,
                   clock |-> th.clock, lastRelease |-> th.lastRelease,
                   frel |-> th.frel, facq |-> th.facq, slimit |-> Join(th.slimit, f),
                   swrite |-> Join(th.swrite, ctx.swrite), sread |-> th.sread]
          /\ sc \in ThreadStates(Clock)
      BY <3>1, <1>1, <1>6, <1>9, ScFenceFacts
    <3> QED
      BY <3>2, <2>1, <1>6
  <2>2. CASE ~isSc
    <3>1. sc = th
      BY <2>2
    <3> HIDE DEF sc
    <3> QED
      BY <3>1, <2>2, <1>6
  <2> QED
    BY <2>1, <2>2
<1>11. rel = IF IsReleaseOrder(mo) THEN [sc EXCEPT !.frel = Join(@, sc.clock)] ELSE sc
  OBVIOUS
<1> HIDE DEF sc
<1>12. /\ rel \in ThreadStates(Clock) /\ rel.tid = t /\ rel.status = "running"
       /\ rel.epoch = e /\ rel.clock = Raised(thr[t].clock, t, e)
       /\ rel.lastRelease = th.lastRelease /\ rel.facq = thr[t].facq
       /\ rel.frel = IF IsReleaseOrder(mo) THEN Join(thr[t].frel, Raised(thr[t].clock, t, e))
                                           ELSE thr[t].frel
       /\ rel.slimit = sc.slimit /\ rel.swrite = sc.swrite /\ rel.sread = thr[t].sread
  BY <1>10, <1>11, FenceReleaseFacts
<1>13. acq = IF IsLoadOrder(mo) THEN Acquire(rel, rel.facq) ELSE rel
  OBVIOUS
<1> HIDE DEF rel, acq
<1>14. /\ acq \in ThreadStates(Clock) /\ acq.tid = t /\ acq.status = "running"
       /\ acq.epoch = e /\ acq.lastRelease = th.lastRelease
       /\ acq.facq = thr[t].facq /\ acq.frel = rel.frel
       /\ acq.slimit = sc.slimit /\ acq.swrite = sc.swrite /\ acq.sread = thr[t].sread
       /\ \E d \in G : acq.clock = Join(Raised(thr[t].clock, t, e), d)
  <2>1. Raised(thr[t].clock, t, e) \in Clock
    BY <1>1, <1>3, RaisedType
  <2>2. CASE IsLoadOrder(mo)
    <3>1. acq = Acquire(rel, rel.facq) /\ rel.facq \in Clock /\ Lattice(Clock)
      BY <1>12, <1>13, <2>2, ThreadParts, ClockLattice
    <3>2. /\ acq = [tid |-> rel.tid, status |-> rel.status, epoch |-> rel.epoch,
                    clock |-> Join(Raised(rel.clock, rel.tid, rel.epoch), rel.facq),
                    lastRelease |-> rel.lastRelease, frel |-> rel.frel, facq |-> rel.facq,
                    slimit |-> rel.slimit, swrite |-> rel.swrite, sread |-> rel.sread]
          /\ acq \in ThreadStates(Clock)
      BY <3>1, <1>12, AcquireFacts
    <3>3. Raised(rel.clock, rel.tid, rel.epoch) = Raised(thr[t].clock, t, e)
      BY <1>1, <1>3, <1>12, RaisedTwice
    <3>4. acq.clock = Join(Raised(thr[t].clock, t, e), thr[t].facq)
      BY <3>2, <3>3, <1>12
    <3> QED
      BY <3>2, <3>4, <1>3, <1>12
  <2>3. CASE ~IsLoadOrder(mo)
    <3>1. acq = rel
      BY <1>13, <2>3
    <3>2. Zero \in G /\ rel.clock = Join(Raised(thr[t].clock, t, e), Zero)
      BY <1>12, <2>1, ZeroFacts DEF Lattice
    <3> QED
      BY <3>1, <3>2, <1>12
  <2> QED
    BY <2>2, <2>3
<1>15. thr'[t] = acq /\ \A u \in Tid \ {t} : thr'[u] = thr[u]
  BY <1>1, <1>8 DEF ThreadsIn
<1>16. ctx' \in [sfence : Clock, swrite : Clock] /\ ctx'.sfence = f /\ ctx'.swrite = ctx.swrite
  BY <1>8, <1>9 DEF ClocksIn
<1>17. ASSUME Raised(thr[t].clock, t, e) \in G, thr'[t].clock \in G PROVE ClocksIn(G)'
  <2>1. acq.frel \in G /\ acq.facq \in G
    BY <1>3, <1>12, <1>14, <1>17 DEF Lattice
  <2>2. acq \in ThreadStates(G)
    BY <1>14, <2>1 DEF ThreadStates
  <2>3. ThreadsIn(G)'
    BY <1>1, <1>8, <1>14, <1>15, <1>17, <2>2, ThreadSet
  <2> QED
    BY <2>3, <1>1, <1>8, <1>16 DEF ClocksIn, MutexIn, LocationsIn
<1>18. NewThread(t, "running", e,
                 IF IsReleaseOrder(mo) THEN e ELSE thr[t].lastRelease,
                 IF isSc THEN Join(thr[t].slimit, f) ELSE thr[t].slimit,
                 IF isSc THEN Join(thr[t].swrite, ctx.swrite) ELSE thr[t].swrite,
                 thr[t].sread)
  BY <1>6, <1>10, <1>14, <1>15 DEF NewThread, ThreadIs
<1> QED
  BY <1>8, <1>14, <1>15, <1>16, <1>17, <1>18 DEF Acquires

\* MutexLock.
LEMMA LockStep ==
  ASSUME NEW G, Lattice(G), ClocksIn(G), NEW t \in Running, Lock(t)
  PROVE  /\ NewThread(t, "running", thr[t].epoch + 1, thr[t].lastRelease,
                      thr[t].slimit, thr[t].swrite, thr[t].sread)
         /\ Acquires(G, t, thr[t].epoch + 1)
         /\ thr'[t].clock \in G => ClocksIn(G)'
<1> DEFINE k == Ticked(thr[t])
           th == Acquire(k, mutex.clk)
<1>1. /\ thr' = [thr EXCEPT ![t] = th] /\ mutex' = [mutex EXCEPT !.holder = t]
      /\ ctx' = ctx /\ loc' = loc
  BY DEF Lock
<1>2. /\ t \in Tid /\ thr[t] \in ThreadStates(G) /\ thr[t].tid = t
      /\ thr[t].status = "running" /\ thr[t].clock \in G
      /\ ThreadsIn(G) /\ LocationsIn(G) /\ MutexIn(G)
  BY RunningParts
<1>3. mutex.clk \in G /\ mutex.clk \in Clock /\ MutexIn(G)'
  <2>1. mutex \in [clk : G, holder : Tid \cup {NoTid}]
    BY <1>2 DEF MutexIn
  <2>2. mutex' \in [clk : G, holder : Tid \cup {NoTid}]
    BY <1>1, <1>2, <2>1
  <2> QED
    BY <2>1, <2>2 DEF MutexIn, Lattice
<1>4. /\ k \in ThreadStates(G) /\ k.tid = t /\ k.status = "running"
      /\ k.epoch = thr[t].epoch + 1 /\ k.clock = thr[t].clock
      /\ k.lastRelease = thr[t].lastRelease
      /\ k.slimit = thr[t].slimit /\ k.swrite = thr[t].swrite /\ k.sread = thr[t].sread
  BY <1>2, TickedFacts
<1>5. th = Acquire(k, mutex.clk)
  OBVIOUS
<1> HIDE DEF k, th
<1>6. /\ th \in ThreadStates(G) /\ th.tid = t /\ th.status = "running"
      /\ th.epoch = thr[t].epoch + 1 /\ th.lastRelease = thr[t].lastRelease
      /\ th.slimit = thr[t].slimit /\ th.swrite = thr[t].swrite /\ th.sread = thr[t].sread
      /\ th.clock = Join(Raised(thr[t].clock, t, thr[t].epoch + 1), mutex.clk)
  <2>1. /\ th = [tid |-> k.tid, status |-> k.status, epoch |-> k.epoch,
                 clock |-> Join(Raised(k.clock, k.tid, k.epoch), mutex.clk),
                 lastRelease |-> k.lastRelease, frel |-> k.frel, facq |-> k.facq,
                 slimit |-> k.slimit, swrite |-> k.swrite, sread |-> k.sread]
        /\ th \in ThreadStates(G)
    BY <1>3, <1>4, <1>5, AcquireFacts
  <2> QED
    BY <2>1, <1>4
<1>7. thr'[t] = th /\ \A u \in Tid \ {t} : thr'[u] = thr[u]
  BY <1>1, <1>2 DEF ThreadsIn
<1>8. ASSUME thr'[t].clock \in G PROVE ClocksIn(G)'
  <2>1. ThreadsIn(G)'
    BY <1>1, <1>2, <1>6, <1>7, <1>8, ThreadSet
  <2> QED
    BY <2>1, <1>1, <1>2, <1>3 DEF ClocksIn, LocationsIn
<1> QED
  BY <1>3, <1>6, <1>7, <1>8 DEF NewThread, ThreadIs, Acquires

\* MutexUnlock.
LEMMA UnlockStep ==
  ASSUME NEW G, Lattice(G), ClocksIn(G), NEW t \in Running, Unlock(t)
  PROVE  /\ NewThread(t, "running", thr[t].epoch + 1, thr[t].lastRelease,
                      thr[t].slimit, thr[t].swrite, thr[t].sread)
         /\ thr'[t].clock = Raised(thr[t].clock, t, thr[t].epoch + 1)
         /\ thr'[t].clock \in G => ClocksIn(G)'
<1> DEFINE th == Stamped(Ticked(thr[t]))
<1>1. /\ thr' = [thr EXCEPT ![t] = th] /\ mutex' = [clk |-> th.clock, holder |-> NoTid]
      /\ ctx' = ctx /\ loc' = loc
  BY DEF Unlock
<1>2. /\ t \in Tid /\ thr[t] \in ThreadStates(G) /\ thr[t].tid = t
      /\ thr[t].status = "running" /\ thr[t].clock \in G
      /\ ThreadsIn(G) /\ LocationsIn(G) /\ MutexIn(G)
  BY RunningParts
<1>3. /\ th \in ThreadStates(G) /\ th.tid = t /\ th.status = "running"
      /\ th.epoch = thr[t].epoch + 1 /\ th.clock = Raised(thr[t].clock, t, thr[t].epoch + 1)
      /\ th.lastRelease = thr[t].lastRelease
      /\ th.slimit = thr[t].slimit /\ th.swrite = thr[t].swrite /\ th.sread = thr[t].sread
  BY <1>2, NextEpochFacts
<1> HIDE DEF th
<1>4. thr'[t] = th /\ \A u \in Tid \ {t} : thr'[u] = thr[u]
  BY <1>1, <1>2 DEF ThreadsIn
<1>5. ASSUME thr'[t].clock \in G PROVE ClocksIn(G)'
  <2>1. ThreadsIn(G)'
    BY <1>1, <1>2, <1>3, <1>4, <1>5, ThreadSet
  <2>2. MutexIn(G)'
    BY <1>1, <1>4, <1>5 DEF MutexIn
  <2> QED
    BY <2>1, <2>2, <1>1, <1>2 DEF ClocksIn, LocationsIn
<1> QED
  BY <1>3, <1>4, <1>5 DEF NewThread, ThreadIs

\* A thread that finishes.
LEMMA FinishStep ==
  ASSUME NEW G, Lattice(G), ClocksIn(G), NEW t \in Running, Finish(t)
  PROVE  /\ NewThread(t, "finished", thr[t].epoch + 1, thr[t].lastRelease,
                      thr[t].slimit, thr[t].swrite, thr[t].sread)
         /\ thr'[t].clock = Raised(thr[t].clock, t, thr[t].epoch + 1)
         /\ thr'[t].clock \in G => ClocksIn(G)'
<1> DEFINE k == Stamped(Ticked(thr[t]))
           th == [k EXCEPT !.status = "finished"]
<1>1. thr' = [thr EXCEPT ![t] = th] /\ mutex' = mutex /\ ctx' = ctx /\ loc' = loc
  BY DEF Finish
<1>2. /\ t \in Tid /\ thr[t] \in ThreadStates(G) /\ thr[t].tid = t
      /\ thr[t].status = "running" /\ thr[t].clock \in G
      /\ ThreadsIn(G) /\ LocationsIn(G) /\ MutexIn(G)
  BY RunningParts
<1>3. /\ k \in ThreadStates(G) /\ k.tid = t
      /\ k.epoch = thr[t].epoch + 1 /\ k.clock = Raised(thr[t].clock, t, thr[t].epoch + 1)
      /\ k.lastRelease = thr[t].lastRelease
      /\ k.slimit = thr[t].slimit /\ k.swrite = thr[t].swrite /\ k.sread = thr[t].sread
  BY <1>2, NextEpochFacts
<1> HIDE DEF k
<1>4. /\ th \in ThreadStates(G) /\ th.tid = t /\ th.status = "finished"
      /\ th.epoch = thr[t].epoch + 1 /\ th.clock = Raised(thr[t].clock, t, thr[t].epoch + 1)
      /\ th.lastRelease = thr[t].lastRelease
      /\ th.slimit = thr[t].slimit /\ th.swrite = thr[t].swrite /\ th.sread = thr[t].sread
  BY <1>3 DEF ThreadStates, Statuses
<1> HIDE DEF th
<1>5. thr'[t] = th /\ \A u \in Tid \ {t} : thr'[u] = thr[u]
  BY <1>1, <1>2 DEF ThreadsIn
<1>6. ASSUME thr'[t].clock \in G PROVE ClocksIn(G)'
  <2>1. ThreadsIn(G)'
    BY <1>1, <1>2, <1>4, <1>5, <1>6, ThreadSet
  <2> QED
    BY <2>1, <1>1, <1>2 DEF ClocksIn, LocationsIn, MutexIn
<1> QED
  BY <1>4, <1>5, <1>6 DEF NewThread, ThreadIs

\* A thread that joins another.
LEMMA JoinStep ==
  ASSUME NEW G, Lattice(G), ClocksIn(G), NEW t \in Running, NEW u \in Tid, ThreadJoin(t, u)
  PROVE  /\ ThreadIs(t, "running", thr[t].epoch, thr[t].lastRelease,
                     thr[t].slimit, thr[t].swrite, thr[t].sread)
         /\ u # t /\ thr[u].status = "finished"
         /\ ThreadIs(u, "dead", thr[u].epoch, thr[u].lastRelease,
                     thr[u].slimit, thr[u].swrite, thr[u].sread)
         /\ thr'[u].clock = thr[u].clock
         /\ \A w \in Tid \ {t, u} : thr'[w] = thr[w]
         /\ Acquires(G, t, thr[t].epoch)
         /\ thr'[t].clock \in G => ClocksIn(G)'
<1> DEFINE th == Acquire(thr[t], thr[u].clock)
<1>1. /\ thr' = [thr EXCEPT ![t] = th, ![u].status = "dead"] /\ thr[u].status = "finished"
      /\ mutex' = mutex /\ ctx' = ctx /\ loc' = loc
  BY DEF ThreadJoin
<1>2. /\ t \in Tid /\ thr[t] \in ThreadStates(G) /\ thr[t].tid = t
      /\ thr[t].status = "running" /\ thr[t].clock \in G
      /\ ThreadsIn(G) /\ LocationsIn(G) /\ MutexIn(G)
  BY RunningParts
<1>3. /\ thr[u] \in ThreadStates(G) /\ thr[u].tid = u
      /\ thr[u].clock \in G /\ thr[u].clock \in Clock /\ u # t
  BY <1>1, <1>2 DEF ThreadsIn, Lattice
<1>4. /\ th \in ThreadStates(G) /\ th.tid = t /\ th.status = "running"
      /\ th.epoch = thr[t].epoch /\ th.lastRelease = thr[t].lastRelease
      /\ th.slimit = thr[t].slimit /\ th.swrite = thr[t].swrite /\ th.sread = thr[t].sread
      /\ th.clock = Join(Raised(thr[t].clock, t, thr[t].epoch), thr[u].clock)
  BY <1>2, <1>3, AcquireFacts
<1> HIDE DEF th
<1> DEFINE v == [thr[u] EXCEPT !.status = "dead"]
<1>5. /\ v \in ThreadStates(G) /\ v.tid = u /\ v.status = "dead"
      /\ v.epoch = thr[u].epoch /\ v.lastRelease = thr[u].lastRelease /\ v.clock = thr[u].clock
      /\ v.slimit = thr[u].slimit /\ v.swrite = thr[u].swrite /\ v.sread = thr[u].sread
  BY <1>3 DEF ThreadStates, Statuses
<1>6. thr' = [thr EXCEPT ![t] = th, ![u] = v]
  BY <1>1, <1>2, <1>3 DEF ThreadsIn
<1> HIDE DEF v
<1>7. thr'[t] = th /\ thr'[u] = v /\ \A w \in Tid \ {t, u} : thr'[w] = thr[w]
  BY <1>2, <1>3, <1>6 DEF ThreadsIn
<1>8. ASSUME thr'[t].clock \in G PROVE ClocksIn(G)'
  <2>1. thr' \in [Tid -> ThreadStates(G)]
    BY <1>2, <1>4, <1>5, <1>6 DEF ThreadsIn
  <2>2. ASSUME NEW w \in Tid
        PROVE  thr'[w].tid = w /\ (thr'[w].status # "invalid" => thr'[w].clock \in G)
    <3>1. CASE w = t \/ w = u
      BY <1>3, <1>4, <1>5, <1>7, <1>8, <3>1
    <3>2. CASE w # t /\ w # u
      BY <1>2, <1>7, <3>2 DEF ThreadsIn
    <3> QED
      BY <3>1, <3>2
  <2>3. ThreadsIn(G)'
    BY <2>1, <2>2 DEF ThreadsIn
  <2> QED
    BY <2>3, <1>1, <1>2 DEF ClocksIn, LocationsIn, MutexIn
<1> QED
  BY <1>1, <1>3, <1>4, <1>5, <1>7, <1>8 DEF ThreadIs, Acquires

\* A ThreadState before its first step.
LEMMA FirstThreadFacts ==
  ASSUME NEW G, Lattice(G), NEW u \in Tid, NEW s \in Statuses
  PROVE  /\ FirstThread(u, s) \in ThreadStates(G)
         /\ FirstThread(u, s).tid = u /\ FirstThread(u, s).status = s
         /\ FirstThread(u, s).epoch = 1 /\ FirstThread(u, s).lastRelease = 0
         /\ FirstThread(u, s).clock = Raised(Zero, u, 1)
         /\ FirstThread(u, s).slimit = Zero /\ FirstThread(u, s).swrite = Zero
         /\ FirstThread(u, s).sread = Zero
<1>1. Raised(Zero, u, 1) \in Clock /\ Zero \in Clock /\ Zero \in G
  BY ClockFacts, RaisedType DEF Lattice
<1>2. FirstThread(u, s)
        = [tid |-> u, status |-> s, epoch |-> 1, clock |-> Raised(Zero, u, 1),
           lastRelease |-> 0, frel |-> Zero, facq |-> Zero,
           slimit |-> Zero, swrite |-> Zero, sread |-> Zero]
  BY DEF FirstThread, Raised
<1> QED
  BY <1>1, <1>2 DEF ThreadStates

\* A thread that creates another.
LEMMA CreateStep ==
  ASSUME NEW G, Lattice(G), ClocksIn(G), NEW t \in Running, NEW u \in Tid, Create(t, u)
  PROVE  /\ ThreadIs(t, "running", thr[t].epoch + 1, thr[t].lastRelease,
                     thr[t].slimit, thr[t].swrite, thr[t].sread)
         /\ u # t /\ thr[u].status = "invalid"
         /\ ThreadIs(u, "running", 1, 0, Zero, Zero, Zero)
         /\ thr'[t].clock = Raised(thr[t].clock, t, thr[t].epoch + 1)
         /\ thr'[u].clock = Join(Raised(Raised(Zero, u, 1), u, 1), thr'[t].clock)
         /\ \A w \in Tid \ {t, u} : thr'[w] = thr[w]
         /\ thr'[t].clock \in G /\ thr'[u].clock \in G => ClocksIn(G)'
<1> DEFINE th == Stamped(Ticked(thr[t]))
           fi == FirstThread(u, "running")
           new == Acquire(fi, th.clock)
<1>1. /\ thr' = [thr EXCEPT ![t] = th, ![u] = new] /\ thr[u].status = "invalid"
      /\ mutex' = mutex /\ ctx' = ctx /\ loc' = loc
  BY DEF Create
<1>2. /\ t \in Tid /\ thr[t] \in ThreadStates(G) /\ thr[t].tid = t
      /\ thr[t].status = "running" /\ thr[t].clock \in G
      /\ ThreadsIn(G) /\ LocationsIn(G) /\ MutexIn(G)
  BY RunningParts
<1>3. /\ th \in ThreadStates(G) /\ th.tid = t /\ th.status = "running"
      /\ th.epoch = thr[t].epoch + 1 /\ th.clock = Raised(thr[t].clock, t, thr[t].epoch + 1)
      /\ th.lastRelease = thr[t].lastRelease
      /\ th.slimit = thr[t].slimit /\ th.swrite = thr[t].swrite /\ th.sread = thr[t].sread
  BY <1>2, NextEpochFacts
<1>4. u # t /\ th.clock \in Clock
  BY <1>1, <1>2, <1>3, ThreadParts
<1>5. /\ fi \in ThreadStates(G) /\ fi.tid = u /\ fi.status = "running" /\ fi.epoch = 1
      /\ fi.lastRelease = 0 /\ fi.clock = Raised(Zero, u, 1)
      /\ fi.slimit = Zero /\ fi.swrite = Zero /\ fi.sread = Zero
  BY FirstThreadFacts DEF Statuses
<1> HIDE DEF th, fi
<1>6. /\ new \in ThreadStates(G) /\ new.tid = u /\ new.status = "running" /\ new.epoch = 1
      /\ new.lastRelease = 0 /\ new.slimit = Zero /\ new.swrite = Zero /\ new.sread = Zero
      /\ new.clock = Join(Raised(Raised(Zero, u, 1), u, 1), th.clock)
  <2>1. /\ new = [tid |-> fi.tid, status |-> fi.status, epoch |-> fi.epoch,
                  clock |-> Join(Raised(fi.clock, fi.tid, fi.epoch), th.clock),
                  lastRelease |-> fi.lastRelease, frel |-> fi.frel, facq |-> fi.facq,
                  slimit |-> fi.slimit, swrite |-> fi.swrite, sread |-> fi.sread]
        /\ new \in ThreadStates(G)
    BY <1>4, <1>5, AcquireFacts
  <2> QED
    BY <2>1, <1>5
<1> HIDE DEF new
<1>7. thr'[t] = th /\ thr'[u] = new /\ \A w \in Tid \ {t, u} : thr'[w] = thr[w]
  BY <1>1, <1>2, <1>4 DEF ThreadsIn
<1>8. ASSUME thr'[t].clock \in G, thr'[u].clock \in G PROVE ClocksIn(G)'
  <2>1. thr' \in [Tid -> ThreadStates(G)]
    BY <1>1, <1>2, <1>3, <1>6 DEF ThreadsIn
  <2>2. ASSUME NEW w \in Tid
        PROVE  thr'[w].tid = w /\ (thr'[w].status # "invalid" => thr'[w].clock \in G)
    <3>1. CASE w = t \/ w = u
      BY <1>3, <1>6, <1>7, <1>8, <3>1
    <3>2. CASE w # t /\ w # u
      BY <1>2, <1>7, <3>2 DEF ThreadsIn
    <3> QED
      BY <3>1, <3>2
  <2>3. ThreadsIn(G)'
    BY <2>1, <2>2 DEF ThreadsIn
  <2> QED
    BY <2>3, <1>1, <1>2 DEF ClocksIn, LocationsIn, MutexIn
<1> QED
  BY <1>1, <1>3, <1>4, <1>6, <1>7, <1>8 DEF ThreadIs

-----------------------------------------------------------------------------
(* The invariant. *)

\* The steps of a thread, one by one.
StepOf(t) ==
  \/ \E x \in Loc :
       \/ \E mo, p : LoadAt(t, x, mo, p)
       \/ \E mo : Store(t, x, mo)
       \/ \E mo : \E keep \in BOOLEAN : Rmw(t, x, mo, keep)
       \/ CasRelaxed(t, x)
       \/ \E fmo : CasFail(t, x, fmo)
  \/ \E mo : Fence(t, mo)
  \/ Lock(t) \/ Unlock(t) \/ Finish(t)
  \/ \E u \in Tid : Create(t, u) \/ ThreadJoin(t, u)

\* A step of Next is one of them.
LEMMA StepCases ==
  ASSUME Next
  PROVE  \E t \in Running : StepOf(t)
<1>1. PICK t \in Running :
        \/ \E x \in Loc :
             \/ \E mo \in Uses[<<t, x>>].load : Load(t, x, mo)
             \/ \E mo \in Uses[<<t, x>>].store : Store(t, x, mo)
             \/ \E mo \in Uses[<<t, x>>].rmw, keep \in BOOLEAN : Rmw(t, x, mo, keep)
             \/ \E mo \in Uses[<<t, x>>].cas : mo = "relaxed" /\ CasRelaxed(t, x)
             \/ \E mo \in Uses[<<t, x>>].casfail : CasFail(t, x, mo)
        \/ \E mo \in Fences[t] : Fence(t, mo)
        \/ Lock(t)
        \/ Unlock(t)
        \/ \E u \in Tid : Create(t, u) \/ ThreadJoin(t, u)
        \/ Creator[t] # NoTid /\ Finish(t)
  BY DEF Next
<1>2. ASSUME NEW x \in Loc, NEW mo, Load(t, x, mo) PROVE StepOf(t)
  BY <1>2 DEF Load, StepOf
<1>3. ASSUME NEW x \in Loc, NEW mo, Store(t, x, mo) PROVE StepOf(t)
  BY <1>3 DEF StepOf
<1>4. ASSUME NEW x \in Loc, NEW mo, NEW keep \in BOOLEAN, Rmw(t, x, mo, keep) PROVE StepOf(t)
  BY <1>4 DEF StepOf
<1>5. ASSUME NEW x \in Loc, CasRelaxed(t, x) PROVE StepOf(t)
  BY <1>5 DEF StepOf
<1>6. ASSUME NEW x \in Loc, NEW mo, CasFail(t, x, mo) PROVE StepOf(t)
  BY <1>6 DEF StepOf
<1>7. ASSUME NEW mo, Fence(t, mo) PROVE StepOf(t)
  BY <1>7 DEF StepOf
<1>8. ASSUME Lock(t) \/ Unlock(t) \/ Finish(t) PROVE StepOf(t)
  BY <1>8 DEF StepOf
<1>9. ASSUME NEW u \in Tid, Create(t, u) \/ ThreadJoin(t, u) PROVE StepOf(t)
  BY <1>9 DEF StepOf
<1> QED
  BY <1>1, <1>2, <1>3, <1>4, <1>5, <1>6, <1>7, <1>8, <1>9

\* Without a step there are no new clocks.
LEMMA StutterKeeps ==
  ASSUME NEW G, ClocksIn(G), UNCHANGED <<thr, ctx, loc, mutex>>
  PROVE  ClocksIn(G)'
BY DEF ClocksIn, ThreadsIn, LocationsIn, MutexIn

\* A clock that is acquired is a clock.
LEMMA AcquiredType ==
  ASSUME ClocksIn(Clock), NEW t \in Running, NEW e \in Nat, Acquires(Clock, t, e)
  PROVE  thr'[t].clock \in Clock
<1>1. thr[t].clock \in Clock /\ t \in Tid
  BY ClockLattice, RunningParts
<1>2. Raised(thr[t].clock, t, e) \in Clock
  BY <1>1, RaisedType
<1> QED
  BY <1>2, ClockFacts DEF Acquires

\* The buffer of a new location.
LEMMA EmptyBufferFacts ==
  ASSUME NEW G
  PROVE  EmptyBuffer \in Buffers(G) /\ Sound(EmptyBuffer)
<1> DEFINE b == EmptyBuffer
           s == [p \in {} |-> 0]
           v == [tid |-> Main, epoch |-> 0, sc |-> FALSE]
           q == [t \in Tid |-> 0]
           a == [t \in Tid |-> NoLoad]
<1>1. b = [stores |-> s, last |-> 0, prev |-> v, pos |-> q, loads |-> {}, active |-> a]
  BY DEF EmptyBuffer
<1>2. /\ v \in [tid : Tid, epoch : Nat, sc : BOOLEAN] /\ q \in [Tid -> Nat]
      /\ a \in [Tid -> [at : Nat, epoch : Nat]] /\ DOMAIN s = {} /\ s = [p \in {} |-> s[p]]
      /\ \A t \in Tid : q[t] = 0 /\ a[t] = NoLoad
  BY MainAssumption DEF NoLoad
<1>3. s \in UNION {[S -> StoreElems(G)] : S \in SUBSET Nat}
  <2>1. s \in [{} -> StoreElems(G)] /\ {} \in SUBSET Nat
    OBVIOUS
  <2> QED
    BY <2>1
<1> HIDE DEF b, s, v, q, a
<1>4. b \in Buffers(G)
  BY <1>1, <1>2, <1>3 DEF Buffers
<1>5. Window(b, 1)
  <2>1. 1..0 = {}
    OBVIOUS
  <2> QED
    BY <1>1, <1>2, <2>1, BuffAssumption DEF Window
<1>6. Attached(b) /\ \A t \in Tid : b.pos[t] <= End(b)
  BY <1>1, <1>2 DEF Attached, End
<1>7. Sound(b)
  BY <1>1, <1>5, <1>6 DEF Sound
<1> QED
  BY <1>4, <1>7 DEF b

\* Init has no clock but Zero and the threads' own entries.
LEMMA InitClocks ==
  ASSUME NEW G, Lattice(G), Init,
         \A t \in Tid : Creator[t] = NoTid => Raised(Zero, t, 1) \in G
  PROVE  ClocksIn(G)
<1>1. /\ thr = [t \in Tid |-> FirstThread(t, IF Creator[t] = NoTid THEN "running" ELSE "invalid")]
      /\ ctx = [sfence |-> Zero, swrite |-> Zero]
      /\ loc = [x \in Loc |-> [sync |-> Reset, buf |-> EmptyBuffer]]
      /\ mutex = [clk |-> Zero, holder |-> NoTid]
  BY DEF Init, InitWith
<1>2. Zero \in G /\ Zero \in Clock
  BY ClockFacts DEF Lattice
<1>3. ASSUME NEW t \in Tid
      PROVE  /\ thr[t] \in ThreadStates(G) /\ thr[t].tid = t
             /\ thr[t].status # "invalid" => thr[t].clock \in G
  <2> DEFINE s == IF Creator[t] = NoTid THEN "running" ELSE "invalid"
  <2>1. thr[t] = FirstThread(t, s) /\ s \in Statuses /\ (s # "invalid" <=> Creator[t] = NoTid)
    BY <1>1 DEF Statuses
  <2> HIDE DEF s
  <2> QED
    BY <2>1, FirstThreadFacts
<1>4. thr \in [Tid -> ThreadStates(G)]
  <2>1. thr = [t \in Tid |-> thr[t]]
    BY <1>1
  <2> QED
    BY <1>3, <2>1
<1>5. Reset \in SyncClocks(G)
  BY ReleaseStoreIn, MainAssumption, <1>2
<1>6. EmptyBuffer \in Buffers(G) /\ Sound(EmptyBuffer)
  BY EmptyBufferFacts
<1>7. LocationsIn(G)
  BY <1>1, <1>5, <1>6 DEF LocationsIn, SyncVars
<1> QED
  BY <1>1, <1>2, <1>3, <1>4, <1>7 DEF ClocksIn, ThreadsIn, MutexIn

\* Every clock is a clock, in every reachable state.
THEOREM ClocksTyped == Spec => []ClocksIn(Clock)
<1>1. Init => ClocksIn(Clock)
  BY InitClocks, ClockLattice, ClockFacts, RaisedType
<1>2. ClocksIn(Clock) /\ [Next]_vars => ClocksIn(Clock)'
  <2> SUFFICES ASSUME ClocksIn(Clock), [Next]_vars PROVE ClocksIn(Clock)'
    OBVIOUS
  <2>1. CASE UNCHANGED vars
    BY <2>1, StutterKeeps DEF vars
  <2>2. CASE Next
    <3>1. PICK t \in Running : StepOf(t)
      BY <2>2, StepCases
    <3>2. /\ t \in Tid /\ thr[t].clock \in Clock
          /\ thr[t].epoch \in Nat /\ thr[t].epoch + 1 \in Nat
      BY ClockLattice, RunningParts, ThreadParts
    <3>3. Raised(thr[t].clock, t, thr[t].epoch + 1) \in Clock
      BY <3>2, RaisedType
    <3>4. ASSUME NEW x \in Loc, NEW mo, NEW p, LoadAt(t, x, mo, p) PROVE ClocksIn(Clock)'
      BY <3>2, <3>4, LoadStep, AcquiredType, ClockLattice
    <3>5. ASSUME NEW x \in Loc, NEW mo, Store(t, x, mo) PROVE ClocksIn(Clock)'
      BY <3>2, <3>5, StoreStep, AcquiredType, ClockLattice
    <3>6. ASSUME NEW x \in Loc, NEW mo, NEW keep \in BOOLEAN, Rmw(t, x, mo, keep)
          PROVE  ClocksIn(Clock)'
      BY <3>2, <3>6, RmwStep, AcquiredType, ClockLattice
    <3>7. ASSUME NEW x \in Loc, CasRelaxed(t, x) PROVE ClocksIn(Clock)'
      BY <3>7, CasRelaxedStep, ClockLattice
    <3>8. ASSUME NEW x \in Loc, NEW fmo, CasFail(t, x, fmo) PROVE ClocksIn(Clock)'
      <4>1. thr'[t].clock \in Clock
        BY <3>2, <3>8, CasFailStep, AcquiredType, ClockLattice
      <4> QED
        BY <3>8, <4>1, CasFailStep, ClockLattice
    <3>9. ASSUME NEW mo, Fence(t, mo) PROVE ClocksIn(Clock)'
      BY <3>2, <3>3, <3>9, FenceStep, AcquiredType, ClockLattice
    <3>10. ASSUME Lock(t) PROVE ClocksIn(Clock)'
      BY <3>2, <3>10, LockStep, AcquiredType, ClockLattice
    <3>11. ASSUME Unlock(t) PROVE ClocksIn(Clock)'
      BY <3>3, <3>11, UnlockStep, ClockLattice
    <3>12. ASSUME Finish(t) PROVE ClocksIn(Clock)'
      BY <3>3, <3>12, FinishStep, ClockLattice
    <3>13. ASSUME NEW u \in Tid, Create(t, u) PROVE ClocksIn(Clock)'
      <4>1. /\ thr'[t].clock \in Clock
            /\ thr'[u].clock = Join(Raised(Raised(Zero, u, 1), u, 1), thr'[t].clock)
        BY <3>3, <3>13, CreateStep, ClockLattice
      <4>2. Raised(Raised(Zero, u, 1), u, 1) \in Clock
        BY RaisedType, ClockFacts
      <4>3. thr'[u].clock \in Clock
        BY <4>1, <4>2, ClockFacts
      <4> QED
        BY <3>13, <4>1, <4>3, CreateStep, ClockLattice
    <3>14. ASSUME NEW u \in Tid, ThreadJoin(t, u) PROVE ClocksIn(Clock)'
      BY <3>2, <3>14, JoinStep, AcquiredType, ClockLattice
    <3> QED
      BY <3>1, <3>4, <3>5, <3>6, <3>7, <3>8, <3>9, <3>10, <3>11, <3>12, <3>13, <3>14
         DEF StepOf
  <2> QED
    BY <2>1, <2>2
<1> QED
  BY <1>1, <1>2, PTL DEF Spec

-----------------------------------------------------------------------------
(* The properties. *)

\* The size of a window.
LEMMA WindowSize ==
  ASSUME NEW G, NEW b \in Buffers(G), Sound(b)
  PROVE  /\ DOMAIN b.stores = (b.last + 1 - Cardinality(DOMAIN b.stores))..b.last
         /\ Cardinality(DOMAIN b.stores) <= kBuffMaxSize + 2
<1>1. PICK f \in Nat : Window(b, f)
  BY DEF Sound
<1>2. b.last \in Nat /\ kBuffMaxSize \in Nat
  BY BufferParts, BuffAssumption
<1>3. /\ f >= 1 /\ b.last <= f + kBuffMaxSize + 1
      /\ f <= b.last \/ (f = 1 /\ b.last = 0)
      /\ DOMAIN b.stores = f..b.last
  BY <1>1 DEF Window
<1>4. Cardinality(f..b.last) = IF f > b.last THEN 0 ELSE b.last - f + 1
  <2>1. f \in Int /\ b.last \in Int
    BY <1>2
  <2> QED
    BY <2>1, FS_Interval, Zenon
<1> DEFINE n == Cardinality(DOMAIN b.stores)
<1>5. n = IF f > b.last THEN 0 ELSE b.last - f + 1
  BY <1>3, <1>4
<1> HIDE DEF n
<1>6. b.last + 1 - n = f /\ n <= kBuffMaxSize + 2
  BY <1>2, <1>3, <1>5
<1>7. DOMAIN b.stores = (b.last + 1 - n)..b.last
  BY <1>3, <1>6
<1> QED
  BY <1>6, <1>7 DEF n

\* TypeOK: clocks stay clocks, and loads and stores stay in the window of
\* the buffer, through every handler.
THEOREM TypeCorrect == Spec => []TypeOK
<1>1. ClocksIn(Clock) => TypeOK
  <2> SUFFICES ASSUME ClocksIn(Clock) PROVE TypeOK
    OBVIOUS
  <2>1. ASSUME NEW t \in Tid
        PROVE  /\ thr[t].tid = t
               /\ thr[t].status \in {"invalid", "running", "finished", "dead"}
               /\ {thr[t].epoch, thr[t].lastRelease} \subseteq Nat
               /\ {thr[t].clock, thr[t].frel, thr[t].facq,
                   thr[t].slimit, thr[t].swrite, thr[t].sread} \subseteq Clock
    <3>1. thr[t] \in ThreadStates(Clock) /\ thr[t].tid = t
      BY DEF ClocksIn, ThreadsIn
    <3> QED
      BY <3>1, ThreadParts DEF Statuses
  <2>2. {ctx.sfence, ctx.swrite, mutex.clk} \subseteq Clock /\ mutex.holder \in Tid \cup {NoTid}
    BY DEF ClocksIn, MutexIn
  <2>3. ASSUME NEW x \in Loc, NEW b, b = loc[x].buf
        PROVE  /\ IsSyncClock(loc[x].sync)
               /\ b.last \in Nat
               /\ DOMAIN b.stores = (b.last + 1 - Cardinality(DOMAIN b.stores))..b.last
               /\ \A p \in DOMAIN b.stores :
                    /\ b.stores[p].data \in Clock
                    /\ b.stores[p].tid \in Tid /\ b.stores[p].sc \in BOOLEAN
               /\ b.pos \in [Tid -> 0..End(b)]
               /\ \A l \in b.loads : l.at \in DOMAIN b.stores \cup {End(b)}
    <3>1. b \in Buffers(Clock) /\ Sound(b) /\ loc[x].sync \in SyncClocks(Clock)
      BY <2>3 DEF ClocksIn, LocationsIn, SyncVars
    <3>2. IsSyncClock(loc[x].sync)
      <4>1. PICK S \in SUBSET Entry : loc[x].sync.vvc \in [S -> Clock]
        BY <3>1, SyncClocksParts DEF Vvcs
      <4>2. DOMAIN loc[x].sync.vvc = S
        BY <4>1
      <4> QED
        BY <3>1, <4>1, <4>2, SyncClocksParts, ClockLattice DEF IsSyncClock
    <3>3. b.pos \in [Tid -> 0..End(b)]
      <4>1. b.pos \in [Tid -> Nat] /\ \A t \in Tid : b.pos[t] <= End(b)
        BY <3>1, BufferParts DEF Sound
      <4>2. End(b) \in Nat
        BY <3>1, BufferParts
      <4>3. ASSUME NEW t \in Tid PROVE b.pos[t] \in 0..End(b)
        <5>1. b.pos[t] \in Nat /\ b.pos[t] <= End(b)
          BY <4>1
        <5> QED
          BY <4>2, <5>1
      <4> QED
        BY <4>1, <4>3
    <3>4. \A p \in DOMAIN b.stores :
            /\ b.stores[p].data \in Clock
            /\ b.stores[p].tid \in Tid /\ b.stores[p].sc \in BOOLEAN
      BY <3>1, BufferParts DEF StoreElems
    <3>5. b.last \in Nat /\ \A l \in b.loads : l.at \in DOMAIN b.stores \cup {End(b)}
      BY <3>1, BufferParts DEF Sound, Held
    <3> QED
      BY <3>1, <3>2, <3>3, <3>4, <3>5, WindowSize
  <2> QED
    BY <2>1, <2>2, <2>3 DEF TypeOK
<1> QED
  BY <1>1, ClocksTyped, PTL

\* BufferIsBounded: the test in BufferStore keeps a buffer at kBuffMaxSize + 2
\* stores, for any bound.
THEOREM BufferStaysBounded == Spec => []BufferIsBounded
<1>1. ClocksIn(Clock) => BufferIsBounded
  <2> SUFFICES ASSUME ClocksIn(Clock), NEW x \in Loc
               PROVE  Cardinality(DOMAIN loc[x].buf.stores) <= kBuffMaxSize + 2
    BY DEF BufferIsBounded
  <2>1. loc[x].buf \in Buffers(Clock) /\ Sound(loc[x].buf)
    BY DEF ClocksIn, LocationsIn, SyncVars
  <2> QED
    BY <2>1, WindowSize
<1> QED
  BY <1>1, ClocksTyped, PTL

\* MovingLoadsAreAttached: no eviction, commit or store leaves loads_ with a
\* load that is freed, or away from its thread's position.
THEOREM LoadsStayAttached == Spec => []MovingLoadsAreAttached
<1>1. ClocksIn(Clock) => MovingLoadsAreAttached
  <2> SUFFICES ASSUME ClocksIn(Clock), NEW x \in Loc, NEW t \in Tid, NEW b, b = loc[x].buf,
                      b.active[t] # NoLoad
               PROVE  ActiveLoad(b, t) \in b.loads /\ b.pos[t] = b.active[t].at
    BY DEF MovingLoadsAreAttached
  <2>1. Sound(b)
    BY DEF ClocksIn, LocationsIn
  <2> QED
    BY <2>1 DEF Sound, Attached
<1> QED
  BY <1>1, ClocksTyped, PTL
=============================================================================
