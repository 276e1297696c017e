------------------------- MODULE HandlerLocksProofs -------------------------
(***************************************************************************)
(* Proofs about module HandlerLocks: the mutexes do what they are for, and *)
(* the handlers implement AtomicHandlers, for any threads, locations and   *)
(* numbers of calls.                                                       *)
(***************************************************************************)
EXTENDS HandlerLocks, TLAPS

\* Where a handler is, and which operations come there.
Fits(p, o) ==
  \/ p = "idle" /\ o = NoOp
  \/ p \in {"lock", "unlock"} /\ o \in Operation
  \/ p \in {"sclock", "scunlock"} /\ o \in Operation \cup {ScFenceOp} /\ o.isSc
  \/ p = "scread" /\ o \in Operation /\ o.kind \in {"load", "rmw", "cas"} /\ o.isSc
  \/ p = "scread" /\ o \in Operation /\ o.kind = "casfail" /\ o.fsc
  \/ p = "scwrite" /\ o \in Operation /\ o.kind \in {"store", "rmw", "cas"} /\ o.isSc
  \/ p = "cas" /\ o \in Operation /\ o.kind \in {"cas", "casfail"}
  \/ p \in {"buffer", "clock"} /\ o \in Operation /\ o.kind \in {"store", "rmw", "cas"}
  \/ p = "memory" /\ o \in Operation /\ o.kind \in {"store", "rmw"}
  \/ p = "fetch" /\ o \in Operation /\ o.kind = "load"
  \/ p = "advance" /\ o \in Operation /\ o.kind = "casfail"
  \/ p \in {"scfence", "sccopy"} /\ o = ScFenceOp

Steps == {"idle", "lock", "unlock", "sclock", "scunlock", "scread", "scwrite", "cas",
          "buffer", "clock", "memory", "fetch", "advance", "scfence", "sccopy"}

ControlOK ==
  /\ pc \in [Tid -> Steps]
  /\ op \in [Tid -> Operation \cup {ScFenceOp, NoOp}]
  /\ lock \in [Loc -> Tid \cup {NoTid}]
  /\ smtx \in Tid \cup {NoTid}
  /\ \A t \in Tid : Fits(pc[t], op[t])

\* A mutex is held by the thread that is in the middle of what it is for.
LocksHeld ==
  /\ \A t \in Tid, x \in Loc : lock[x] = t <=> HoldsVar(t) /\ op[t].loc = x
  /\ \A t \in Tid : smtx = t <=> HoldsSc(t)

LockInv == ControlOK /\ LocksHeld

-----------------------------------------------------------------------------

\* The parts of an operation.
LEMMA OperationType ==
  ASSUME NEW o \in Operation
  PROVE  /\ o.kind \in {"load", "store", "rmw", "cas", "casfail"}
         /\ o.loc \in Loc /\ o.isSc \in BOOLEAN /\ o.fsc \in BOOLEAN
         /\ o.fsc => o.kind = "casfail"
         /\ o # NoOp /\ o # ScFenceOp
  <1>1. /\ o.kind \in {"load", "store", "rmw", "cas", "casfail"}
        /\ o.loc \in Loc /\ o.isSc \in BOOLEAN /\ o.fsc \in BOOLEAN
        /\ o.fsc => o.kind = "casfail"
    BY DEF Operation
  <1>2. NoOp.kind = "none" /\ ScFenceOp.kind = "fence" /\ ScFenceOp.isSc
    BY DEF NoOp, ScFenceOp
  <1> QED BY <1>1, <1>2

\* The fields of the two operations that are constants.
LEMMA FenceType == ScFenceOp.kind = "fence" /\ ScFenceOp.isSc = TRUE /\ NoOp.kind = "none"
  BY DEF ScFenceOp, NoOp

\* Where a handler goes once it has its mutexes.
LEMMA WorkFits ==
  ASSUME NEW o \in Operation \cup {ScFenceOp}
  PROVE  /\ Fits(Work(o), o)
         /\ Work(o) \in {"scread", "fetch", "scwrite", "buffer", "cas", "scfence"}
  <1>1. CASE o = ScFenceOp
    BY <1>1, FenceType DEF Work, Fits
  <1>2. CASE o \in Operation
    <2>1. /\ o.kind \in {"load", "store", "rmw", "cas", "casfail"}
          /\ o.isSc \in BOOLEAN
      BY <1>2, OperationType
    <2>2. CASE o.kind = "load"  BY <1>2, <2>1, <2>2 DEF Work, Fits
    <2>3. CASE o.kind = "store"  BY <1>2, <2>1, <2>3 DEF Work, Fits
    <2>4. CASE o.kind = "rmw"  BY <1>2, <2>1, <2>4 DEF Work, Fits
    <2>5. CASE o.kind \in {"cas", "casfail"}  BY <1>2, <2>1, <2>5 DEF Work, Fits
    <2> QED BY <2>1, <2>2, <2>3, <2>4, <2>5
  <1> QED BY <1>1, <1>2

\* Where SCRead leads, the operation may be.
LEMMA AfterReadFits ==
  ASSUME NEW o, Fits("scread", o)
  PROVE  /\ Fits(AfterRead(o), o)
         /\ AfterRead(o) \in {"fetch", "advance", "scwrite"}
  BY OperationType DEF Fits, AfterRead

\* Where the last access leads, the operation may be.
LEMMA LeaveFits ==
  ASSUME NEW o \in Operation
  PROVE  Fits(Leave(o), o) /\ (Leave(o) = IF o.isSc THEN "scunlock" ELSE "unlock")
  BY OperationType DEF Fits, Leave

\* The steps between those that take and release the mutexes.
Inside(p, o) == p \notin {"idle", "lock", "sclock"} /\ (p = "unlock" => ~o.isSc)

\* Such a step keeps what the mutexes are for.
LEMMA InsideMoves ==
  ASSUME LockInv, NEW t \in Tid, NEW l \in Steps,
         Inside(pc[t], op[t]), Inside(l, op[t]), Fits(l, op[t]),
         Go(t, l), UNCHANGED <<op, lock, smtx>>
  PROVE  LockInv'
  <1>1. /\ pc' \in [Tid -> Steps] /\ pc'[t] = l
        /\ \A u \in Tid : u # t => pc'[u] = pc[u]
    BY DEF LockInv, ControlOK, Go
  <1>2. ControlOK'
    <2>1. \A u \in Tid : Fits(pc'[u], op'[u])
      BY <1>1 DEF LockInv, ControlOK
    <2> QED BY <1>1, <2>1 DEF LockInv, ControlOK
  <1>3. \A u \in Tid : HoldsVar(u)' <=> HoldsVar(u)
    BY <1>1 DEF Inside, HoldsVar
  <1>4. \A u \in Tid : HoldsSc(u)' <=> HoldsSc(u)
    BY <1>1 DEF Inside, HoldsSc
  <1>5. LocksHeld'
    BY <1>3, <1>4 DEF LockInv, LocksHeld
  <1> QED BY <1>2, <1>5 DEF LockInv

\* A call takes no mutex yet.
LEMMA CallKeepsLocks ==
  ASSUME LockInv, NEW t \in Tid, NEW o \in Operation \cup {ScFenceOp}, Call(t, o)
  PROVE  LockInv'
  <1> DEFINE l == IF o.kind = "fence" THEN "sclock" ELSE "lock"
  <1>1. /\ pc' \in [Tid -> Steps] /\ pc'[t] = l
        /\ \A u \in Tid : u # t => pc'[u] = pc[u]
    BY DEF LockInv, ControlOK, Go, Call, Steps
  <1>2. /\ op' \in [Tid -> Operation \cup {ScFenceOp, NoOp}] /\ op'[t] = o
        /\ \A u \in Tid : u # t => op'[u] = op[u]
    BY DEF LockInv, ControlOK, Call
  <1>3. Fits(l, o)
    BY FenceType, OperationType DEF Fits
  <1>4. ControlOK'
    <2>1. \A u \in Tid : Fits(pc'[u], op'[u])
      BY <1>1, <1>2, <1>3 DEF LockInv, ControlOK
    <2> QED BY <1>1, <1>2, <2>1 DEF LockInv, ControlOK, Call
  <1>5. ~HoldsVar(t) /\ ~HoldsSc(t) /\ ~HoldsVar(t)' /\ ~HoldsSc(t)'
    BY <1>1, <1>2 DEF Call, HoldsVar, HoldsSc
  <1>6. \A u \in Tid : u # t => (HoldsVar(u)' <=> HoldsVar(u)) /\ (HoldsSc(u)' <=> HoldsSc(u))
    BY <1>1, <1>2 DEF HoldsVar, HoldsSc
  <1>7. UNCHANGED <<lock, smtx>>
    BY DEF Call
  <1>8. LocksHeld'
    BY <1>2, <1>5, <1>6, <1>7 DEF LockInv, LocksHeld
  <1> QED BY <1>4, <1>8 DEF LockInv

\* GetOrCreateAndLock and Smtx.Lock() take a mutex that is free.
LEMMA LockVarKeepsLocks ==
  ASSUME LockInv, NEW t \in Tid, LockVar(t)
  PROVE  LockInv'
  <1> DEFINE o == op[t]
             l == IF o.isSc THEN "sclock" ELSE Work(o)
  <1>1. o \in Operation
    BY OperationType DEF LockInv, ControlOK, Fits, LockVar
  <1>2. o.loc \in Loc /\ o.isSc \in BOOLEAN /\ o.kind # "fence"
    BY <1>1, OperationType
  <1>3. Fits(l, o) /\ l \in Steps /\ l \notin {"idle", "lock"}
        /\ (o.isSc => l = "sclock") /\ lock[o.loc] = NoTid
    BY <1>1, <1>2, WorkFits DEF Fits, Steps, LockVar
  <1>4. /\ pc' = [pc EXCEPT ![t] = l] /\ UNCHANGED <<op, smtx>>
        /\ lock' = [lock EXCEPT ![o.loc] = t] /\ pc[t] = "lock"
    BY DEF LockVar, Go, locals
  <1> HIDE DEF l
  <1>5. /\ pc' \in [Tid -> Steps] /\ pc'[t] = l
        /\ \A u \in Tid : u # t => pc'[u] = pc[u]
    BY <1>3, <1>4 DEF LockInv, ControlOK
  <1>6. /\ lock' \in [Loc -> Tid \cup {NoTid}] /\ lock'[o.loc] = t
        /\ \A x \in Loc : x # o.loc => lock'[x] = lock[x]
    BY <1>2, <1>4 DEF LockInv, ControlOK
  <1>7. ControlOK'
    <2>1. \A u \in Tid : Fits(pc'[u], op'[u])
      BY <1>3, <1>4, <1>5 DEF LockInv, ControlOK
    <2> QED BY <1>4, <1>5, <1>6, <2>1 DEF LockInv, ControlOK
  <1>8. /\ HoldsVar(t)' /\ ~HoldsVar(t) /\ ~HoldsSc(t) /\ ~HoldsSc(t)'
    BY <1>2, <1>3, <1>4, <1>5 DEF HoldsVar, HoldsSc
  <1>9. \A u \in Tid : u # t => (HoldsVar(u)' <=> HoldsVar(u)) /\ (HoldsSc(u)' <=> HoldsSc(u))
    BY <1>4, <1>5 DEF HoldsVar, HoldsSc
  <1>10. LocksHeld'
    <2>1. ASSUME NEW u \in Tid, NEW x \in Loc
          PROVE  lock'[x] = u <=> HoldsVar(u)' /\ op'[u].loc = x
      <3>1. CASE u = t
        BY <1>2, <1>4, <1>6, <1>8, <3>1 DEF LockInv, LocksHeld
      <3>2. CASE u # t /\ x = o.loc
        <4>1. lock[x] # u
          BY <1>3, <3>2, NoTidAssumption
        <4> QED BY <1>4, <1>6, <1>9, <3>2, <4>1 DEF LockInv, LocksHeld
      <3>3. CASE u # t /\ x # o.loc
        BY <1>4, <1>6, <1>9, <3>3 DEF LockInv, LocksHeld
      <3> QED BY <3>1, <3>2, <3>3
    <2>2. \A u \in Tid : smtx' = u <=> HoldsSc(u)'
      BY <1>4, <1>8, <1>9 DEF LockInv, LocksHeld
    <2> QED BY <2>1, <2>2 DEF LocksHeld
  <1> QED BY <1>7, <1>10 DEF LockInv

\* Smtx is taken when nobody holds it.
LEMMA LockScKeepsLocks ==
  ASSUME LockInv, NEW t \in Tid, LockSc(t)
  PROVE  LockInv'
  <1> DEFINE o == op[t]
             l == Work(o)
  <1>1. o \in Operation \cup {ScFenceOp} /\ o.isSc
    BY DEF LockInv, ControlOK, Fits, LockSc
  <1>2. Fits(l, o) /\ l \in Steps /\ l \notin {"idle", "lock", "sclock", "unlock"}
    BY <1>1, WorkFits DEF Steps
  <1>3. /\ pc' = [pc EXCEPT ![t] = l] /\ UNCHANGED <<op, lock>>
        /\ smtx' = t /\ smtx = NoTid /\ pc[t] = "sclock"
    BY DEF LockSc, Go, locals
  <1> HIDE DEF l
  <1>4. /\ pc' \in [Tid -> Steps] /\ pc'[t] = l
        /\ \A u \in Tid : u # t => pc'[u] = pc[u]
    BY <1>2, <1>3 DEF LockInv, ControlOK
  <1>5. ControlOK'
    <2>1. \A u \in Tid : Fits(pc'[u], op'[u])
      BY <1>2, <1>3, <1>4 DEF LockInv, ControlOK
    <2> QED BY <1>3, <1>4, <2>1 DEF LockInv, ControlOK
  <1>6. /\ HoldsVar(t)' <=> HoldsVar(t)
        /\ HoldsSc(t)' /\ ~HoldsSc(t)
    BY <1>1, <1>2, <1>3, <1>4 DEF HoldsVar, HoldsSc
  <1>7. \A u \in Tid : u # t => (HoldsVar(u)' <=> HoldsVar(u)) /\ (HoldsSc(u)' <=> HoldsSc(u))
    BY <1>3, <1>4 DEF HoldsVar, HoldsSc
  <1>8. \A u \in Tid : ~HoldsSc(u)
    BY <1>3, NoTidAssumption DEF LockInv, LocksHeld
  <1>9. LocksHeld'
    BY <1>3, <1>6, <1>7, <1>8 DEF LockInv, LocksHeld
  <1> QED BY <1>5, <1>9 DEF LockInv

\* The mutex of a location is given back by its holder.
LEMMA UnlockVarKeepsLocks ==
  ASSUME LockInv, NEW t \in Tid, UnlockVar(t)
  PROVE  LockInv'
  <1> DEFINE o == op[t]
  <1>1. o \in Operation /\ o.loc \in Loc /\ o.kind # "fence"
    BY OperationType DEF LockInv, ControlOK, Fits, UnlockVar
  <1>2. /\ pc' = [pc EXCEPT ![t] = "idle"] /\ op' = [op EXCEPT ![t] = NoOp] /\ UNCHANGED smtx
        /\ lock' = [lock EXCEPT ![o.loc] = NoTid] /\ pc[t] = "unlock"
    BY DEF UnlockVar, Return, Go
  <1>3. /\ pc' \in [Tid -> Steps] /\ pc'[t] = "idle"
        /\ op' \in [Tid -> Operation \cup {ScFenceOp, NoOp}] /\ op'[t] = NoOp
        /\ \A u \in Tid : u # t => pc'[u] = pc[u] /\ op'[u] = op[u]
    BY <1>2 DEF LockInv, ControlOK, Steps
  <1>4. /\ lock' \in [Loc -> Tid \cup {NoTid}] /\ lock'[o.loc] = NoTid
        /\ \A x \in Loc : x # o.loc => lock'[x] = lock[x]
    BY <1>1, <1>2 DEF LockInv, ControlOK
  <1>5. ControlOK'
    <2>1. \A u \in Tid : Fits(pc'[u], op'[u])
      BY <1>3 DEF LockInv, ControlOK, Fits
    <2> QED BY <1>2, <1>3, <1>4, <2>1 DEF LockInv, ControlOK
  <1>6. HoldsVar(t) /\ ~HoldsVar(t)' /\ ~HoldsSc(t) /\ ~HoldsSc(t)'
    BY <1>1, <1>2, <1>3 DEF HoldsVar, HoldsSc
  <1>7. \A u \in Tid : u # t => (HoldsVar(u)' <=> HoldsVar(u)) /\ (HoldsSc(u)' <=> HoldsSc(u))
    BY <1>3 DEF HoldsVar, HoldsSc
  <1>8. lock[o.loc] = t
    BY <1>1, <1>6 DEF LockInv, LocksHeld
  <1>9. LocksHeld'
    <2>1. ASSUME NEW u \in Tid, NEW x \in Loc
          PROVE  lock'[x] = u <=> HoldsVar(u)' /\ op'[u].loc = x
      <3>1. CASE u = t
        <4>1. x # o.loc => lock[x] # t
          BY <1>1, <1>6 DEF LockInv, LocksHeld
        <4> QED BY <1>4, <1>6, <3>1, <4>1, NoTidAssumption
      <3>2. CASE u # t /\ x = o.loc
        <4>1. ~(HoldsVar(u) /\ op[u].loc = x)
          BY <1>8, <3>2 DEF LockInv, LocksHeld
        <4> QED BY <1>3, <1>4, <1>7, <3>2, <4>1, NoTidAssumption
      <3>3. CASE u # t /\ x # o.loc
        BY <1>3, <1>4, <1>7, <3>3 DEF LockInv, LocksHeld
      <3> QED BY <3>1, <3>2, <3>3
    <2>2. \A u \in Tid : smtx' = u <=> HoldsSc(u)'
      BY <1>2, <1>6, <1>7 DEF LockInv, LocksHeld
    <2> QED BY <2>1, <2>2 DEF LocksHeld
  <1> QED BY <1>5, <1>9 DEF LockInv

\* Smtx is given back by its holder.
LEMMA UnlockScKeepsLocks ==
  ASSUME LockInv, NEW t \in Tid, UnlockSc(t)
  PROVE  LockInv'
  <1> DEFINE o == op[t]
             l == IF o.kind = "fence" THEN "idle" ELSE "unlock"
             p == IF o.kind = "fence" THEN NoOp ELSE o
  <1>1. o \in Operation \cup {ScFenceOp} /\ o.isSc
    BY DEF LockInv, ControlOK, Fits, UnlockSc
  <1>2. /\ pc' = [pc EXCEPT ![t] = l] /\ UNCHANGED lock
        /\ smtx' = NoTid /\ pc[t] = "scunlock"
    BY DEF UnlockSc, Return, Go
  <1>3. op' = [op EXCEPT ![t] = p]
    BY DEF UnlockSc, Return, locals, LockInv, ControlOK
  <1>4. Fits(l, p) /\ l \in Steps /\ p \in Operation \cup {NoOp}
    BY <1>1, OperationType, FenceType DEF Fits, Steps
  <1>5. /\ pc' \in [Tid -> Steps] /\ pc'[t] = l
        /\ op' \in [Tid -> Operation \cup {ScFenceOp, NoOp}] /\ op'[t] = p
        /\ \A u \in Tid : u # t => pc'[u] = pc[u] /\ op'[u] = op[u]
    <2> HIDE DEF l, p
    <2> QED BY <1>2, <1>3, <1>4 DEF LockInv, ControlOK
  <1>6. ControlOK'
    <2> HIDE DEF l, p
    <2>1. \A u \in Tid : Fits(pc'[u], op'[u])
      BY <1>4, <1>5 DEF LockInv, ControlOK
    <2> QED BY <1>2, <1>5, <2>1 DEF LockInv, ControlOK
  <1>7. HoldsSc(t) /\ ~HoldsSc(t)'
    BY <1>1, <1>2, <1>5 DEF HoldsSc
  <1>8. (HoldsVar(t)' <=> HoldsVar(t)) /\ (HoldsVar(t) => op'[t] = op[t])
    BY <1>1, <1>2, <1>5 DEF HoldsVar
  <1>9. \A u \in Tid : u # t => (HoldsVar(u)' <=> HoldsVar(u)) /\ (HoldsSc(u)' <=> HoldsSc(u))
    BY <1>5 DEF HoldsVar, HoldsSc
  <1>10. \A u \in Tid : ~HoldsSc(u)'
    <2>1. smtx = t
      BY <1>7 DEF LockInv, LocksHeld
    <2> QED BY <1>7, <1>9, <2>1 DEF LockInv, LocksHeld
  <1>11. LocksHeld'
    <2>1. \A u \in Tid, x \in Loc : lock'[x] = u <=> HoldsVar(u)' /\ op'[u].loc = x
      BY <1>2, <1>5, <1>8, <1>9 DEF LockInv, LocksHeld
    <2>2. \A u \in Tid : smtx' = u <=> HoldsSc(u)'
      BY <1>2, <1>10, NoTidAssumption
    <2> QED BY <2>1, <2>2 DEF LocksHeld
  <1> QED BY <1>6, <1>11 DEF LockInv

\* The steps under the mutexes.
Access(t) ==
  \/ ScRead(t) \/ ScWrite(t) \/ Cas(t) \/ Buffer(t) \/ SyncClock(t)
  \/ Memory(t) \/ Fetch(t) \/ Advance(t) \/ ScFence(t) \/ ScCopy(t)

\* The accesses between take and give back no mutex.
LEMMA AccessKeepsLocks ==
  ASSUME LockInv, NEW t \in Tid, Access(t)
  PROVE  LockInv'
  <1> DEFINE o == op[t]
  <1>1. Fits(pc[t], o) /\ UNCHANGED <<op, lock, smtx>>
    <2>1. Fits(pc[t], o)
      BY DEF LockInv, ControlOK
    <2>2. UNCHANGED <<op, lock, smtx>>
      BY DEF Access, ScRead, ScWrite, Cas, Buffer, SyncClock, Memory, Fetch, Advance,
             ScFence, ScCopy, locals
    <2> QED BY <2>1, <2>2
  <1>2. ASSUME NEW l \in Steps, Fits(l, o), Inside(pc[t], o), Inside(l, o), Go(t, l)
        PROVE  LockInv'
    BY <1>1, <1>2, InsideMoves
  <1>3. ASSUME o \in Operation,
               pc[t] \in {"scread", "scwrite", "cas", "buffer", "clock", "memory", "fetch", "advance"},
               Go(t, Leave(o))
        PROVE  LockInv'
    <2>1. Leave(o) \in Steps /\ Fits(Leave(o), o) /\ Inside(Leave(o), o)
      BY <1>3, LeaveFits DEF Steps, Inside
    <2> QED BY <1>2, <1>3, <2>1 DEF Inside
  <1>4. CASE ScRead(t)
    <2>1. Fits("scread", o)
      BY <1>1, <1>4 DEF ScRead
    <2>2. PICK l \in {AfterRead(o), "scread"} : Go(t, l)
      BY <1>4 DEF ScRead
    <2>3. l \in Steps /\ Fits(l, o) /\ l \in {"scread", "fetch", "advance", "scwrite"}
      BY <2>1, <2>2, AfterReadFits DEF Steps
    <2> QED BY <1>2, <1>4, <2>2, <2>3 DEF ScRead, Inside
  <1>5. CASE ScWrite(t)
    <2>1. Fits("buffer", o)
      BY <1>1, <1>5 DEF ScWrite, Fits
    <2> QED BY <1>2, <1>5, <2>1 DEF ScWrite, Inside, Steps
  <1>6. CASE Cas(t)
    <2>1. o \in Operation /\ o.kind \in {"cas", "casfail"} /\ pc[t] = "cas"
      BY <1>1, <1>6 DEF Cas, Fits
    <2>2. PICK l \in {"scread", "buffer", "advance"} : Go(t, l) /\ Fits(l, o)
      BY <1>6, <2>1, OperationType DEF Cas, Fits
    <2> QED BY <1>2, <2>1, <2>2 DEF Inside, Steps
  <1>7. CASE Buffer(t)
    <2>1. Fits("clock", o)
      BY <1>1, <1>7 DEF Buffer, Fits
    <2> QED BY <1>2, <1>7, <2>1 DEF Buffer, Inside, Steps
  <1>8. CASE SyncClock(t)
    <2>1. pc[t] = "clock" /\ o \in Operation /\ o.kind \in {"store", "rmw", "cas"}
      BY <1>1, <1>8 DEF SyncClock, Fits
    <2>2. CASE o.kind = "cas"
      BY <1>3, <1>8, <2>1, <2>2 DEF SyncClock
    <2>3. CASE o.kind # "cas"
      <3>1. Fits("memory", o)
        BY <2>1, <2>3 DEF Fits
      <3> QED BY <1>2, <1>8, <2>1, <2>3, <3>1 DEF SyncClock, Inside, Steps
    <2> QED BY <2>2, <2>3
  <1>9. CASE Memory(t)
    BY <1>1, <1>3, <1>9 DEF Memory, Fits
  <1>10. CASE Fetch(t)
    BY <1>1, <1>3, <1>10 DEF Fetch, Fits
  <1>11. CASE Advance(t)
    BY <1>1, <1>3, <1>11 DEF Advance, Fits
  <1>12. CASE ScFence(t)
    <2>1. Fits("sccopy", o)
      BY <1>1, <1>12 DEF ScFence, Fits
    <2> QED BY <1>2, <1>12, <2>1 DEF ScFence, Inside, Steps
  <1>13. CASE ScCopy(t)
    <2>1. Fits("scunlock", o)
      BY <1>1, <1>13, FenceType DEF ScCopy, Fits
    <2> QED BY <1>2, <1>13, <2>1 DEF ScCopy, Inside, Steps
  <1> QED BY <1>4, <1>5, <1>6, <1>7, <1>8, <1>9, <1>10, <1>11, <1>12, <1>13 DEF Access

\* At first nobody holds a mutex.
LEMMA InitLocks == Init => LockInv
  <1> SUFFICES ASSUME Init PROVE LockInv
    OBVIOUS
  <1>1. ControlOK
    BY DEF Init, ControlOK, Steps, Fits
  <1>2. \A t \in Tid : ~HoldsVar(t) /\ ~HoldsSc(t)
    BY DEF Init, HoldsVar, HoldsSc
  <1>3. LocksHeld
    BY <1>2, NoTidAssumption DEF Init, LocksHeld
  <1> QED BY <1>1, <1>3 DEF LockInv

\* Every step keeps what the mutexes are for.
LEMMA NextKeepsLocks == LockInv /\ [Next]_vars => LockInv'
  <1> SUFFICES ASSUME LockInv, [Next]_vars PROVE LockInv'
    OBVIOUS
  <1>1. CASE UNCHANGED vars
    BY <1>1 DEF vars, locals, LockInv, ControlOK, LocksHeld, HoldsVar, HoldsSc
  <1>2. ASSUME NEW t \in Tid, NEW o \in Operation \cup {ScFenceOp}, Call(t, o)
        PROVE  LockInv'
    BY <1>2, CallKeepsLocks
  <1>3. ASSUME NEW t \in Tid, Step(t)
        PROVE  LockInv'
    BY <1>3, LockVarKeepsLocks, LockScKeepsLocks, AccessKeepsLocks, UnlockScKeepsLocks,
       UnlockVarKeepsLocks DEF Step, Access
  <1> QED BY <1>1, <1>2, <1>3 DEF Next

\* A mutex has one holder, the thread inside its section, in every reachable state.
LEMMA LocksInvariant == Spec => []LockInv
  BY InitLocks, NextKeepsLocks, PTL DEF Spec

\* SCFence, SCWrite and SCRead are called under Smtx, but for the SCRead of a CAS
\* whose failure order alone is seq_cst.
THEOREM SmtxIsHeld == Spec => []ScMutexHeld
  <1>1. LockInv => ScMutexHeld
    <2> SUFFICES ASSUME LockInv, NEW t \in Tid,
                        pc[t] \in {"scfence", "sccopy", "scwrite", "scread"}
                 PROVE  smtx = t \/ (op[t].kind = "casfail" /\ ~op[t].isSc)
      BY DEF ScMutexHeld
    <2>1. op[t].isSc \/ op[t].kind = "casfail"
      BY FenceType DEF LockInv, ControlOK, Fits
    <2> QED BY <2>1 DEF LockInv, LocksHeld, HoldsSc
  <1> QED BY <1>1, LocksInvariant, PTL

\* No two handlers are inside the same SyncVar, and no two seq_cst ones inside the
\* context, at once.
THEOREM MutexesExclude == Spec => []HandlersExclude
  <1>1. LockInv => HandlersExclude
    <2> SUFFICES ASSUME LockInv, NEW t \in Tid, NEW u \in Tid, t # u
                 PROVE  /\ HoldsVar(t) /\ HoldsVar(u) => op[t].loc # op[u].loc
                        /\ ~(HoldsSc(t) /\ HoldsSc(u))
      BY DEF HandlersExclude
    <2>1. HoldsVar(t) => op[t].loc \in Loc
      BY OperationType, FenceType DEF LockInv, ControlOK, Fits, HoldsVar
    <2> QED BY <2>1 DEF LockInv, LocksHeld
  <1> QED BY <1>1, LocksInvariant, PTL

-----------------------------------------------------------------------------

\* What the mutexes protect. A location at rest has its latest store in memory and
\* in the SyncVar, and the earlier ones in the buffer.
Settled(x) == mem[x] = Len(buf[x]) + 1 /\ clk[x] = Len(buf[x]) + 1

\* What a handler finds in its own location from one step to the next.
DataAt(t) ==
  LET x == op[t].loc
      n == Len(buf[x]) IN
  IF op[t].kind = "cas" /\ pc[t] \in {"scread", "scwrite", "buffer"}
  THEN mem[x] = n + 2 /\ clk[x] = n + 1 /\ seen[t].val = n + 1
  ELSE IF pc[t] = "clock"
  THEN /\ clk[x] = n
       /\ IF op[t].kind = "cas" THEN mem[x] = n + 1 /\ seen[t].val = n ELSE mem[x] = n
  ELSE IF pc[t] = "memory"
  THEN mem[x] = n /\ clk[x] = n + 1 /\ seen[t].clk = n
  ELSE /\ Settled(x)
       /\ op[t].kind = "casfail" /\ pc[t] \in {"scread", "advance"} => seen[t].val = n + 1

\* SCRead under Smtx copies the Sfence of one moment.
CopyAt(t) ==
  /\ pc[t] \in {"lock", "sclock", "cas"} => left[t] = Tid
  /\ pc[t] = "scread" /\ op[t].isSc => \A u \in Tid \ left[t] : copy[t][u] = sfence[u]
  /\ /\ pc[t] \in {"fetch", "scwrite", "buffer", "clock", "memory"}
     /\ op[t].isSc /\ op[t].kind \in {"load", "rmw", "cas"}
     => copy[t] = sfence
  /\ pc[t] = "advance" /\ op[t].isSc /\ op[t].fsc => copy[t] = sfence

StoreRecord == [val : Nat, clk : Nat]

DataTypes ==
  /\ mem \in [Loc -> Nat] /\ clk \in [Loc -> Nat]
  /\ buf \in [Loc -> Seq(StoreRecord)]
  /\ sfence \in Clock /\ swrite \in Clock
  /\ left \in [Tid -> SUBSET Tid] /\ copy \in [Tid -> Clock] /\ seen \in [Tid -> StoreRecord]

\* Each earlier store is in the buffer, with its own clock.
Buffered(x) == \A p \in 1..Len(buf[x]) : buf[x][p] = [val |-> p, clk |-> p]

DataInv ==
  /\ \A x \in Loc : lock[x] = NoTid => Settled(x)
  /\ \A t \in Tid : HoldsVar(t) => DataAt(t)
  /\ \A x \in Loc : Buffered(x)
  /\ \A t \in Tid : CopyAt(t)

IInv == LockInv /\ DataTypes /\ DataInv

\* What the invariant says of the thread that takes a step.
LEMMA TypesHere ==
  ASSUME IInv, NEW t \in Tid
  PROVE  /\ pc[t] \in Steps /\ Fits(pc[t], op[t])
         /\ left[t] \in SUBSET Tid /\ copy[t] \in Clock /\ seen[t] \in StoreRecord
         /\ seen[t].val \in Nat /\ seen[t].clk \in Nat
         /\ CopyAt(t) /\ (HoldsVar(t) => DataAt(t) /\ op[t] \in Operation /\ op[t].loc \in Loc)
  <1>1. HoldsVar(t) => op[t] \in Operation
    BY FenceType DEF IInv, LockInv, ControlOK, Fits, HoldsVar
  <1> QED BY <1>1, OperationType DEF IInv, LockInv, ControlOK, DataTypes, DataInv, StoreRecord

\* What it says of a location.
LEMMA TypesThere ==
  ASSUME IInv, NEW x \in Loc
  PROVE  /\ mem[x] \in Nat /\ clk[x] \in Nat
         /\ buf[x] \in Seq(StoreRecord) /\ Len(buf[x]) \in Nat
  BY DEF IInv, DataTypes

\* A step of t is the others' business only in what t holds no mutex of.
Frame(t) ==
  /\ \A u \in Tid : u # t =>
       /\ pc'[u] = pc[u] /\ op'[u] = op[u] /\ left'[u] = left[u]
       /\ copy'[u] = copy[u] /\ seen'[u] = seen[u]
  /\ \A x \in Loc : \/ HoldsVar(t) /\ op[t].loc = x
                    \/ mem'[x] = mem[x] /\ clk'[x] = clk[x] /\ buf'[x] = buf[x]
  /\ HoldsSc(t) \/ sfence' = sfence

\* The other threads find their data as they left it.
LEMMA OthersKeep ==
  ASSUME IInv, NEW t \in Tid, Frame(t), NEW u \in Tid, u # t
  PROVE  (HoldsVar(u)' => DataAt(u)') /\ CopyAt(u)'
  <1>1. /\ pc'[u] = pc[u] /\ op'[u] = op[u] /\ left'[u] = left[u]
        /\ copy'[u] = copy[u] /\ seen'[u] = seen[u]
    BY DEF Frame
  <1>2. HoldsVar(u)' => DataAt(u)'
    <2> SUFFICES ASSUME HoldsVar(u)' PROVE DataAt(u)'
      OBVIOUS
    <2>1. HoldsVar(u)
      BY <1>1 DEF HoldsVar
    <2>2. DataAt(u) /\ op[u].loc \in Loc
      BY <2>1, TypesHere
    <2>3. lock[op[u].loc] = u
      BY <2>1, <2>2 DEF IInv, LockInv, LocksHeld
    <2>4. ~(HoldsVar(t) /\ op[t].loc = op[u].loc)
      BY <2>2, <2>3 DEF IInv, LockInv, LocksHeld
    <2>5. /\ mem'[op[u].loc] = mem[op[u].loc] /\ clk'[op[u].loc] = clk[op[u].loc]
          /\ buf'[op[u].loc] = buf[op[u].loc]
      BY <2>2, <2>4 DEF Frame
    <2> QED BY <1>1, <2>2, <2>5 DEF DataAt, Settled
  <1>3. CopyAt(u)'
    <2>1. CopyAt(u)
      BY TypesHere
    <2>2. HoldsSc(u) => sfence' = sfence
      BY DEF Frame, IInv, LockInv, LocksHeld
    <2>3. pc[u] \in {"scread", "fetch", "scwrite", "buffer", "clock", "memory", "advance"}
          /\ op[u].isSc => HoldsSc(u)
      BY DEF HoldsSc
    <2> QED BY <1>1, <2>1, <2>2, <2>3 DEF CopyAt
  <1> QED BY <1>2, <1>3

\* What is left to show of a step of t: its own data, and the locations it leaves.
LEMMA DataKept ==
  ASSUME IInv, LockInv', DataTypes', NEW t \in Tid, Frame(t),
         HoldsVar(t)' => DataAt(t)', CopyAt(t)',
         \A x \in Loc : lock'[x] = NoTid => (lock[x] = NoTid \/ Settled(x)'),
         \A x \in Loc : HoldsVar(t) /\ op[t].loc = x => Buffered(x)'
  PROVE  IInv'
  <1>1. ASSUME NEW x \in Loc, lock'[x] = NoTid
        PROVE  Settled(x)'
    <2>1. CASE lock[x] = NoTid
      <3>1. ~(HoldsVar(t) /\ op[t].loc = x)
        BY <2>1, NoTidAssumption DEF IInv, LockInv, LocksHeld
      <3>2. mem'[x] = mem[x] /\ clk'[x] = clk[x] /\ buf'[x] = buf[x]
        BY <3>1 DEF Frame
      <3> QED BY <2>1, <3>2 DEF IInv, DataInv, Settled
    <2> QED BY <1>1, <2>1
  <1>2. \A u \in Tid : (HoldsVar(u)' => DataAt(u)') /\ CopyAt(u)'
    BY OthersKeep
  <1>3. \A x \in Loc : Buffered(x)'
    <2>1. \A x \in Loc : Buffered(x)
      BY DEF IInv, DataInv
    <2>2. ASSUME NEW x \in Loc
          PROVE  Buffered(x)'
      <3>1. CASE buf'[x] = buf[x]
        <4>1. \A p \in 1..Len(buf[x]) : buf[x][p] = [val |-> p, clk |-> p]
          BY <2>1 DEF Buffered
        <4>2. \A p \in 1..Len(buf'[x]) : buf'[x][p] = [val |-> p, clk |-> p]
          BY <3>1, <4>1
        <4> QED BY <4>2 DEF Buffered
      <3>2. CASE buf'[x] # buf[x]
        BY <3>2 DEF Frame
      <3> QED BY <3>1, <3>2
    <2> QED BY <2>2
  <1>4. DataInv'
    BY <1>1, <1>2, <1>3 DEF DataInv
  <1> QED BY <1>4 DEF IInv

\* Of the accesses, only a fence's leave the thread's location alone.
LEMMA AccessHolds ==
  ASSUME IInv, NEW t \in Tid, Access(t)
  PROVE  /\ UNCHANGED <<op, lock, smtx>>
         /\ ~ScFence(t) /\ ~ScCopy(t) => HoldsVar(t)
         /\ ScFence(t) => HoldsSc(t)
  <1>1. UNCHANGED <<op, lock, smtx>>
    BY DEF Access, ScRead, ScWrite, Cas, Buffer, SyncClock, Memory, Fetch, Advance,
           ScFence, ScCopy, locals
  <1>2. Fits(pc[t], op[t])
    BY TypesHere
  <1>3. ~ScFence(t) /\ ~ScCopy(t) => HoldsVar(t)
    <2>1. ~ScFence(t) /\ ~ScCopy(t) =>
            pc[t] \in {"scread", "scwrite", "cas", "buffer", "clock", "memory", "fetch", "advance"}
      BY DEF Access, ScRead, ScWrite, Cas, Buffer, SyncClock, Memory, Fetch, Advance
    <2> QED BY <1>2, <2>1, OperationType DEF Fits, HoldsVar
  <1>4. ScFence(t) => HoldsSc(t)
    BY <1>2, FenceType DEF ScFence, Fits, HoldsSc
  <1> QED BY <1>1, <1>3, <1>4

\* An access of t is the business of nobody else.
LEMMA AccessFrame ==
  ASSUME IInv, NEW t \in Tid, Access(t)
  PROVE  Frame(t)
  <1>1. \A u \in Tid : u # t => pc'[u] = pc[u]
    BY DEF Access, ScRead, ScWrite, Cas, Buffer, SyncClock, Memory, Fetch, Advance,
           ScFence, ScCopy, Go, IInv, LockInv, ControlOK
  <1>2. \A u \in Tid : u # t => op'[u] = op[u]
    BY AccessHolds
  <1>3. \A u \in Tid : u # t => left'[u] = left[u] /\ copy'[u] = copy[u]
    <2>1. CASE ScRead(t)
      BY <2>1 DEF ScRead, IInv, DataTypes
    <2>2. CASE ~ScRead(t)
      BY <2>2 DEF Access, ScWrite, Cas, Buffer, SyncClock, Memory, Fetch, Advance,
           ScFence, ScCopy, locals
    <2> QED BY <2>1, <2>2
  <1>4. \A u \in Tid : u # t => seen'[u] = seen[u]
    <2>1. CASE Cas(t) \/ SyncClock(t)
      BY <2>1 DEF Cas, SyncClock, IInv, DataTypes
    <2>2. CASE ~(Cas(t) \/ SyncClock(t))
      BY <2>2 DEF Access, ScRead, ScWrite, Buffer, Memory, Fetch, Advance,
           ScFence, ScCopy, locals
    <2> QED BY <2>1, <2>2
  <1>5. ASSUME NEW x \in Loc, ~(HoldsVar(t) /\ op[t].loc = x)
        PROVE  mem'[x] = mem[x] /\ clk'[x] = clk[x] /\ buf'[x] = buf[x]
    <2>1. CASE ScFence(t) \/ ScCopy(t)
      BY <2>1 DEF ScFence, ScCopy
    <2>2. CASE ~(ScFence(t) \/ ScCopy(t))
      <3>1. x # op[t].loc
        BY <1>5, <2>2, AccessHolds
      <3>2. mem'[x] = mem[x]
        BY <2>2, <3>1 DEF Access, ScRead, ScWrite, Cas, Buffer, SyncClock, Memory, Fetch, Advance,
             IInv, DataTypes
      <3>3. clk'[x] = clk[x]
        BY <2>2, <3>1 DEF Access, ScRead, ScWrite, Cas, Buffer, SyncClock, Memory, Fetch, Advance,
             IInv, DataTypes
      <3>4. buf'[x] = buf[x]
        BY <2>2, <3>1 DEF Access, ScRead, ScWrite, Cas, Buffer, SyncClock, Memory, Fetch, Advance,
             IInv, DataTypes
      <3> QED BY <3>2, <3>3, <3>4
    <2> QED BY <2>1, <2>2
  <1>6. HoldsSc(t) \/ sfence' = sfence
    BY AccessHolds DEF Access, ScRead, ScWrite, Cas, Buffer, SyncClock, Memory, Fetch, Advance,
       ScFence, ScCopy
  <1> QED BY <1>1, <1>2, <1>3, <1>4, <1>5, <1>6 DEF Frame

\* An access keeps the types.
LEMMA AccessTypes ==
  ASSUME IInv, NEW t \in Tid, Access(t)
  PROVE  DataTypes'
  <1> DEFINE x == op[t].loc
  <1>1. HoldsVar(t) => x \in Loc /\ mem[x] \in Nat /\ clk[x] \in Nat /\ buf[x] \in Seq(StoreRecord)
    BY TypesHere, TypesThere
  <1>2. seen[t] \in StoreRecord /\ seen[t].val \in Nat
    BY TypesHere
  <1>3. mem' \in [Loc -> Nat]
    <2>1. CASE Cas(t) \/ Memory(t)
      <3>1. HoldsVar(t)
        BY <2>1, AccessHolds DEF Cas, Memory, ScFence, ScCopy
      <3>2. mem' = [mem EXCEPT ![x] = mem[x] + 1] \/ mem' = mem
        BY <2>1 DEF Cas, Memory
      <3>3. mem[x] + 1 \in Nat
        BY <1>1, <3>1
      <3> QED BY <3>2, <3>3 DEF IInv, DataTypes
    <2>2. CASE ~(Cas(t) \/ Memory(t))
      BY <2>2 DEF Access, ScRead, ScWrite, Buffer, SyncClock, Fetch, Advance, ScFence, ScCopy,
         IInv, DataTypes
    <2> QED BY <2>1, <2>2
  <1>4. clk' \in [Loc -> Nat]
    <2>1. CASE SyncClock(t)
      <3>1. HoldsVar(t)
        BY <2>1, AccessHolds DEF SyncClock, ScFence, ScCopy
      <3> QED BY <1>1, <2>1, <3>1 DEF SyncClock, IInv, DataTypes
    <2>2. CASE ~SyncClock(t)
      BY <2>2 DEF Access, ScRead, ScWrite, Buffer, Cas, Memory, Fetch, Advance, ScFence, ScCopy,
         IInv, DataTypes
    <2> QED BY <2>1, <2>2
  <1>5. buf' \in [Loc -> Seq(StoreRecord)]
    <2>1. CASE Buffer(t)
      <3> DEFINE v == IF op[t].kind = "cas" THEN seen[t].val ELSE mem[x]
                 r == [val |-> v, clk |-> clk[x]]
      <3>1. HoldsVar(t)
        BY <2>1, AccessHolds DEF Buffer, ScFence, ScCopy
      <3>2. r \in StoreRecord
        BY <1>1, <1>2, <3>1 DEF StoreRecord
      <3>3. buf' = [buf EXCEPT ![x] = Append(buf[x], r)]
        BY <2>1 DEF Buffer
      <3> HIDE DEF r
      <3>4. Append(buf[x], r) \in Seq(StoreRecord)
        BY <1>1, <3>1, <3>2
      <3> QED BY <3>3, <3>4 DEF IInv, DataTypes
    <2>2. CASE ~Buffer(t)
      BY <2>2 DEF Access, ScRead, ScWrite, SyncClock, Cas, Memory, Fetch, Advance, ScFence, ScCopy,
         IInv, DataTypes
    <2> QED BY <2>1, <2>2
  <1>6. sfence' \in Clock /\ swrite' \in Clock
    <2>1. CASE ScFence(t)
      BY <2>1 DEF ScFence, Clock, IInv, DataTypes
    <2>2. CASE ScWrite(t)
      BY <2>2 DEF ScWrite, Clock, IInv, DataTypes
    <2>3. CASE ~ScFence(t) /\ ~ScWrite(t)
      BY <2>3 DEF Access, ScRead, Buffer, SyncClock, Cas, Memory, Fetch, Advance, ScCopy,
         IInv, DataTypes
    <2> QED BY <2>1, <2>2, <2>3
  <1>7. left' \in [Tid -> SUBSET Tid] /\ copy' \in [Tid -> Clock]
    <2>1. CASE ScRead(t)
      <3>1. PICK u \in left[t] : /\ copy' = [copy EXCEPT ![t] = [@ EXCEPT ![u] = sfence[u]]]
                                 /\ left' = [left EXCEPT ![t] = @ \ {u}]
        BY <2>1 DEF ScRead
      <3>2. u \in Tid
        BY TypesHere
      <3>3. [copy[t] EXCEPT ![u] = sfence[u]] \in Clock
        BY <3>2, TypesHere DEF Clock, IInv, DataTypes
      <3> QED BY <3>1, <3>3 DEF IInv, DataTypes
    <2>2. CASE ~ScRead(t)
      BY <2>2 DEF Access, ScWrite, Buffer, SyncClock, Cas, Memory, Fetch, Advance, ScFence, ScCopy,
         locals, IInv, DataTypes
    <2> QED BY <2>1, <2>2
  <1>8. seen' \in [Tid -> StoreRecord]
    <2>1. CASE Cas(t)
      <3>1. HoldsVar(t)
        BY <2>1, AccessHolds DEF Cas, ScFence, ScCopy
      <3>2. [val |-> mem[x], clk |-> 0] \in StoreRecord
        BY <1>1, <3>1 DEF StoreRecord
      <3> QED BY <2>1, <3>2 DEF Cas, IInv, DataTypes
    <2>2. CASE SyncClock(t)
      <3>1. HoldsVar(t)
        BY <2>2, AccessHolds DEF SyncClock, ScFence, ScCopy
      <3>2. [val |-> 0, clk |-> clk[x]] \in StoreRecord
        BY <1>1, <3>1 DEF StoreRecord
      <3> QED BY <2>2, <3>2 DEF SyncClock, IInv, DataTypes
    <2>3. CASE ~Cas(t) /\ ~SyncClock(t)
      BY <2>3 DEF Access, ScRead, ScWrite, Buffer, Memory, Fetch, Advance, ScFence, ScCopy,
         locals, IInv, DataTypes
    <2> QED BY <2>1, <2>2, <2>3
  <1> QED BY <1>3, <1>4, <1>5, <1>6, <1>7, <1>8 DEF DataTypes

\* The step that Go(t, l) leads to.
LEMMA MovedTo ==
  ASSUME IInv, NEW t \in Tid, NEW l, Go(t, l)
  PROVE  pc'[t] = l
  BY DEF Go, IInv, LockInv, ControlOK

\* An access that leaves the mutexes' locations and copies in order keeps IInv.
LEMMA AccessKept ==
  ASSUME IInv, NEW t \in Tid, Access(t), DataAt(t)', CopyAt(t)',
         HoldsVar(t) => Buffered(op[t].loc)'
  PROVE  IInv'
  <1>1. LockInv' /\ DataTypes' /\ Frame(t) /\ lock' = lock /\ op' = op
    BY AccessKeepsLocks, AccessTypes, AccessFrame, AccessHolds DEF IInv
  <1> QED BY <1>1, DataKept

\* A step that leaves the buffer alone keeps it in order.
LEMMA BufferedKept ==
  ASSUME IInv, NEW t \in Tid, buf' = buf, op' = op
  PROVE  HoldsVar(t) => Buffered(op[t].loc)'
  <1>1. HoldsVar(t) => Buffered(op[t].loc)
    BY TypesHere DEF IInv, DataInv
  <1> QED BY <1>1 DEF Buffered

\* SCRead: nothing at the location changes.
LEMMA ScReadKeeps ==
  ASSUME IInv, NEW t \in Tid, ScRead(t)
  PROVE  IInv'
  <1> DEFINE o == op[t]
             x == o.loc
  <1>1. Access(t) /\ HoldsVar(t) /\ Fits("scread", o) /\ o \in Operation /\ DataAt(t) /\ CopyAt(t)
        /\ x \in Loc
    BY TypesHere, AccessHolds DEF Access, ScRead, ScFence, ScCopy
  <1>2. /\ UNCHANGED <<op, seen, mem, clk, buf, sfence>> /\ pc[t] = "scread"
    BY DEF ScRead
  <1>3. PICK u \in left[t] : /\ copy' = [copy EXCEPT ![t] = [@ EXCEPT ![u] = sfence[u]]]
                             /\ left' = [left EXCEPT ![t] = @ \ {u}]
                             /\ Go(t, IF left[t] = {u} THEN AfterRead(o) ELSE "scread")
    BY DEF ScRead
  <1>4. u \in Tid /\ copy[t] \in Clock /\ sfence \in Clock /\ left[t] \subseteq Tid
    BY TypesHere DEF IInv, DataTypes
  <1>5. copy'[t] = [copy[t] EXCEPT ![u] = sfence[u]] /\ left'[t] = left[t] \ {u}
    BY <1>3 DEF IInv, DataTypes
  <1>6. pc'[t] = IF left[t] = {u} THEN AfterRead(o) ELSE "scread"
    BY <1>3, MovedTo
  <1>7. AfterRead(o) = IF o.kind = "load" THEN "fetch"
                       ELSE IF o.kind = "casfail" THEN "advance" ELSE "scwrite"
    BY DEF AfterRead
  <1>8. o.kind \in {"load", "rmw", "cas", "casfail"}
    BY <1>1 DEF Fits
  <1>9. DataAt(t)'
    BY <1>1, <1>2, <1>6, <1>7, <1>8 DEF DataAt, Settled
  <1>10. CopyAt(t)'
    <2>1. CASE o.isSc
      <3>1. \A v \in Tid \ left'[t] : copy'[t][v] = sfence[v]
        BY <1>1, <1>2, <1>4, <1>5, <2>1 DEF CopyAt, Clock
      <3>2. left[t] = {u} => copy'[t] = sfence
        <4> SUFFICES ASSUME left[t] = {u} PROVE copy'[t] = sfence
          OBVIOUS
        <4>1. \A v \in Tid : copy'[t][v] = sfence[v]
          BY <1>5, <3>1
        <4>2. copy'[t] \in Clock
          BY <1>4, <1>5 DEF Clock
        <4> QED BY <1>4, <4>1, <4>2 DEF Clock
      <3> QED BY <1>2, <1>6, <1>7, <3>1, <3>2 DEF CopyAt
    <2>2. CASE ~o.isSc
      BY <1>2, <1>6, <1>7, <2>2 DEF CopyAt
    <2> QED BY <2>1, <2>2
  <1> QED BY <1>1, <1>2, <1>9, <1>10, AccessKept, BufferedKept

\* SCWrite: nothing at the location changes.
LEMMA ScWriteKeeps ==
  ASSUME IInv, NEW t \in Tid, ScWrite(t)
  PROVE  IInv'
  <1> DEFINE o == op[t]
             x == o.loc
  <1>1. Access(t) /\ HoldsVar(t) /\ Fits("scwrite", o) /\ DataAt(t) /\ CopyAt(t)
    BY TypesHere, AccessHolds DEF Access, ScWrite, ScFence, ScCopy
  <1>2. /\ UNCHANGED <<op, left, copy, seen, mem, clk, buf, sfence>>
        /\ pc[t] = "scwrite" /\ pc'[t] = "buffer"
    BY MovedTo DEF ScWrite, locals
  <1>3. DataAt(t)'
    BY <1>1, <1>2 DEF DataAt, Settled
  <1>4. CopyAt(t)'
    BY <1>1, <1>2 DEF CopyAt
  <1> QED BY <1>1, <1>2, <1>3, <1>4, AccessKept, BufferedKept

\* The compare and exchange: the value in memory is new, the rest still to come.
LEMMA CasKeeps ==
  ASSUME IInv, NEW t \in Tid, Cas(t)
  PROVE  IInv'
  <1> DEFINE o == op[t]
             x == o.loc
             l == IF o.kind = "cas" THEN IF o.isSc THEN "scread" ELSE "buffer"
                  ELSE IF o.fsc THEN "scread" ELSE "advance"
  <1>1. /\ Access(t) /\ HoldsVar(t) /\ Fits("cas", o) /\ DataAt(t) /\ CopyAt(t)
        /\ x \in Loc /\ mem[x] \in Nat
    BY TypesHere, TypesThere, AccessHolds DEF Access, Cas, ScFence, ScCopy
  <1>2. /\ UNCHANGED <<op, left, copy, clk, buf, sfence>>
        /\ pc[t] = "cas" /\ pc'[t] = l
    BY MovedTo DEF Cas
  <1>3. o.kind \in {"cas", "casfail"}
    BY <1>1 DEF Fits
  <1>4. seen'[t].val = mem[x]
    BY DEF Cas, IInv, DataTypes
  <1>5. mem'[x] = IF o.kind = "cas" THEN mem[x] + 1 ELSE mem[x]
    BY <1>1 DEF Cas, IInv, DataTypes
  <1>6. DataAt(t)'
    <2>1. Settled(x)
      BY <1>1, <1>2 DEF DataAt
    <2>2. Len(buf[x]) \in Nat
      BY <1>1, TypesThere
    <2> QED BY <1>2, <1>3, <1>4, <1>5, <2>1, <2>2 DEF DataAt, Settled
  <1>7. CopyAt(t)'
    BY <1>1, <1>2, <1>3 DEF CopyAt
  <1> QED BY <1>1, <1>2, <1>6, <1>7, AccessKept, BufferedKept

\* BufferStore: the old value and clock enter the buffer.
LEMMA BufferKeeps ==
  ASSUME IInv, NEW t \in Tid, Buffer(t)
  PROVE  IInv'
  <1> DEFINE o == op[t]
             x == o.loc
             n == Len(buf[x])
             r == [val |-> IF o.kind = "cas" THEN seen[t].val ELSE mem[x], clk |-> clk[x]]
  <1>1. /\ Access(t) /\ HoldsVar(t) /\ Fits("buffer", o) /\ DataAt(t) /\ CopyAt(t)
        /\ x \in Loc /\ n \in Nat /\ buf[x] \in Seq(StoreRecord)
    BY TypesHere, TypesThere, AccessHolds DEF Access, Buffer, ScFence, ScCopy
  <1>2. /\ UNCHANGED <<op, left, copy, seen, mem, clk, sfence>>
        /\ pc[t] = "buffer" /\ pc'[t] = "clock"
    BY MovedTo DEF Buffer, locals
  <1>3. buf'[x] = Append(buf[x], r)
    BY <1>1 DEF Buffer, IInv, DataTypes
  <1>4. r = [val |-> n + 1, clk |-> n + 1]
    BY <1>1, <1>2 DEF DataAt, Settled
  <1>5. r \in StoreRecord
    BY <1>1, <1>4 DEF StoreRecord
  <1> HIDE DEF r
  <1>6. /\ Len(buf'[x]) = n + 1
        /\ \A p \in 1..n : buf'[x][p] = buf[x][p]
        /\ buf'[x][n + 1] = r
    BY <1>1, <1>3, <1>5
  <1>7. Buffered(x)'
    <2>1. \A p \in 1..n : buf[x][p] = [val |-> p, clk |-> p]
      BY <1>1 DEF IInv, DataInv, Buffered
    <2>2. ASSUME NEW p \in 1..(n + 1)
          PROVE  buf'[x][p] = [val |-> p, clk |-> p]
      <3>1. CASE p \in 1..n
        BY <1>6, <2>1, <3>1
      <3>2. CASE p = n + 1
        BY <1>4, <1>6, <3>2
      <3> QED BY <1>1, <3>1, <3>2
    <2> QED BY <1>2, <1>6, <2>2 DEF Buffered
  <1>8. DataAt(t)'
    BY <1>1, <1>2, <1>6 DEF DataAt, Settled, Fits
  <1>9. CopyAt(t)'
    BY <1>1, <1>2 DEF CopyAt
  <1> QED BY <1>1, <1>7, <1>8, <1>9, AccessKept

\* The SyncClock, with a value in memory that may still be the old one.
LEMMA SyncClockKeeps ==
  ASSUME IInv, NEW t \in Tid, SyncClock(t)
  PROVE  IInv'
  <1> DEFINE o == op[t]
             x == o.loc
  <1>1. /\ Access(t) /\ HoldsVar(t) /\ Fits("clock", o) /\ DataAt(t) /\ CopyAt(t)
        /\ x \in Loc /\ clk[x] \in Nat /\ o \in Operation /\ Len(buf[x]) \in Nat
    BY TypesHere, TypesThere, AccessHolds DEF Access, SyncClock, ScFence, ScCopy
  <1>2. /\ UNCHANGED <<op, left, copy, mem, buf, sfence>>
        /\ pc[t] = "clock" /\ pc'[t] = IF o.kind = "cas" THEN Leave(o) ELSE "memory"
    BY MovedTo DEF SyncClock
  <1>3. Leave(o) \in {"scunlock", "unlock"} /\ o.kind \in {"store", "rmw", "cas"}
    BY <1>1, LeaveFits DEF Fits
  <1>4. clk'[x] = clk[x] + 1
    BY <1>1 DEF SyncClock, IInv, DataTypes
  <1>5. o.kind # "cas" => seen'[t].clk = clk[x]
    BY DEF SyncClock, IInv, DataTypes
  <1>6. DataAt(t)'
    BY <1>1, <1>2, <1>3, <1>4, <1>5 DEF DataAt, Settled
  <1>7. CopyAt(t)'
    BY <1>1, <1>2, <1>3 DEF CopyAt
  <1> QED BY <1>1, <1>2, <1>6, <1>7, AccessKept, BufferedKept

\* The store to memory.
LEMMA MemoryKeeps ==
  ASSUME IInv, NEW t \in Tid, Memory(t)
  PROVE  IInv'
  <1> DEFINE o == op[t]
             x == o.loc
  <1>1. /\ Access(t) /\ HoldsVar(t) /\ Fits("memory", o) /\ DataAt(t) /\ CopyAt(t)
        /\ x \in Loc /\ mem[x] \in Nat /\ o \in Operation /\ Len(buf[x]) \in Nat
    BY TypesHere, TypesThere, AccessHolds DEF Access, Memory, ScFence, ScCopy
  <1>2. /\ UNCHANGED <<op, left, copy, seen, clk, buf, sfence>>
        /\ pc[t] = "memory" /\ pc'[t] = Leave(o)
    BY MovedTo DEF Memory, locals
  <1>3. Leave(o) \in {"scunlock", "unlock"} /\ o.kind \in {"store", "rmw"}
    BY <1>1, LeaveFits DEF Fits
  <1>4. mem'[x] = mem[x] + 1
    BY <1>1 DEF Memory, IInv, DataTypes
  <1>5. DataAt(t)'
    BY <1>1, <1>2, <1>3, <1>4 DEF DataAt, Settled
  <1>6. CopyAt(t)'
    BY <1>2, <1>3 DEF CopyAt
  <1> QED BY <1>1, <1>2, <1>5, <1>6, AccessKept, BufferedKept

\* A load, and a CAS that fails, only look.
LEMMA LookKeeps ==
  ASSUME IInv, NEW t \in Tid, Fetch(t) \/ Advance(t)
  PROVE  IInv'
  <1> DEFINE o == op[t]
             x == o.loc
  <1>1. /\ Access(t) /\ HoldsVar(t) /\ Fits(pc[t], o) /\ DataAt(t) /\ o \in Operation
    BY TypesHere, AccessHolds DEF Access, Fetch, Advance, ScFence, ScCopy
  <1>2. /\ UNCHANGED <<op, left, copy, seen, mem, clk, buf, sfence>>
        /\ pc[t] \in {"fetch", "advance"} /\ pc'[t] = Leave(o)
    BY MovedTo DEF Fetch, Advance, locals
  <1>3. Leave(o) \in {"scunlock", "unlock"} /\ o.kind \in {"load", "casfail"}
    BY <1>1, <1>2, LeaveFits DEF Fits
  <1>4. DataAt(t)'
    BY <1>1, <1>2, <1>3 DEF DataAt, Settled
  <1>5. CopyAt(t)'
    BY <1>2, <1>3 DEF CopyAt
  <1> QED BY <1>1, <1>2, <1>4, <1>5, AccessKept, BufferedKept

\* SCFence touches no location.
LEMMA FenceKeeps ==
  ASSUME IInv, NEW t \in Tid, ScFence(t) \/ ScCopy(t)
  PROVE  IInv'
  <1>1. Access(t) /\ Fits(pc[t], op[t])
    BY TypesHere DEF Access
  <1>2. UNCHANGED <<op, lock, buf>> /\ pc[t] \in {"scfence", "sccopy"}
        /\ pc'[t] \in {"sccopy", "scunlock"}
    BY MovedTo DEF ScFence, ScCopy, locals
  <1>3. op[t].kind = "fence"
    BY <1>1, <1>2, FenceType DEF Fits
  <1>4. ~HoldsVar(t)'
    BY <1>2, <1>3 DEF HoldsVar
  <1>5. CopyAt(t)'
    BY <1>2 DEF CopyAt
  <1>6. LockInv' /\ DataTypes' /\ Frame(t)
    BY <1>1, AccessKeepsLocks, AccessTypes, AccessFrame DEF IInv
  <1> QED BY <1>2, <1>4, <1>5, <1>6, DataKept, BufferedKept

\* Every access keeps the invariant.
LEMMA AccessKeeps ==
  ASSUME IInv, NEW t \in Tid, Access(t)
  PROVE  IInv'
  BY ScReadKeeps, ScWriteKeeps, CasKeeps, BufferKeeps, SyncClockKeeps, MemoryKeeps, LookKeeps,
     FenceKeeps DEF Access

\* Before and after its accesses a handler finds its location at rest.
LEMMA CallKeeps ==
  ASSUME IInv, NEW t \in Tid, NEW o \in Operation \cup {ScFenceOp}, Call(t, o)
  PROVE  IInv'
  <1> DEFINE l == IF o.kind = "fence" THEN "sclock" ELSE "lock"
  <1>1. /\ pc'[t] = l /\ op'[t] = o /\ left'[t] = Tid /\ pc[t] = "idle"
        /\ UNCHANGED <<copy, seen, lock, mem, clk, buf, sfence, swrite>>
    BY MovedTo DEF Call, IInv, LockInv, ControlOK, DataTypes
  <1>2. LockInv'
    BY CallKeepsLocks DEF IInv
  <1>3. DataTypes'
    BY DEF Call, IInv, DataTypes
  <1>4. Frame(t)
    BY DEF Frame, Call, Go, IInv, LockInv, ControlOK, DataTypes
  <1>5. ~HoldsVar(t) /\ ~HoldsVar(t)'
    BY <1>1 DEF HoldsVar
  <1>6. CopyAt(t)'
    BY <1>1 DEF CopyAt
  <1> QED BY <1>1, <1>2, <1>3, <1>4, <1>5, <1>6, DataKept

\* A thread that takes the mutex of a location finds it settled.
LEMMA LockVarKeeps ==
  ASSUME IInv, NEW t \in Tid, LockVar(t)
  PROVE  IInv'
  <1> DEFINE o == op[t]
             x == o.loc
             l == IF o.isSc THEN "sclock" ELSE Work(o)
  <1>1. /\ pc'[t] = l /\ pc[t] = "lock" /\ lock[x] = NoTid /\ lock' = [lock EXCEPT ![x] = t]
        /\ UNCHANGED <<op, left, copy, seen, mem, clk, buf, sfence, swrite>>
    BY MovedTo DEF LockVar, locals
  <1>2. o \in Operation /\ x \in Loc /\ CopyAt(t)
    BY <1>1, TypesHere, OperationType DEF Fits
  <1>3. Settled(x)
    BY <1>1, <1>2 DEF IInv, DataInv
  <1>4. l \in {"sclock", "cas", "fetch", "buffer"} /\ (o.isSc => l = "sclock")
        /\ (l = "buffer" => o.kind # "cas")
    BY <1>2, OperationType DEF Work
  <1>5. DataAt(t)'
    BY <1>1, <1>3, <1>4 DEF DataAt, Settled
  <1>6. CopyAt(t)'
    BY <1>1, <1>2, <1>4 DEF CopyAt
  <1>7. LockInv'
    BY LockVarKeepsLocks DEF IInv
  <1>8. DataTypes'
    BY <1>1 DEF IInv, DataTypes
  <1>9. Frame(t)
    BY <1>1 DEF Frame, LockVar, Go, IInv, LockInv, ControlOK
  <1>10. ~HoldsVar(t)
    BY <1>1 DEF HoldsVar
  <1>11. \A y \in Loc : lock'[y] = NoTid => lock[y] = NoTid
    BY <1>1 DEF IInv, LockInv, ControlOK
  <1> QED BY <1>5, <1>6, <1>7, <1>8, <1>9, <1>10, <1>11, DataKept

\* A thread that takes Smtx has its location as before.
LEMMA LockScKeeps ==
  ASSUME IInv, NEW t \in Tid, LockSc(t)
  PROVE  IInv'
  <1> DEFINE o == op[t]
             l == Work(o)
  <1>1. /\ pc'[t] = l /\ pc[t] = "sclock"
        /\ UNCHANGED <<op, left, copy, seen, lock, mem, clk, buf, sfence, swrite>>
    BY MovedTo DEF LockSc, locals
  <1>2. o \in Operation \cup {ScFenceOp} /\ o.isSc /\ CopyAt(t)
    BY <1>1, TypesHere DEF Fits
  <1>3. /\ l \in {"scread", "scwrite", "cas", "scfence"}
        /\ l \in {"scread", "scwrite"} => o.kind \notin {"cas", "casfail"}
        /\ l = "scwrite" => o.kind = "store"
        /\ l = "scfence" => o.kind = "fence"
    BY <1>2, OperationType, FenceType DEF Work
  <1>4. HoldsVar(t)' => DataAt(t)'
    <2> SUFFICES ASSUME HoldsVar(t)' PROVE DataAt(t)'
      OBVIOUS
    <2>1. DataAt(t)
      BY <1>1, TypesHere DEF HoldsVar
    <2> QED BY <1>1, <1>3, <2>1 DEF DataAt, Settled
  <1>5. CopyAt(t)'
    <2>1. left'[t] = Tid
      BY <1>1, <1>2 DEF CopyAt
    <2> QED BY <1>1, <1>3, <2>1 DEF CopyAt
  <1>6. LockInv'
    BY LockScKeepsLocks DEF IInv
  <1>7. DataTypes'
    BY <1>1 DEF IInv, DataTypes
  <1>8. Frame(t)
    BY <1>1 DEF Frame, LockSc, Go, IInv, LockInv, ControlOK
  <1>9. HoldsVar(t) => Buffered(o.loc)'
    BY <1>1, BufferedKept
  <1> QED BY <1>1, <1>4, <1>5, <1>6, <1>7, <1>8, <1>9, DataKept

\* A thread that gives back Smtx still holds its location, or was in a fence.
LEMMA UnlockScKeeps ==
  ASSUME IInv, NEW t \in Tid, UnlockSc(t)
  PROVE  IInv'
  <1> DEFINE o == op[t]
             l == IF o.kind = "fence" THEN "idle" ELSE "unlock"
  <1>1. /\ pc'[t] = l /\ pc[t] = "scunlock"
        /\ UNCHANGED <<lock, mem, clk, buf, sfence, swrite>>
    BY MovedTo DEF UnlockSc, Return
  <1>2. HoldsVar(t)' => o.kind # "fence"
    BY <1>1 DEF HoldsVar
  <1>3. o.kind # "fence" => op' = op /\ HoldsVar(t)
    BY <1>1 DEF UnlockSc, locals, HoldsVar
  <1>4. HoldsVar(t)' => DataAt(t)'
    <2> SUFFICES ASSUME HoldsVar(t)' PROVE DataAt(t)'
      OBVIOUS
    <2>1. DataAt(t)
      BY <1>2, <1>3, TypesHere
    <2> QED BY <1>1, <1>2, <1>3, <2>1 DEF DataAt, Settled
  <1>5. CopyAt(t)'
    BY <1>1 DEF CopyAt
  <1>6. LockInv'
    BY UnlockScKeepsLocks DEF IInv
  <1>7. /\ left' \in [Tid -> SUBSET Tid] /\ copy' \in [Tid -> Clock] /\ seen' \in [Tid -> StoreRecord]
        /\ \A u \in Tid : u # t => /\ pc'[u] = pc[u] /\ op'[u] = op[u] /\ left'[u] = left[u]
                                   /\ copy'[u] = copy[u] /\ seen'[u] = seen[u]
    <2>1. Zero \in Clock /\ NoStore \in StoreRecord
      BY DEF Zero, Clock, NoStore, StoreRecord
    <2>2. \A u \in Tid : u # t => pc'[u] = pc[u]
      BY DEF UnlockSc, Return, Go, IInv, LockInv, ControlOK
    <2>3. CASE o.kind = "fence"
      BY <2>1, <2>2, <2>3 DEF UnlockSc, Return, IInv, LockInv, ControlOK, DataTypes
    <2>4. CASE o.kind # "fence"
      BY <2>2, <2>4 DEF UnlockSc, locals, IInv, DataTypes
    <2> QED BY <2>3, <2>4
  <1>8. DataTypes'
    BY <1>1, <1>7 DEF IInv, DataTypes
  <1>9. Frame(t)
    BY <1>1, <1>7 DEF Frame
  <1>10. \A x \in Loc : HoldsVar(t) /\ o.loc = x => Buffered(x)'
    BY <1>1 DEF IInv, DataInv, Buffered
  <1> QED BY <1>1, <1>4, <1>5, <1>6, <1>8, <1>9, <1>10, DataKept

\* A thread that gives back the mutex of a location leaves it settled.
LEMMA UnlockVarKeeps ==
  ASSUME IInv, NEW t \in Tid, UnlockVar(t)
  PROVE  IInv'
  <1> DEFINE x == op[t].loc
  <1>1. /\ pc'[t] = "idle" /\ pc[t] = "unlock" /\ lock' = [lock EXCEPT ![x] = NoTid]
        /\ UNCHANGED <<mem, clk, buf, sfence, swrite>>
    BY MovedTo DEF UnlockVar, Return
  <1>2. HoldsVar(t)
    BY <1>1, TypesHere, OperationType DEF Fits, HoldsVar
  <1>3. DataAt(t) /\ x \in Loc
    BY <1>2, TypesHere
  <1>4. \A y \in Loc : y = x => Settled(y)'
    BY <1>1, <1>3 DEF DataAt, Settled
  <1>5. \A y \in Loc : lock'[y] = NoTid => (lock[y] = NoTid \/ Settled(y)')
    BY <1>1, <1>4 DEF IInv, LockInv, ControlOK
  <1>6. ~HoldsVar(t)' /\ CopyAt(t)'
    BY <1>1 DEF HoldsVar, CopyAt
  <1>7. LockInv'
    BY UnlockVarKeepsLocks DEF IInv
  <1>8. /\ left' \in [Tid -> SUBSET Tid] /\ copy' \in [Tid -> Clock] /\ seen' \in [Tid -> StoreRecord]
        /\ \A u \in Tid : u # t => /\ pc'[u] = pc[u] /\ op'[u] = op[u] /\ left'[u] = left[u]
                                   /\ copy'[u] = copy[u] /\ seen'[u] = seen[u]
    <2>1. Zero \in Clock /\ NoStore \in StoreRecord
      BY DEF Zero, Clock, NoStore, StoreRecord
    <2> QED BY <2>1 DEF UnlockVar, Return, Go, IInv, LockInv, ControlOK, DataTypes
  <1>9. DataTypes'
    BY <1>1, <1>8 DEF IInv, DataTypes
  <1>10. Frame(t)
    BY <1>1, <1>8 DEF Frame
  <1>11. \A y \in Loc : HoldsVar(t) /\ x = y => Buffered(y)'
    BY <1>1 DEF IInv, DataInv, Buffered
  <1> QED BY <1>5, <1>6, <1>7, <1>9, <1>10, <1>11, DataKept

\* At first every location is settled.
LEMMA InitData == Init => IInv
  <1> SUFFICES ASSUME Init PROVE IInv
    OBVIOUS
  <1>1. LockInv
    BY InitLocks
  <1>2. DataTypes
    BY DEF Init, DataTypes, Clock, Zero, NoStore, StoreRecord
  <1>3. \A x \in Loc : Settled(x) /\ Buffered(x)
    BY DEF Init, Settled, Buffered
  <1>4. \A t \in Tid : ~HoldsVar(t) /\ CopyAt(t)
    BY DEF Init, HoldsVar, CopyAt
  <1> QED BY <1>1, <1>2, <1>3, <1>4 DEF IInv, DataInv

\* Every step keeps the invariant.
LEMMA NextKeeps == IInv /\ [Next]_vars => IInv'
  <1> SUFFICES ASSUME IInv, [Next]_vars PROVE IInv'
    OBVIOUS
  <1>1. CASE UNCHANGED vars
    <2>1. LockInv' /\ DataTypes'
      BY <1>1 DEF vars, locals, LockInv, ControlOK, LocksHeld, HoldsVar, HoldsSc, IInv, DataTypes
    <2>2. DataInv'
      BY <1>1 DEF vars, locals, IInv, DataInv, Settled, HoldsVar, DataAt, Buffered, CopyAt
    <2> QED BY <2>1, <2>2 DEF IInv
  <1>2. ASSUME NEW t \in Tid, NEW o \in Operation \cup {ScFenceOp}, Call(t, o)
        PROVE  IInv'
    BY <1>2, CallKeeps
  <1>3. ASSUME NEW t \in Tid, Step(t)
        PROVE  IInv'
    BY <1>3, LockVarKeeps, LockScKeeps, AccessKeeps, UnlockScKeeps, UnlockVarKeeps
       DEF Step, Access
  <1> QED BY <1>1, <1>2, <1>3 DEF Next

\* The invariant holds in every reachable state.
LEMMA DataInvariant == Spec => []IInv
  BY InitData, NextKeeps, PTL DEF Spec

-----------------------------------------------------------------------------

\* The names that AtomicHandlers has of its own for what is also named here.
LEMMA AtomicNames ==
  /\ Atomic!Zero = Zero /\ Atomic!Clock = Clock /\ Atomic!Nothing = Nothing
  BY DEF Atomic!Zero, Zero, Atomic!Clock, Clock, Atomic!Nothing, Nothing

\* The only CAS that a handler sees between its memory and its clock is its own.
LEMMA PendingHere ==
  ASSUME IInv, NEW t \in Tid, HoldsVar(t), NEW u \in Tid, CasPending(u), op[u].loc = op[t].loc
  PROVE  u = t
  <1>1. HoldsVar(u)
    BY DEF CasPending, HoldsVar
  <1> QED BY <1>1, TypesHere DEF IInv, LockInv, LocksHeld

\* How many stores a location has seen, by the thread that is in it.
LEMMA StoresHere ==
  ASSUME IInv, NEW t \in Tid, HoldsVar(t)
  PROVE  stores[op[t].loc] = IF CasPending(t) THEN mem[op[t].loc] - 1 ELSE mem[op[t].loc]
  <1>1. op[t].loc \in Loc
    BY TypesHere
  <1> QED BY <1>1, PendingHere DEF stores

\* The number does not change when no CAS begins or ends and the memory stays.
LEMMA StoresKept ==
  ASSUME mem' = mem,
         \A u \in Tid : CasPending(u)' <=> CasPending(u),
         \A u \in Tid : CasPending(u) => op'[u] = op[u]
  PROVE  stores' = stores
  <1>1. \A x \in Loc : (\E u \in Tid : CasPending(u)' /\ op'[u].loc = x)
                       <=> (\E u \in Tid : CasPending(u) /\ op[u].loc = x)
    OBVIOUS
  <1> QED BY <1>1 DEF stores

\* It is t's step that adds a store to t's location.
LEMMA StoresAdded ==
  ASSUME IInv, NEW t \in Tid, HoldsVar(t), op' = op,
         \A u \in Tid : u # t => pc'[u] = pc[u],
         \A x \in Loc : x # op[t].loc => mem'[x] = mem[x],
         ~CasPending(t)',
         mem'[op[t].loc] = stores[op[t].loc] + 1
  PROVE  stores' = [stores EXCEPT ![op[t].loc] = @ + 1]
  <1> DEFINE x == op[t].loc
             y(z) == IF \E u \in Tid : CasPending(u)' /\ op'[u].loc = z THEN mem'[z] - 1 ELSE mem'[z]
  <1>1. x \in Loc
    BY TypesHere
  <1>2. \A u \in Tid : u # t => (CasPending(u)' <=> CasPending(u))
    BY DEF CasPending
  <1>3. ~\E u \in Tid : CasPending(u)' /\ op'[u].loc = x
    BY <1>2, PendingHere
  <1>4. \A z \in Loc : z # x =>
          ((\E u \in Tid : CasPending(u)' /\ op'[u].loc = z)
           <=> (\E u \in Tid : CasPending(u) /\ op[u].loc = z))
    BY <1>2
  <1>5. \A z \in Loc : z # x => y(z) = stores[z]
    BY <1>4 DEF stores
  <1>6. y(x) = stores[x] + 1
    BY <1>3
  <1>7. stores' = [z \in Loc |-> y(z)]
    BY DEF stores
  <1>8. stores = [z \in Loc |-> stores[z]]
    BY DEF stores
  <1> HIDE DEF y
  <1> QED BY <1>1, <1>5, <1>6, <1>7, <1>8

\* Under Smtx, the others have left the context whole.
LEMMA WholeContext ==
  ASSUME IInv, NEW t \in Tid, HoldsSc(t)
  PROVE  /\ pc[t] # "sccopy" => sfenceDone = sfence
         /\ ~WritePending(t) => swriteDone = swrite
  <1>1. \A u \in Tid : u # t => ~HoldsSc(u)
    BY DEF IInv, LockInv, LocksHeld
  <1>2. \A u \in Tid : pc[u] = "sccopy" => HoldsSc(u)
    <2> SUFFICES ASSUME NEW u \in Tid, pc[u] = "sccopy" PROVE HoldsSc(u)
      OBVIOUS
    <2>1. op[u] = ScFenceOp
      BY TypesHere DEF Fits
    <2> QED BY <2>1, FenceType DEF HoldsSc
  <1>3. \A u \in Tid : WritePending(u) => HoldsSc(u)
    BY DEF WritePending, HoldsSc
  <1>4. sfence \in Clock /\ swrite \in Clock
    BY DEF IInv, DataTypes
  <1> QED BY <1>1, <1>2, <1>3, <1>4 DEF sfenceDone, swriteDone, Clock

\* The SC clocks as the abstract handlers see them stay, if nobody's half of a step ends.
LEMMA ContextKept ==
  /\ swrite' = swrite /\ (\A u \in Tid : WritePending(u)' <=> WritePending(u))
     => swriteDone' = swriteDone
  /\ sfence' = sfence /\ (\A u \in Tid : pc'[u] = "sccopy" <=> pc[u] = "sccopy")
     => sfenceDone' = sfenceDone
  BY DEF swriteDone, sfenceDone

\* A step that is not the last access of its handler is a stutter.
LEMMA Stutters ==
  ASSUME IInv, NEW t \in Tid,
         \A u \in Tid : u # t => pc'[u] = pc[u] /\ op'[u] = op[u],
         UNCHANGED <<mem, found, swrite, sfence>>,
         CasPending(t)' <=> CasPending(t),
         CasPending(t) => op'[t] = op[t],
         WritePending(t)' <=> WritePending(t),
         pc'[t] # "sccopy", pc[t] # "sccopy"
  PROVE  UNCHANGED Atomic!avars
  <1>1. \A u \in Tid : /\ CasPending(u)' <=> CasPending(u)
                       /\ CasPending(u) => op'[u] = op[u]
                       /\ WritePending(u)' <=> WritePending(u)
                       /\ pc'[u] = "sccopy" <=> pc[u] = "sccopy"
    <2> SUFFICES ASSUME NEW u \in Tid, u # t
                 PROVE  /\ CasPending(u)' <=> CasPending(u)
                        /\ WritePending(u)' <=> WritePending(u)
      OBVIOUS
    <2> QED BY DEF CasPending, WritePending
  <1>2. stores' = stores
    BY <1>1, StoresKept
  <1>3. swriteDone' = swriteDone /\ sfenceDone' = sfenceDone
    BY <1>1, ContextKept
  <1> QED BY <1>2, <1>3 DEF Atomic!avars

\* What t does at the end of a store.
LEMMA WriteEnds ==
  ASSUME IInv, NEW t \in Tid, op' = op, swrite' = swrite,
         \A u \in Tid : u # t => pc'[u] = pc[u],
         pc[t] \in {"clock", "memory"}, pc'[t] \in {"scunlock", "unlock"}
  PROVE  Atomic!SWrites(t, op[t].isSc)
  <1>1. \A u \in Tid : u # t => (WritePending(u)' <=> WritePending(u))
    BY DEF WritePending
  <1>2. ~WritePending(t)' /\ (WritePending(t) <=> op[t].isSc)
    BY DEF WritePending
  <1>3. swrite \in Clock
    BY DEF IInv, DataTypes
  <1>4. CASE op[t].isSc
    <2>1. swriteDone[t] + 1 = swrite[t]
      BY <1>2, <1>3, <1>4 DEF swriteDone, Clock
    <2>2. swriteDone' = [swriteDone EXCEPT ![t] = swrite[t]]
      BY <1>1, <1>2 DEF swriteDone
    <2> QED BY <1>4, <2>1, <2>2 DEF Atomic!SWrites
  <1>5. CASE ~op[t].isSc
    <2>1. swriteDone' = swriteDone
      BY <1>1, <1>2, <1>5, ContextKept
    <2> QED BY <1>5, <2>1 DEF Atomic!SWrites
  <1> QED BY <1>4, <1>5

\* What t takes from one store and from the context.
LEMMA FindsOne ==
  ASSUME IInv, NEW t \in Tid, NEW n, NEW isSc \in BOOLEAN, Found(t, n, n, isSc),
         isSc => HoldsSc(t) /\ pc[t] # "sccopy" /\ copy[t] = sfence
  PROVE  Atomic!Finds(n, isSc)
  <1>1. isSc => copy[t] = sfenceDone
    BY WholeContext
  <1> QED BY <1>1, AtomicNames DEF Found, Atomic!Finds

-----------------------------------------------------------------------------

\* A call is a stutter of the atomic handlers.
LEMMA CallStutters ==
  ASSUME IInv, NEW t \in Tid, NEW o \in Operation \cup {ScFenceOp}, Call(t, o)
  PROVE  UNCHANGED Atomic!avars
  <1>1. /\ pc[t] = "idle" /\ pc'[t] \in {"sclock", "lock"}
        /\ \A u \in Tid : u # t => pc'[u] = pc[u] /\ op'[u] = op[u]
    BY DEF Call, Go, IInv, LockInv, ControlOK
  <1>2. /\ ~CasPending(t) /\ ~CasPending(t)' /\ ~WritePending(t) /\ ~WritePending(t)'
    BY <1>1 DEF CasPending, WritePending
  <1>3. UNCHANGED <<mem, found, swrite, sfence>>
    BY DEF Call
  <1> QED BY <1>1, <1>2, <1>3, Stutters

\* A step of t leaves every other thread where it is.
LEMMA OthersStay ==
  ASSUME IInv, NEW t \in Tid, Step(t)
  PROVE  \A u \in Tid : u # t => pc'[u] = pc[u] /\ op'[u] = op[u]
  <1>1. CASE Access(t)
    BY <1>1, AccessFrame DEF Frame
  <1>2. CASE LockVar(t) \/ LockSc(t)
    BY <1>2 DEF LockVar, LockSc, Go, locals, IInv, LockInv, ControlOK
  <1>3. CASE UnlockVar(t)
    BY <1>3 DEF UnlockVar, Return, Go, IInv, LockInv, ControlOK
  <1>4. CASE UnlockSc(t)
    <2>1. op' = [op EXCEPT ![t] = NoOp] \/ op' = op
      BY <1>4 DEF UnlockSc, Return, locals
    <2> QED BY <1>4, <2>1 DEF UnlockSc, Return, Go, IInv, LockInv, ControlOK
  <1> QED BY <1>1, <1>2, <1>3, <1>4 DEF Step, Access

\* Taking a mutex is a stutter.
LEMMA LocksStutter ==
  ASSUME IInv, NEW t \in Tid, Step(t), LockVar(t) \/ LockSc(t)
  PROVE  UNCHANGED Atomic!avars
  <1>1. /\ pc[t] \in {"lock", "sclock"} /\ UNCHANGED <<op, mem, found, swrite, sfence>>
    BY DEF LockVar, LockSc, locals
  <1>2. /\ pc'[t] \in {"sclock", "fetch", "buffer", "cas", "scread", "scwrite", "scfence"}
        /\ ~CasPending(t)' /\ ~WritePending(t)'
    <2>1. CASE LockVar(t)
      <3>1. op[t] \in Operation
        BY <2>1, TypesHere, OperationType DEF Fits, LockVar
      <3>2. pc'[t] = IF op[t].isSc THEN "sclock" ELSE Work(op[t])
        BY <2>1, MovedTo DEF LockVar
      <3> QED BY <1>1, <3>1, <3>2, OperationType DEF Work, CasPending, WritePending
    <2>2. CASE LockSc(t)
      <3>1. op[t] \in Operation \cup {ScFenceOp} /\ op[t].isSc
        BY <2>2, TypesHere DEF Fits, LockSc
      <3>2. pc'[t] = Work(op[t])
        BY <2>2, MovedTo DEF LockSc
      <3> QED BY <1>1, <3>1, <3>2, OperationType, FenceType DEF Work, CasPending, WritePending
    <2> QED BY <2>1, <2>2
  <1>3. ~CasPending(t) /\ ~WritePending(t)
    BY <1>1 DEF CasPending, WritePending
  <1> QED BY <1>1, <1>2, <1>3, OthersStay, Stutters

\* SCRead is a stutter.
LEMMA ScReadStutters ==
  ASSUME IInv, NEW t \in Tid, Step(t), ScRead(t)
  PROVE  UNCHANGED Atomic!avars
  <1>1. pc[t] = "scread" /\ UNCHANGED <<op, mem, found, swrite, sfence>>
    BY DEF ScRead
  <1>2. PICK l \in {"scread", AfterRead(op[t])} : Go(t, l)
    BY DEF ScRead
  <1>3. pc'[t] = l
    BY <1>2, MovedTo
  <1>4. Fits("scread", op[t])
    BY <1>1, TypesHere
  <1>5. /\ pc'[t] # "sccopy" /\ ~WritePending(t)' /\ ~WritePending(t)
        /\ CasPending(t)' <=> CasPending(t)
    BY <1>1, <1>2, <1>3, <1>4 DEF AfterRead, Fits, CasPending, WritePending
  <1> QED BY <1>1, <1>5, OthersStay, Stutters

\* BufferStore, before the rest of the store, is a stutter.
LEMMA BufferStutters ==
  ASSUME IInv, NEW t \in Tid, Step(t), Buffer(t)
  PROVE  UNCHANGED Atomic!avars
  <1>1. pc[t] = "buffer" /\ pc'[t] = "clock" /\ UNCHANGED <<op, mem, found, swrite, sfence>>
    BY MovedTo DEF Buffer, locals
  <1>2. (CasPending(t)' <=> CasPending(t)) /\ (WritePending(t)' <=> WritePending(t))
    BY <1>1 DEF CasPending, WritePending
  <1> QED BY <1>1, <1>2, OthersStay, Stutters

\* SCWrite and the first half of SCFence: the change is not yet to be seen.
LEMMA ScWriteStutters ==
  ASSUME IInv, NEW t \in Tid, Step(t), ScWrite(t)
  PROVE  UNCHANGED Atomic!avars
  <1>1. /\ pc[t] = "scwrite" /\ pc'[t] = "buffer" /\ UNCHANGED <<op, mem, found, sfence>>
        /\ swrite' = [swrite EXCEPT ![t] = @ + 1]
    BY MovedTo DEF ScWrite, locals
  <1>2. op[t].isSc /\ swrite \in Clock
    BY <1>1, TypesHere DEF Fits, IInv, DataTypes
  <1>3. \A u \in Tid : u # t => pc'[u] = pc[u]
    BY OthersStay
  <1>4. \A u \in Tid : CasPending(u)' <=> CasPending(u)
    BY <1>1, <1>3 DEF CasPending
  <1>5. ~WritePending(t) /\ WritePending(t)' /\ \A u \in Tid : u # t => (WritePending(u)' <=> WritePending(u))
    BY <1>1, <1>2, <1>3 DEF WritePending
  <1>6. stores' = stores
    BY <1>1, <1>4, StoresKept
  <1>7. swriteDone' = swriteDone
    BY <1>1, <1>2, <1>5 DEF swriteDone, Clock
  <1>8. sfenceDone' = sfenceDone
    BY <1>1, <1>3, ContextKept
  <1> QED BY <1>1, <1>6, <1>7, <1>8 DEF Atomic!avars

\* The first half of SCFence is a stutter.
LEMMA ScFenceStutters ==
  ASSUME IInv, NEW t \in Tid, Step(t), ScFence(t)
  PROVE  UNCHANGED Atomic!avars
  <1>1. /\ pc[t] = "scfence" /\ pc'[t] = "sccopy" /\ UNCHANGED <<op, mem, found, swrite>>
        /\ sfence' = [sfence EXCEPT ![t] = @ + 1]
    BY MovedTo DEF ScFence, locals
  <1>2. sfence \in Clock
    BY DEF IInv, DataTypes
  <1>3. \A u \in Tid : u # t => pc'[u] = pc[u]
    BY OthersStay
  <1>4. \A u \in Tid : (CasPending(u)' <=> CasPending(u)) /\ (WritePending(u)' <=> WritePending(u))
    BY <1>1, <1>3 DEF CasPending, WritePending
  <1>5. stores' = stores
    BY <1>1, <1>4, StoresKept
  <1>6. swriteDone' = swriteDone
    BY <1>1, <1>4, ContextKept
  <1>7. sfenceDone' = sfenceDone
    BY <1>1, <1>2, <1>3 DEF sfenceDone, Clock
  <1> QED BY <1>1, <1>5, <1>6, <1>7 DEF Atomic!avars

\* A CAS that succeeds changes the memory first; one that fails only looks.
LEMMA CasStutters ==
  ASSUME IInv, NEW t \in Tid, Step(t), Cas(t)
  PROVE  UNCHANGED Atomic!avars
  <1> DEFINE x == op[t].loc
  <1>1. /\ pc[t] = "cas" /\ UNCHANGED <<op, found, swrite, sfence>>
        /\ pc'[t] = IF op[t].kind = "cas" THEN IF op[t].isSc THEN "scread" ELSE "buffer"
                    ELSE IF op[t].fsc THEN "scread" ELSE "advance"
    BY MovedTo DEF Cas
  <1>2. HoldsVar(t) /\ x \in Loc /\ op[t] \in Operation /\ mem[x] \in Nat
    BY AccessHolds, TypesHere, TypesThere DEF Access, Cas, ScFence, ScCopy
  <1>3. \A u \in Tid : u # t => pc'[u] = pc[u]
    BY OthersStay
  <1>4. \A u \in Tid : u # t => (CasPending(u)' <=> CasPending(u))
    BY <1>1, <1>3 DEF CasPending
  <1>5. \A u \in Tid : WritePending(u)' <=> WritePending(u)
    BY <1>1, <1>2, <1>3, OperationType DEF WritePending
  <1>6. swriteDone' = swriteDone /\ sfenceDone' = sfenceDone
    BY <1>1, <1>3, <1>5, ContextKept
  <1>7. ~CasPending(t)
    BY <1>1 DEF CasPending
  <1>8. stores' = stores
    <2>1. CASE op[t].kind = "cas"
      <3> DEFINE y(z) == IF \E u \in Tid : CasPending(u)' /\ op'[u].loc = z
                         THEN mem'[z] - 1 ELSE mem'[z]
      <3>1. CasPending(t)'
        BY <1>1, <2>1 DEF CasPending
      <3>2. mem'[x] = mem[x] + 1 /\ \A z \in Loc : z # x => mem'[z] = mem[z]
        BY <1>2, <2>1 DEF Cas, IInv, DataTypes
      <3>3. y(x) = stores[x]
        BY <1>1, <1>2, <1>7, <3>1, <3>2, StoresHere
      <3>4. \A z \in Loc : z # x =>
              ((\E u \in Tid : CasPending(u)' /\ op'[u].loc = z)
               <=> (\E u \in Tid : CasPending(u) /\ op[u].loc = z))
        BY <1>1, <1>4
      <3>5. \A z \in Loc : z # x => y(z) = stores[z]
        BY <3>2, <3>4 DEF stores
      <3>6. stores' = [z \in Loc |-> y(z)] /\ stores = [z \in Loc |-> stores[z]]
        BY DEF stores
      <3> HIDE DEF y
      <3> QED BY <3>3, <3>5, <3>6
    <2>2. CASE op[t].kind # "cas"
      <3>1. ~CasPending(t)' /\ mem' = mem
        BY <1>1, <2>2 DEF CasPending, Cas
      <3> QED BY <1>1, <1>4, <1>7, <3>1, StoresKept
    <2> QED BY <2>1, <2>2
  <1> QED BY <1>1, <1>6, <1>8 DEF Atomic!avars

\* ReleaseStoreImpl and RMWImpl: the last access of a CAS that succeeds.
LEMMA SyncClockMaps ==
  ASSUME IInv, NEW t \in Tid, Step(t), SyncClock(t)
  PROVE  [Atomic!ANext]_(Atomic!avars)
  <1> DEFINE x == op[t].loc
             n == Len(buf[x])
  <1>1. /\ pc[t] = "clock" /\ UNCHANGED <<op, mem, swrite, sfence>>
        /\ pc'[t] = IF op[t].kind = "cas" THEN Leave(op[t]) ELSE "memory"
    BY MovedTo DEF SyncClock
  <1>2. /\ HoldsVar(t) /\ x \in Loc /\ op[t] \in Operation /\ op[t].isSc \in BOOLEAN
        /\ DataAt(t) /\ CopyAt(t) /\ mem[x] \in Nat /\ n \in Nat /\ Fits("clock", op[t])
    BY <1>1, AccessHolds, TypesHere, TypesThere, OperationType DEF Access, SyncClock, ScFence, ScCopy
  <1>3. \A u \in Tid : u # t => pc'[u] = pc[u]
    BY OthersStay
  <1>4. CASE op[t].kind = "cas"
    <2>1. pc'[t] \in {"scunlock", "unlock"}
      BY <1>1, <1>2, <1>4, LeaveFits
    <2>2. clk[x] = n /\ mem[x] = n + 1 /\ seen[t].val = n
      BY <1>1, <1>2, <1>4 DEF DataAt
    <2>3. stores[x] = n
      <3>1. CasPending(t)
        BY <1>1, <1>4 DEF CasPending
      <3> QED BY <1>2, <2>2, <3>1, StoresHere
    <2>4. Atomic!Finds(stores[x], op[t].isSc)
      <3>1. Found(t, n, n, op[t].isSc)
        BY <1>4, <2>2 DEF SyncClock
      <3>2. op[t].isSc => HoldsSc(t) /\ pc[t] # "sccopy" /\ copy[t] = sfence
        BY <1>1, <1>2, <1>4 DEF HoldsSc, CopyAt
      <3> QED BY <1>2, <2>3, <3>1, <3>2, FindsOne
    <2>5. Atomic!Adds(x)
      <3>1. ~CasPending(t)'
        BY <2>1 DEF CasPending
      <3>2. mem'[x] = stores[x] + 1
        BY <1>1, <2>2, <2>3
      <3>3. stores' = [stores EXCEPT ![x] = @ + 1]
        BY <1>1, <1>2, <1>3, <3>1, <3>2, StoresAdded
      <3> QED BY <3>3 DEF Atomic!Adds
    <2>6. Atomic!SWrites(t, op[t].isSc)
      BY <1>1, <1>3, <2>1, WriteEnds
    <2>7. sfenceDone' = sfenceDone
      BY <1>1, <1>3, <2>1, ContextKept
    <2>8. Atomic!ARmw(t, x, op[t].isSc)
      BY <2>4, <2>5, <2>6, <2>7 DEF Atomic!ARmw
    <2> QED BY <1>2, <2>8 DEF Atomic!ANext
  <1>5. CASE op[t].kind # "cas"
    <2>1. (CasPending(t)' <=> CasPending(t)) /\ (WritePending(t)' <=> WritePending(t))
      BY <1>1, <1>5 DEF CasPending, WritePending
    <2>2. found' = found
      BY <1>5 DEF SyncClock
    <2>3. UNCHANGED Atomic!avars
      BY <1>1, <1>5, <2>1, <2>2, OthersStay, Stutters
    <2> QED BY <2>3
  <1> QED BY <1>4, <1>5

\* NoTsanAtomicStore: the last access of a store, and of an RMW.
LEMMA MemoryMaps ==
  ASSUME IInv, NEW t \in Tid, Step(t), Memory(t)
  PROVE  Atomic!ANext
  <1> DEFINE x == op[t].loc
             n == Len(buf[x])
  <1>1. /\ pc[t] = "memory" /\ UNCHANGED <<op, swrite, sfence>> /\ pc'[t] = Leave(op[t])
        /\ mem' = [mem EXCEPT ![x] = @ + 1]
    BY MovedTo DEF Memory, locals
  <1>2. /\ HoldsVar(t) /\ x \in Loc /\ op[t] \in Operation /\ op[t].isSc \in BOOLEAN
        /\ DataAt(t) /\ CopyAt(t) /\ mem[x] \in Nat /\ n \in Nat /\ Fits("memory", op[t])
    BY <1>1, AccessHolds, TypesHere, TypesThere, OperationType DEF Access, Memory, ScFence, ScCopy
  <1>3. \A u \in Tid : u # t => pc'[u] = pc[u]
    BY OthersStay
  <1>4. pc'[t] \in {"scunlock", "unlock"}
    BY <1>1, <1>2, LeaveFits
  <1>5. mem[x] = n /\ clk[x] = n + 1 /\ seen[t].clk = n
    BY <1>1, <1>2 DEF DataAt
  <1>6. ~CasPending(t) /\ ~CasPending(t)'
    BY <1>1, <1>4 DEF CasPending
  <1>7. stores[x] = n
    BY <1>2, <1>5, <1>6, StoresHere
  <1>8. Atomic!Adds(x)
    <2>1. mem'[x] = stores[x] + 1 /\ \A z \in Loc : z # x => mem'[z] = mem[z]
      BY <1>1, <1>2, <1>5, <1>7 DEF IInv, DataTypes
    <2>2. stores' = [stores EXCEPT ![x] = @ + 1]
      BY <1>1, <1>2, <1>3, <1>6, <2>1, StoresAdded
    <2> QED BY <2>2 DEF Atomic!Adds
  <1>9. Atomic!SWrites(t, op[t].isSc)
    BY <1>1, <1>3, <1>4, WriteEnds
  <1>10. sfenceDone' = sfenceDone
    BY <1>1, <1>3, <1>4, ContextKept
  <1>11. CASE op[t].kind = "rmw"
    <2>1. Found(t, n, n, op[t].isSc)
      BY <1>5, <1>11 DEF Memory
    <2>2. op[t].isSc => HoldsSc(t) /\ pc[t] # "sccopy" /\ copy[t] = sfence
      BY <1>1, <1>2, <1>11 DEF HoldsSc, CopyAt
    <2>3. Atomic!Finds(stores[x], op[t].isSc)
      BY <1>2, <1>7, <2>1, <2>2, FindsOne
    <2>4. Atomic!ARmw(t, x, op[t].isSc)
      BY <1>8, <1>9, <1>10, <2>3 DEF Atomic!ARmw
    <2> QED BY <1>2, <2>4 DEF Atomic!ANext
  <1>12. CASE op[t].kind # "rmw"
    <2>1. found' = found
      BY <1>12 DEF Memory
    <2>2. Atomic!AStore(t, x, op[t].isSc)
      BY <1>8, <1>9, <1>10, <2>1 DEF Atomic!AStore
    <2> QED BY <1>2, <2>2 DEF Atomic!ANext
  <1> QED BY <1>11, <1>12

\* A load and a CAS that fails change nothing that is to be seen.
LEMMA LookLeaves ==
  ASSUME IInv, NEW t \in Tid, Step(t), Fetch(t) \/ Advance(t)
  PROVE  /\ UNCHANGED <<stores, swriteDone, sfenceDone>>
         /\ HoldsVar(t) /\ op[t] \in Operation /\ op[t].loc \in Loc
         /\ stores[op[t].loc] = Len(buf[op[t].loc]) + 1
         /\ mem[op[t].loc] = Len(buf[op[t].loc]) + 1 /\ clk[op[t].loc] = Len(buf[op[t].loc]) + 1
         /\ op[t].kind = "casfail" => seen[t].val = Len(buf[op[t].loc]) + 1
  <1>1. /\ pc[t] \in {"fetch", "advance"} /\ UNCHANGED <<op, mem, swrite, sfence>>
        /\ pc'[t] = Leave(op[t])
    BY MovedTo DEF Fetch, Advance, locals
  <1>2. /\ HoldsVar(t) /\ op[t] \in Operation /\ op[t].loc \in Loc /\ DataAt(t)
        /\ Fits(pc[t], op[t])
    BY <1>1, AccessHolds, TypesHere DEF Access, Fetch, Advance, ScFence, ScCopy
  <1>3. pc'[t] \in {"scunlock", "unlock"} /\ op[t].kind \in {"load", "casfail"}
        /\ (op[t].kind = "casfail" => pc[t] = "advance")
    BY <1>1, <1>2, LeaveFits DEF Fits
  <1>4. \A u \in Tid : u # t => pc'[u] = pc[u]
    BY OthersStay
  <1>5. \A u \in Tid : /\ CasPending(u)' <=> CasPending(u)
                       /\ WritePending(u)' <=> WritePending(u)
                       /\ pc'[u] = "sccopy" <=> pc[u] = "sccopy"
    BY <1>1, <1>3, <1>4 DEF CasPending, WritePending
  <1>6. UNCHANGED <<stores, swriteDone, sfenceDone>>
    BY <1>1, <1>5, StoresKept, ContextKept
  <1>7. Settled(op[t].loc) /\ (op[t].kind = "casfail" => seen[t].val = Len(buf[op[t].loc]) + 1)
    BY <1>1, <1>2, <1>3 DEF DataAt
  <1>8. ~CasPending(t)
    BY <1>1 DEF CasPending
  <1> QED BY <1>2, <1>6, <1>7, <1>8, StoresHere DEF Settled

\* FetchStore: the value and the clock are those of one store.
LEMMA FetchMaps ==
  ASSUME IInv, NEW t \in Tid, Step(t), Fetch(t)
  PROVE  Atomic!ANext
  <1> DEFINE x == op[t].loc
             n == Len(buf[x])
  <1>1. /\ UNCHANGED <<stores, swriteDone, sfenceDone>>
        /\ HoldsVar(t) /\ op[t] \in Operation /\ x \in Loc /\ op[t].isSc \in BOOLEAN
        /\ stores[x] = n + 1 /\ mem[x] = n + 1 /\ clk[x] = n + 1 /\ n \in Nat
    BY LookLeaves, TypesThere, OperationType
  <1>2. PICK m \in 1..(n + 1) : Found(t, m, m, op[t].isSc)
    <2>1. CASE \E p \in 1..n : Found(t, buf[x][p].val, buf[x][p].clk, op[t].isSc)
      <3>1. PICK p \in 1..n : Found(t, buf[x][p].val, buf[x][p].clk, op[t].isSc)
        BY <2>1
      <3>2. buf[x][p] = [val |-> p, clk |-> p]
        BY <1>1 DEF IInv, DataInv, Buffered
      <3>3. Found(t, p, p, op[t].isSc)
        BY <3>1, <3>2
      <3> QED BY <1>1, <3>3
    <2>2. CASE Found(t, mem[x], clk[x], op[t].isSc)
      BY <1>1, <2>2
    <2> QED BY <2>1, <2>2 DEF Fetch
  <1>3. op[t].isSc => HoldsSc(t) /\ pc[t] # "sccopy" /\ copy[t] = sfence
    <2>1. pc[t] = "fetch" /\ CopyAt(t) /\ Fits("fetch", op[t])
      BY TypesHere DEF Fetch
    <2> QED BY <2>1 DEF HoldsSc, CopyAt, Fits
  <1>4. Atomic!Finds(m, op[t].isSc)
    BY <1>1, <1>2, <1>3, FindsOne
  <1>5. Atomic!ALoad(x, op[t].isSc)
    BY <1>1, <1>2, <1>4 DEF Atomic!ALoad
  <1> QED BY <1>1, <1>5 DEF Atomic!ANext

\* A failing CAS: with its bare SCRead, what it takes from the context is anything.
LEMMA AdvanceMaps ==
  ASSUME IInv, NEW t \in Tid, Step(t), Advance(t)
  PROVE  Atomic!ANext
  <1> DEFINE x == op[t].loc
             o == op[t]
  <1>1. pc[t] = "advance" /\ CopyAt(t) /\ Fits("advance", o) /\ copy[t] \in Clock
    BY TypesHere DEF Advance
  <1>2. o.kind = "casfail"
    BY <1>1 DEF Fits
  <1>3. /\ UNCHANGED <<stores, swriteDone, sfenceDone>>
        /\ HoldsVar(t) /\ x \in Loc /\ o.isSc \in BOOLEAN /\ o.fsc \in BOOLEAN
        /\ clk[x] = stores[x] /\ seen[t].val = stores[x]
    BY <1>2, LookLeaves, OperationType
  <1>4. Found(t, stores[x], stores[x], o.fsc)
    BY <1>3 DEF Advance
  <1>5. CASE o.fsc => o.isSc
    <2>1. o.fsc => HoldsSc(t) /\ pc[t] # "sccopy" /\ copy[t] = sfence
      BY <1>1, <1>5 DEF HoldsSc, CopyAt
    <2>2. Atomic!Finds(stores[x], o.fsc)
      BY <1>3, <1>4, <2>1, FindsOne
    <2>3. Atomic!ACasFail(x, o.fsc)
      BY <1>3, <2>2 DEF Atomic!ACasFail
    <2> QED BY <1>3, <2>3 DEF Atomic!ANext
  <1>6. CASE o.fsc /\ ~o.isSc
    <2>1. found' = [val |-> stores[x], clk |-> stores[x], fence |-> copy[t], write |-> Zero]
      BY <1>4, <1>6 DEF Found
    <2>2. found'.fence = copy[t]
      BY <2>1
    <2>3. Atomic!ACasFailBare(x)
      BY <1>1, <1>3, <2>1, <2>2, AtomicNames DEF Atomic!ACasFailBare
    <2> QED BY <1>3, <2>3 DEF Atomic!ANext
  <1> QED BY <1>3, <1>5, <1>6

\* SCFence: what it sets and what it copies are of one moment.
LEMMA ScCopyMaps ==
  ASSUME IInv, NEW t \in Tid, Step(t), ScCopy(t)
  PROVE  Atomic!ANext
  <1>1. /\ pc[t] = "sccopy" /\ pc'[t] = "scunlock" /\ UNCHANGED <<op, mem, swrite, sfence>>
        /\ found' = [val |-> 0, clk |-> 0, fence |-> sfence, write |-> swrite]
    BY MovedTo DEF ScCopy, locals
  <1>2. op[t] = ScFenceOp
    BY <1>1, TypesHere DEF Fits
  <1>3. HoldsSc(t) /\ ~WritePending(t) /\ sfence \in Clock
    BY <1>1, <1>2, FenceType DEF HoldsSc, WritePending, IInv, DataTypes
  <1>4. \A u \in Tid : u # t => pc'[u] = pc[u]
    BY OthersStay
  <1>5. \A u \in Tid : u # t => pc[u] # "sccopy"
    <2> SUFFICES ASSUME NEW u \in Tid, u # t, pc[u] = "sccopy" PROVE FALSE
      OBVIOUS
    <2>1. op[u] = ScFenceOp
      BY TypesHere DEF Fits
    <2>2. HoldsSc(u)
      BY <2>1, FenceType DEF HoldsSc
    <2> QED BY <1>3, <2>2 DEF IInv, LockInv, LocksHeld
  <1>6. \A u \in Tid : (CasPending(u)' <=> CasPending(u)) /\ (WritePending(u)' <=> WritePending(u))
    BY <1>1, <1>4 DEF CasPending, WritePending
  <1>7. stores' = stores /\ swriteDone' = swriteDone /\ swriteDone = swrite
    BY <1>1, <1>3, <1>6, StoresKept, ContextKept, WholeContext
  <1>8. sfenceDone' = sfence
    BY <1>1, <1>3, <1>4, <1>5 DEF sfenceDone, Clock
  <1>9. sfenceDone' = [sfenceDone EXCEPT ![t] = sfenceDone[t] + 1]
    <2>1. sfenceDone[t] + 1 = sfence[t]
      BY <1>1, <1>3 DEF sfenceDone, Clock
    <2>2. sfence = [sfenceDone EXCEPT ![t] = sfence[t]]
      BY <1>3, <1>5 DEF sfenceDone, Clock
    <2> QED BY <1>8, <2>1, <2>2
  <1>10. Atomic!AFence(t)
    BY <1>1, <1>7, <1>8, <1>9 DEF Atomic!AFence
  <1> QED BY <1>10 DEF Atomic!ANext

\* Giving back a mutex is a stutter, or the return of a handler (AReturn).
LEMMA UnlocksMap ==
  ASSUME IInv, NEW t \in Tid, Step(t), UnlockSc(t) \/ UnlockVar(t)
  PROVE  [Atomic!ANext]_(Atomic!avars)
  <1>1. /\ pc[t] \in {"scunlock", "unlock"} /\ pc'[t] \in {"idle", "unlock"}
        /\ UNCHANGED <<mem, swrite, sfence>>
    BY MovedTo DEF UnlockSc, UnlockVar, Return
  <1>2. /\ ~CasPending(t) /\ ~CasPending(t)' /\ ~WritePending(t) /\ ~WritePending(t)'
    BY <1>1 DEF CasPending, WritePending
  <1>3. CASE found' = found
    BY <1>1, <1>2, <1>3, OthersStay, Stutters
  <1>4. CASE found' = Nothing
    <2>1. \A u \in Tid : /\ CasPending(u)' <=> CasPending(u)
                         /\ CasPending(u) => op'[u] = op[u]
                         /\ WritePending(u)' <=> WritePending(u)
                         /\ pc'[u] = "sccopy" <=> pc[u] = "sccopy"
      <3> SUFFICES ASSUME NEW u \in Tid, u # t
                   PROVE  /\ CasPending(u)' <=> CasPending(u)
                          /\ CasPending(u) => op'[u] = op[u]
                          /\ WritePending(u)' <=> WritePending(u)
                          /\ pc'[u] = "sccopy" <=> pc[u] = "sccopy"
        BY <1>1, <1>2
      <3> QED BY OthersStay DEF CasPending, WritePending
    <2>2. UNCHANGED <<stores, swriteDone, sfenceDone>>
      BY <1>1, <2>1, StoresKept, ContextKept
    <2>3. Atomic!AReturn
      BY <1>4, <2>2, AtomicNames DEF Atomic!AReturn
    <2> QED BY <2>3 DEF Atomic!ANext
  <1> QED BY <1>3, <1>4 DEF UnlockSc, UnlockVar, Return

\* The initial states map to initial states.
LEMMA InitMaps == Init => Atomic!AInit
  <1> SUFFICES ASSUME Init PROVE Atomic!AInit
    OBVIOUS
  <1>1. \A t \in Tid : ~CasPending(t) /\ ~WritePending(t) /\ pc[t] # "sccopy"
    BY DEF Init, CasPending, WritePending
  <1>2. stores = [x \in Loc |-> 1]
    BY <1>1 DEF Init, stores
  <1>3. swriteDone = Zero /\ sfenceDone = Zero
    BY <1>1 DEF Init, swriteDone, sfenceDone, Zero
  <1> QED BY <1>2, <1>3, AtomicNames DEF Init, Atomic!AInit

\* Every step maps to a step of the atomic handlers, or to a stutter.
LEMMA NextMaps == IInv /\ [Next]_vars => [Atomic!ANext]_(Atomic!avars)
  <1> SUFFICES ASSUME IInv, [Next]_vars PROVE [Atomic!ANext]_(Atomic!avars)
    OBVIOUS
  <1>1. CASE UNCHANGED vars
    <2>1. UNCHANGED <<stores, swriteDone, sfenceDone, found>>
      BY <1>1 DEF vars, locals, stores, swriteDone, sfenceDone, CasPending, WritePending
    <2> QED BY <2>1 DEF Atomic!avars
  <1>2. ASSUME NEW t \in Tid, NEW o \in Operation \cup {ScFenceOp}, Call(t, o)
        PROVE  [Atomic!ANext]_(Atomic!avars)
    BY <1>2, CallStutters
  <1>3. ASSUME NEW t \in Tid, Step(t)
        PROVE  [Atomic!ANext]_(Atomic!avars)
    BY <1>3, LocksStutter, ScReadStutters, ScWriteStutters, CasStutters, BufferStutters,
       SyncClockMaps, MemoryMaps, FetchMaps, AdvanceMaps, ScFenceStutters, ScCopyMaps, UnlocksMap
       DEF Step
  <1> QED BY <1>1, <1>2, <1>3 DEF Next

\* Every handler takes effect at once, at its last access: what the program sees of
\* the handlers is a behaviour of AtomicHandlers.
THEOREM HandlersImplementAtomic == Spec => HandlersAreAtomic
  <1>1. Init => Atomic!AInit
    BY InitMaps
  <1>2. IInv /\ [Next]_vars => [Atomic!ANext]_(Atomic!avars)
    BY NextMaps
  <1> QED BY <1>1, <1>2, DataInvariant, PTL DEF Spec, HandlersAreAtomic, Atomic!ASpec

=============================================================================
