---------------------------- MODULE TicketLockProofs ----------------------------
(***************************************************************************)
(* For any number of tickets, users, handlers and janitors, overlapping at *)
(* will: the keys and the operations in flight keep their types, and a key *)
(* outlives the lock in it.  The invariant is inductive once each write is *)
(* known to keep a key whose deadline is not before its lock's, and a      *)
(* janitor about to read a key to have chosen one.  A second layer keeps,  *)
(* for each write that is still to come, what its handler read: it bounds  *)
(* who may take an active lock away.                                       *)
(***************************************************************************)
EXTENDS TicketLock, TLAPS

KeyOK(key) == key \in Keys /\ (key.expires > 0 => key.expires <= key.ttl)

LocksOK == lock \in [Tickets -> Keys] /\ \A t \in Tickets : KeyOK(lock[t])

RecordOK(rec) == rec \in ProcRecords /\ (rec.pc = "sweep_read" => rec.ticket \in Tickets)

ProcsOK == proc \in [Procs -> ProcRecords] /\ \A p \in Procs : RecordOK(proc[p])

RestOK == said \in [Tickets -> Events] /\ crashes \in 0..MaxCrashes

IInv == LocksOK /\ ProcsOK /\ RestOK

--------------------------------------------------------------------------------
(* The keys that the operations write.                                     *)

LEMMA Bounds == 0 \in 0..Ttl /\ Ttl \in 0..Ttl
BY ConstantsAssumption

\* A fresh lock has as long to live as its key.
LEMMA HeldOK ==
    ASSUME NEW u \in Users \cup {None}, NEW expires \in 0..Ttl
    PROVE  KeyOK(Held(u, expires))
BY ConstantsAssumption DEF KeyOK, Keys, Held

\* A refresh moves both deadlines, on a key that lives or on one that has gone.
LEMMA RefreshedOK ==
    ASSUME NEW key \in Keys, NEW expires \in 0..Ttl
    PROVE  KeyOK(Refreshed(key, expires))
<1>1. Refreshed(key, expires) \in Keys
  BY Bounds DEF Refreshed, Keys
<1>2. Refreshed(key, expires).expires = expires /\ Refreshed(key, expires).ttl = Ttl
  BY DEF Refreshed, Keys
<1> QED
  BY <1>1, <1>2 DEF KeyOK

\* A deleted key holds no lock.
LEMMA NoKeyOK == KeyOK(NoKey)
BY ConstantsAssumption DEF KeyOK, Keys, NoKey

\* Time brings both deadlines nearer by the same amount.
LEMMA OlderOK ==
    ASSUME NEW key, KeyOK(key)
    PROVE  KeyOK(Older(key))
<1>1. CASE key.ttl <= 0
  BY <1>1, NoKeyOK DEF Older
<1>2. CASE key.ttl > 0
  <2> DEFINE left == IF key.expires = 0 THEN 0 ELSE key.expires - 1
             life == key.ttl - 1
  <2>1. left \in 0..Ttl /\ life \in 0..Ttl /\ (left > 0 => left <= life)
    BY <1>2, ConstantsAssumption DEF KeyOK, Keys
  <2>2. Older(key) = [key EXCEPT !.ttl = life, !.expires = left]
    <3>1. ~(key.ttl <= 0)
      BY <1>2 DEF KeyOK, Keys
    <3> QED
      BY <3>1 DEF Older
  <2> HIDE DEF left, life
  <2>3. Older(key) \in Keys
    BY <2>1, <2>2 DEF KeyOK, Keys
  <2>4. Older(key).expires = left /\ Older(key).ttl = life
    BY <2>2 DEF KeyOK, Keys
  <2> QED
    BY <2>1, <2>3, <2>4 DEF KeyOK
<1> QED
  BY <1>1, <1>2, ConstantsAssumption DEF KeyOK, Keys

\* One key written, whichever it is.
LEMMA LockWritten ==
    ASSUME LocksOK, NEW t, NEW key, KeyOK(key), lock' = [lock EXCEPT ![t] = key]
    PROVE  LocksOK'
BY DEF LocksOK, KeyOK

--------------------------------------------------------------------------------
(* The records of the operations in flight.                                *)

LEMMA IdleOK == Idle \in ProcRecords /\ RecordOK(Idle)
BY ConstantsAssumption DEF Idle, ProcRecords, PCs, RecordOK

\* One record written.
LEMMA RecordWritten ==
    ASSUME ProcsOK, NEW p \in Procs, NEW rec, RecordOK(rec),
           proc' = [proc EXCEPT ![p] = rec]
    PROVE  ProcsOK'
BY DEF ProcsOK, RecordOK

LEMMA FinishKept ==
    ASSUME ProcsOK, NEW p \in Procs, Finish(p)
    PROVE  ProcsOK'
BY IdleOK, RecordWritten DEF Finish

LEMMA EmittingKept ==
    ASSUME ProcsOK, NEW p \in Procs,
           NEW event \in {"acquired", "refreshed", "released", "expired"}, Emitting(p, event)
    PROVE  ProcsOK'
<1> DEFINE rec == [proc[p] EXCEPT !.pc = "emit", !.event = event, !.expires = 0]
<1>1. proc[p] \in ProcRecords
  BY DEF ProcsOK
<1>2. rec \in ProcRecords /\ rec.pc = "emit"
  BY <1>1, Bounds DEF ProcRecords, PCs
<1>3. proc' = [proc EXCEPT ![p] = rec]
  BY DEF Emitting, ProcsOK
<1> QED
  BY <1>2, <1>3, RecordWritten DEF RecordOK

LEMMA SweepOnKept ==
    ASSUME ProcsOK, NEW p \in Procs, NEW rest \in SUBSET Tickets, SweepOn(p, rest)
    PROVE  ProcsOK'
<1> DEFINE rec == [Idle EXCEPT !.pc = "sweep_ttl", !.batch = rest]
<1>1. rec \in ProcRecords /\ rec.pc = "sweep_ttl"
  BY IdleOK DEF ProcRecords, PCs
<1>2. proc' = [proc EXCEPT ![p] = rec] \/ proc' = [proc EXCEPT ![p] = Idle]
  BY DEF SweepOn
<1> QED
  BY <1>1, <1>2, IdleOK, RecordWritten DEF RecordOK

--------------------------------------------------------------------------------
(* Every step keeps the invariant.                                         *)

LEMMA ArriveKept ==
    ASSUME IInv, NEW p \in Handlers, Arrive(p)
    PROVE  IInv'
<1>0. p \in Procs
  BY DEF Procs
<1>1. PICK t \in Tickets, u \in Users :
        \/ AcquireRead(p, t, u)
        \/ RefreshRead(p, t, u)
        \/ \E force \in BOOLEAN : ReleaseRead(p, t, u, force)
  BY DEF Arrive
<1>2. /\ lock[t].locked_by \in Users \cup {None}
      /\ ActiveHolder(t) \in Users \cup {None}
  BY DEF IInv, LocksOK, Keys, ActiveHolder
<1>3. UNCHANGED <<lock, said, crashes>>
  BY <1>1 DEF AcquireRead, RefreshRead, ReleaseRead
<1>4. PICK rec : RecordOK(rec) /\ proc' = [proc EXCEPT ![p] = rec]
  <2>1. CASE AcquireRead(p, t, u)
    <3> DEFINE rec == [Idle EXCEPT !.pc = "acquire_write", !.ticket = t, !.user = u,
                                   !.seen = ActiveHolder(t), !.expires = Ttl]
    <3>1. rec \in ProcRecords /\ rec.pc = "acquire_write"
      BY <1>2, IdleOK, Bounds DEF ProcRecords, PCs
    <3> QED
      BY <2>1, <3>1 DEF AcquireRead, RecordOK
  <2>2. CASE RefreshRead(p, t, u)
    <3> DEFINE rec == [Idle EXCEPT !.pc = "refresh_write", !.ticket = t, !.user = u,
                                   !.seen = lock[t].locked_by, !.expires = Ttl]
    <3>1. rec \in ProcRecords /\ rec.pc = "refresh_write"
      BY <1>2, IdleOK, Bounds DEF ProcRecords, PCs
    <3> QED
      BY <2>2, <3>1 DEF RefreshRead, RecordOK
  <2>3. CASE \E force \in BOOLEAN : ReleaseRead(p, t, u, force)
    <3> DEFINE rec == [Idle EXCEPT !.pc = "release_delete", !.ticket = t, !.user = u,
                                   !.seen = lock[t].locked_by]
    <3>1. rec \in ProcRecords /\ rec.pc = "release_delete"
      BY <1>2, IdleOK DEF ProcRecords, PCs
    <3> QED
      BY <2>3, <3>1 DEF ReleaseRead, RecordOK
  <2> QED
    BY <1>1, <2>1, <2>2, <2>3
<1>5. ProcsOK'
  BY <1>0, <1>4, RecordWritten DEF IInv
<1> QED
  BY <1>3, <1>5 DEF IInv, LocksOK, RestOK

LEMMA WriteKept ==
    ASSUME IInv, NEW p \in Procs, AcquireWrite(p) \/ RefreshWrite(p) \/ ReleaseDelete(p)
    PROVE  IInv'
<1> DEFINE t == proc[p].ticket
<1>1. proc[p].user \in Users \cup {None} /\ proc[p].expires \in 0..Ttl
  BY DEF IInv, ProcsOK, ProcRecords
<1>2. CASE AcquireWrite(p)
  <2>1. KeyOK(Held(proc[p].user, proc[p].expires))
    BY <1>1, HeldOK
  <2> QED
    BY <1>2, <2>1, LockWritten, EmittingKept DEF AcquireWrite, IInv, RestOK
<1>3. CASE RefreshWrite(p)
  <2>1. CASE t \in Tickets
    <3>1. KeyOK(Refreshed(lock[t], proc[p].expires))
      BY <1>1, <2>1, RefreshedOK DEF IInv, LocksOK
    <3> QED
      BY <1>3, <3>1, LockWritten, EmittingKept DEF RefreshWrite, IInv, RestOK
  <2>2. CASE t \notin Tickets
    <3>1. lock' = lock
      BY <1>3, <2>2 DEF RefreshWrite, IInv, LocksOK
    <3> QED
      BY <1>3, <3>1, EmittingKept DEF RefreshWrite, IInv, LocksOK, RestOK
  <2> QED
    BY <2>1, <2>2
<1>4. CASE ReleaseDelete(p)
  BY <1>4, NoKeyOK, LockWritten, EmittingKept DEF ReleaseDelete, IInv, RestOK
<1> QED
  BY <1>2, <1>3, <1>4

LEMMA SweepKept ==
    ASSUME IInv, NEW p \in Procs,
           SweepScan(p) \/ SweepTtl(p) \/ SweepRead(p) \/ SweepDelete(p)
    PROVE  IInv'
<1>1. proc[p] \in ProcRecords /\ proc[p].batch \in SUBSET Tickets
  BY DEF IInv, ProcsOK, ProcRecords
<1>2. CASE SweepScan(p)
  BY <1>2, SweepOnKept DEF SweepScan, IInv, LocksOK, RestOK
<1>3. CASE SweepTtl(p)
  <2>1. PICK t \in proc[p].batch :
          IF Lapsed(t) THEN proc' = [proc EXCEPT ![p].pc = "sweep_read", ![p].ticket = t]
          ELSE SweepOn(p, proc[p].batch \ {t})
    BY <1>3 DEF SweepTtl
  <2>2. ProcsOK'
    <3> DEFINE rec == [proc[p] EXCEPT !.pc = "sweep_read", !.ticket = t]
    <3>1. rec \in ProcRecords /\ rec.ticket = t /\ t \in Tickets
      BY <1>1 DEF ProcRecords, PCs
    <3>2. CASE Lapsed(t)
      <4>1. proc' = [proc EXCEPT ![p] = rec]
        BY <2>1, <3>2 DEF IInv, ProcsOK
      <4> QED
        BY <3>1, <4>1, RecordWritten DEF IInv, RecordOK
    <3>3. CASE ~Lapsed(t)
      BY <1>1, <2>1, <3>3, SweepOnKept DEF IInv
    <3> QED
      BY <3>2, <3>3
  <2> QED
    BY <1>3, <2>2 DEF SweepTtl, IInv, LocksOK, RestOK
<1>4. CASE SweepRead(p)
  <2> DEFINE by == lock[proc[p].ticket].locked_by
             rec == [proc[p] EXCEPT !.pc = "sweep_delete", !.seen = by]
  <2>1. by \in Users \cup {None}
    BY <1>4 DEF SweepRead, IInv, ProcsOK, RecordOK, LocksOK, Keys
  <2>2. rec \in ProcRecords /\ rec.pc = "sweep_delete"
    BY <1>1, <2>1 DEF ProcRecords, PCs
  <2>3. proc' = [proc EXCEPT ![p] = rec]
    BY <1>4 DEF SweepRead, IInv, ProcsOK
  <2>4. ProcsOK'
    BY <2>2, <2>3, RecordWritten DEF IInv, RecordOK
  <2> QED
    BY <1>4, <2>4 DEF SweepRead, IInv, LocksOK, RestOK
<1>5. CASE SweepDelete(p)
  BY <1>5, NoKeyOK, LockWritten, EmittingKept DEF SweepDelete, IInv, RestOK
<1> QED
  BY <1>2, <1>3, <1>4, <1>5

LEMMA EmitKept ==
    ASSUME IInv, NEW p \in Procs, Emit(p)
    PROVE  IInv'
<1>1. proc[p] \in ProcRecords
  BY DEF IInv, ProcsOK
<1>2. ProcsOK'
  <2>1. proc[p].batch \ {proc[p].ticket} \in SUBSET Tickets
    BY <1>1 DEF ProcRecords
  <2> QED
    BY <2>1, SweepOnKept DEF Emit, IInv
<1>3. said' \in [Tickets -> Events]
  <2> DEFINE by == IF p \in Janitors THEN proc[p].seen ELSE proc[p].user
  <2>1. [type |-> proc[p].event, by |-> by] \in Events
    BY <1>1 DEF ProcRecords, Events
  <2> QED
    BY <2>1 DEF Emit, IInv, RestOK
<1> QED
  BY <1>2, <1>3 DEF Emit, IInv, LocksOK, RestOK

LEMMA TickKept ==
    ASSUME IInv, Tick
    PROVE  IInv'
<1>1. LocksOK'
  BY OlderOK DEF Tick, IInv, LocksOK, KeyOK
<1>2. ProcsOK'
  <2>1. ASSUME NEW p \in Procs
        PROVE  RecordOK([proc[p] EXCEPT !.expires = IF @ = 0 THEN 0 ELSE @ - 1])
    <3> DEFINE left == IF proc[p].expires = 0 THEN 0 ELSE proc[p].expires - 1
    <3>1. proc[p] \in ProcRecords /\ RecordOK(proc[p])
      BY DEF IInv, ProcsOK
    <3>2. left \in 0..Ttl
      BY <3>1, ConstantsAssumption DEF ProcRecords
    <3> HIDE DEF left
    <3>3. RecordOK([proc[p] EXCEPT !.expires = left])
      BY <3>1, <3>2 DEF ProcRecords, RecordOK
    <3> QED
      BY <3>3 DEF left
  <2> QED
    BY <2>1 DEF Tick, ProcsOK, RecordOK
<1> QED
  BY <1>1, <1>2 DEF Tick, IInv, RestOK

LEMMA CrashKept ==
    ASSUME IInv, NEW p \in Procs, Crash(p)
    PROVE  IInv'
BY FinishKept, ConstantsAssumption DEF Crash, IInv, LocksOK, RestOK

LEMMA StepKept ==
    ASSUME IInv, [Next]_vars
    PROVE  IInv'
<1>1. CASE Tick
  BY <1>1, TickKept
<1>2. ASSUME NEW p \in Procs, Continue(p) PROVE IInv'
  BY <1>2, WriteKept, SweepKept, EmitKept DEF Continue
<1>3. ASSUME NEW p \in Procs, Crash(p) PROVE IInv'
  BY <1>3, CrashKept
<1>4. ASSUME NEW p \in Handlers, Arrive(p) PROVE IInv'
  BY <1>4, ArriveKept
<1>5. ASSUME NEW p \in Janitors, SweepScan(p) PROVE IInv'
  BY <1>5, SweepKept DEF Procs
<1>6. CASE UNCHANGED vars
  BY <1>6 DEF vars, IInv, LocksOK, ProcsOK, RestOK
<1> QED
  BY <1>1, <1>2, <1>3, <1>4, <1>5, <1>6 DEF Next

LEMMA InitKept == Init => IInv
BY NoKeyOK, IdleOK, ConstantsAssumption
DEF Init, IInv, LocksOK, ProcsOK, RestOK, KeyOK, Events

--------------------------------------------------------------------------------
THEOREM LockInvariant == Spec => []IInv
<1>1. IInv /\ [Next]_vars => IInv'
  BY StepKept
<1> QED
  BY InitKept, <1>1, PTL DEF Spec

\* The keys, the events and the operations in flight keep their types.
THEOREM LockTypeCorrect == Spec => []TypeOK
<1>1. IInv => TypeOK
  BY DEF IInv, LocksOK, ProcsOK, RestOK, TypeOK
<1> QED
  BY LockInvariant, <1>1, PTL

\* However operations overlap, Redis never drops a key before the lock in it ends.
THEOREM KeyOutlivesItsLease == Spec => []KeyOutlivesLease
<1>1. IInv => KeyOutlivesLease
  BY DEF IInv, LocksOK, KeyOK, KeyOutlivesLease
<1> QED
  BY LockInvariant, <1>1, PTL

--------------------------------------------------------------------------------
(* Who may take an active lock away.  Each write is justified by what the  *)
(* operation saw when it read; only a janitor sweeps.                      *)

Justified(p, rec) ==
    /\ rec.pc = "acquire_write" => rec.seen \in {rec.user, None}
    /\ rec.pc = "refresh_write" => rec.seen = rec.user
    /\ rec.pc = "release_delete" => rec.user \in Admins \/ rec.seen \in {rec.user, None}
    /\ rec.pc \in {"sweep_ttl", "sweep_read", "sweep_delete"} => p \in Janitors
    /\ p \notin Janitors => rec.batch = {}

AllJustified == \A p \in Procs : Justified(p, proc[p])

LEMMA IdleJustified == \A p : Justified(p, Idle)
BY DEF Justified, Idle

LEMMA JustifiedWritten ==
    ASSUME ProcsOK, AllJustified, NEW p \in Procs, NEW rec, Justified(p, rec),
           proc' = [proc EXCEPT ![p] = rec]
    PROVE  AllJustified'
BY DEF ProcsOK, AllJustified, Justified

LEMMA EmittingJustified ==
    ASSUME ProcsOK, AllJustified, NEW p \in Procs, NEW event, Emitting(p, event)
    PROVE  AllJustified'
<1> DEFINE rec == [proc[p] EXCEPT !.pc = "emit", !.event = event, !.expires = 0]
<1>1. rec.pc = "emit" /\ rec.batch = proc[p].batch
  BY DEF ProcsOK, ProcRecords
<1>2. Justified(p, rec)
  BY <1>1 DEF AllJustified, Justified
<1>3. proc' = [proc EXCEPT ![p] = rec]
  BY DEF Emitting, ProcsOK
<1> QED
  BY <1>2, <1>3, JustifiedWritten

LEMMA SweepOnJustified ==
    ASSUME ProcsOK, AllJustified, NEW p \in Procs, NEW rest, SweepOn(p, rest),
           p \in Janitors \/ rest = {}
    PROVE  AllJustified'
<1> DEFINE rec == [Idle EXCEPT !.pc = "sweep_ttl", !.batch = rest]
<1>1. CASE rest = {}
  BY <1>1, IdleJustified, JustifiedWritten DEF SweepOn
<1>2. CASE rest # {}
  <2>1. rec.pc = "sweep_ttl"
    BY DEF Idle
  <2>2. Justified(p, rec)
    BY <1>2, <2>1 DEF Justified
  <2>3. proc' = [proc EXCEPT ![p] = rec]
    BY <1>2 DEF SweepOn
  <2> QED
    BY <2>2, <2>3, JustifiedWritten
<1> QED
  BY <1>1, <1>2

LEMMA ArriveJustified ==
    ASSUME IInv, AllJustified, NEW p \in Handlers, Arrive(p) PROVE AllJustified'
<1>0. p \in Procs /\ p \notin Janitors
  BY ConstantsAssumption DEF Procs
<1>1. ASSUME NEW t, NEW u, AcquireRead(p, t, u) PROVE AllJustified'
  <2> DEFINE rec == [Idle EXCEPT !.pc = "acquire_write", !.ticket = t, !.user = u,
                                 !.seen = ActiveHolder(t), !.expires = Ttl]
  <2>1. rec.pc = "acquire_write" /\ rec.seen = ActiveHolder(t) /\ rec.user = u /\ rec.batch = {}
    BY DEF Idle
  <2>2. ActiveHolder(t) \in {u, None} /\ proc' = [proc EXCEPT ![p] = rec]
    BY <1>1 DEF AcquireRead, MayAcquire
  <2> HIDE DEF rec
  <2>3. Justified(p, rec)
    BY <2>1, <2>2 DEF Justified
  <2> QED
    BY <1>0, <2>2, <2>3, JustifiedWritten DEF IInv
<1>2. ASSUME NEW t, NEW u \in Users, RefreshRead(p, t, u) PROVE AllJustified'
  <2> DEFINE rec == [Idle EXCEPT !.pc = "refresh_write", !.ticket = t, !.user = u,
                                 !.seen = lock[t].locked_by, !.expires = Ttl]
  <2>1. rec.pc = "refresh_write" /\ rec.seen = lock[t].locked_by /\ rec.user = u
        /\ rec.batch = {}
    BY DEF Idle
  <2>2. ActiveHolder(t) = u /\ proc' = [proc EXCEPT ![p] = rec]
    BY <1>2 DEF RefreshRead, MayRefresh
  <2> HIDE DEF rec
  <2>3. lock[t].locked_by = u
    BY <2>2, ConstantsAssumption DEF ActiveHolder
  <2>4. Justified(p, rec)
    BY <2>1, <2>3 DEF Justified
  <2> QED
    BY <1>0, <2>2, <2>4, JustifiedWritten DEF IInv
<1>3. ASSUME NEW t, NEW u, NEW force, ReleaseRead(p, t, u, force) PROVE AllJustified'
  <2> DEFINE rec == [Idle EXCEPT !.pc = "release_delete", !.ticket = t, !.user = u,
                                 !.seen = lock[t].locked_by]
  <2>1. rec.pc = "release_delete" /\ rec.seen = lock[t].locked_by /\ rec.user = u
        /\ rec.batch = {}
    BY DEF Idle
  <2>2. u \in Admins \/ lock[t].locked_by \in {u, None}
    BY <1>3 DEF ReleaseRead, MayRelease
  <2>3. proc' = [proc EXCEPT ![p] = rec]
    BY <1>3 DEF ReleaseRead
  <2> HIDE DEF rec
  <2>4. Justified(p, rec)
    BY <2>1, <2>2 DEF Justified
  <2> QED
    BY <1>0, <2>3, <2>4, JustifiedWritten DEF IInv
<1> QED
  BY <1>1, <1>2, <1>3 DEF Arrive

LEMMA SweepJustified ==
    ASSUME IInv, AllJustified, NEW p \in Procs, SweepTtl(p) \/ SweepRead(p)
    PROVE  AllJustified'
<1>1. p \in Janitors
  BY DEF AllJustified, Justified, SweepTtl, SweepRead
<1>2. ASSUME NEW rec, rec.pc \in {"sweep_read", "sweep_delete"} PROVE Justified(p, rec)
  BY <1>1, <1>2 DEF Justified
<1>3. CASE SweepTtl(p)
  <2>1. PICK t \in proc[p].batch :
          IF Lapsed(t) THEN proc' = [proc EXCEPT ![p].pc = "sweep_read", ![p].ticket = t]
          ELSE SweepOn(p, proc[p].batch \ {t})
    BY <1>3 DEF SweepTtl
  <2>2. CASE Lapsed(t)
    <3> DEFINE rec == [proc[p] EXCEPT !.pc = "sweep_read", !.ticket = t]
    <3>1. rec.pc = "sweep_read"
      BY DEF IInv, ProcsOK, ProcRecords
    <3>2. proc' = [proc EXCEPT ![p] = rec]
      BY <2>1, <2>2 DEF IInv, ProcsOK
    <3> HIDE DEF rec
    <3>3. Justified(p, rec)
      BY <1>2, <3>1
    <3> QED
      BY <3>2, <3>3, JustifiedWritten DEF IInv
  <2>3. CASE ~Lapsed(t)
    BY <1>1, <2>1, <2>3, SweepOnJustified DEF IInv
  <2> QED
    BY <2>2, <2>3
<1>4. CASE SweepRead(p)
  <2> DEFINE rec == [proc[p] EXCEPT !.pc = "sweep_delete",
                                    !.seen = lock[proc[p].ticket].locked_by]
  <2>1. rec.pc = "sweep_delete"
    BY DEF IInv, ProcsOK, ProcRecords
  <2>2. proc' = [proc EXCEPT ![p] = rec]
    BY <1>4 DEF SweepRead, IInv, ProcsOK
  <2> HIDE DEF rec
  <2>3. Justified(p, rec)
    BY <1>2, <2>1
  <2> QED
    BY <2>2, <2>3, JustifiedWritten DEF IInv
<1> QED
  BY <1>3, <1>4

LEMMA TickJustified == ASSUME IInv, AllJustified, Tick PROVE AllJustified'
<1>1. ASSUME NEW p \in Procs PROVE Justified(p, proc[p])'
  <2> DEFINE left == IF proc[p].expires = 0 THEN 0 ELSE proc[p].expires - 1
  <2>1. proc'[p] = [proc[p] EXCEPT !.expires = left]
    BY DEF Tick
  <2> HIDE DEF left
  <2>2. /\ proc'[p].pc = proc[p].pc /\ proc'[p].seen = proc[p].seen
        /\ proc'[p].user = proc[p].user /\ proc'[p].batch = proc[p].batch
    BY <2>1 DEF IInv, ProcsOK, ProcRecords
  <2> QED
    BY <2>2 DEF AllJustified, Justified
<1> QED
  BY <1>1 DEF AllJustified

LEMMA StepJustified == ASSUME IInv, AllJustified, [Next]_vars PROVE AllJustified'
<1>1. ASSUME NEW p \in Procs, Continue(p) PROVE AllJustified'
  <2>1. CASE AcquireWrite(p) \/ RefreshWrite(p) \/ ReleaseDelete(p) \/ SweepDelete(p)
    BY <2>1, EmittingJustified
    DEF AcquireWrite, RefreshWrite, ReleaseDelete, SweepDelete, IInv
  <2>2. CASE Emit(p)
    <3>1. p \in Janitors \/ proc[p].batch \ {proc[p].ticket} = {}
      BY DEF AllJustified, Justified
    <3> QED
      BY <2>2, <3>1, SweepOnJustified DEF Emit, IInv
  <2> QED
    BY <1>1, <2>1, <2>2, SweepJustified DEF Continue
<1>2. ASSUME NEW p \in Procs, Crash(p) PROVE AllJustified'
  BY <1>2, IdleJustified, JustifiedWritten DEF Crash, Finish, IInv
<1>3. ASSUME NEW p \in Janitors, SweepScan(p) PROVE AllJustified'
  BY <1>3, SweepOnJustified DEF SweepScan, Procs, IInv
<1>4. CASE UNCHANGED vars
  BY <1>4 DEF vars, AllJustified, Justified
<1> QED
  BY <1>1, <1>2, <1>3, <1>4, ArriveJustified, TickJustified DEF Next

\* Only the four writes and the clock touch a key, and the clock leaves an active
\* lock its holder.
LEMMA Takers ==
    ASSUME IInv, AllJustified, Next, NEW t \in Tickets, Active(t),
           lock'[t].locked_by # lock[t].locked_by
    PROVE  \E p \in Procs :
            /\ proc[p].ticket = t /\ proc'[p] # proc[p]
            /\ \/ p \in Janitors
               \/ proc[p].seen # lock[t].locked_by
               \/ proc[p].pc = "release_delete"
                    /\ proc[p].user \in Admins \cup {lock[t].locked_by}
<1> DEFINE Taker(p) ==
            /\ proc[p].ticket = t /\ proc'[p] # proc[p]
            /\ \/ p \in Janitors
               \/ proc[p].seen # lock[t].locked_by
               \/ proc[p].pc = "release_delete"
                    /\ proc[p].user \in Admins \cup {lock[t].locked_by}
<1>1. lock[t].locked_by # None /\ lock[t] \in Keys /\ lock[t].expires > 0 /\ KeyOK(lock[t])
  BY DEF Active, IInv, LocksOK
<1>2. ~Tick
  <2>1. ~(lock[t].ttl <= 0)
    BY <1>1, ConstantsAssumption DEF KeyOK, Keys
  <2>2. Older(lock[t]).locked_by = lock[t].locked_by
    BY <1>1, <2>1 DEF Older, Keys
  <2> QED
    BY <2>2 DEF Tick
<1>3. \A p \in Procs : Emitting(p, "acquired") \/ Emitting(p, "released")
                       \/ Emitting(p, "expired") => proc'[p].pc = "emit"
  BY DEF Emitting, IInv, ProcsOK, ProcRecords
<1>4. ASSUME NEW p \in Procs, NEW key, lock' = [lock EXCEPT ![proc[p].ticket] = key]
      PROVE  proc[p].ticket = t /\ lock'[t] = key
  BY <1>4 DEF IInv, LocksOK
<1>5. ASSUME NEW p \in Procs, AcquireWrite(p) PROVE Taker(p)
  <2>1. proc[p].ticket = t /\ lock'[t] = Held(proc[p].user, proc[p].expires)
    BY <1>4, <1>5 DEF AcquireWrite
  <2>2. proc[p].user # lock[t].locked_by
    BY <2>1 DEF Held
  <2>3. proc[p].pc = "acquire_write" /\ proc'[p].pc = "emit"
    BY <1>3, <1>5 DEF AcquireWrite
  <2>4. proc[p].seen # lock[t].locked_by
    BY <1>1, <2>2, <2>3 DEF AllJustified, Justified
  <2> QED
    BY <2>1, <2>3, <2>4
<1>6. ASSUME NEW p \in Procs, RefreshWrite(p) PROVE FALSE
  <2>1. /\ proc[p].ticket = t
        /\ lock'[t] = Refreshed(lock[proc[p].ticket], proc[p].expires)
    BY <1>4, <1>6 DEF RefreshWrite, IInv, LocksOK
  <2> QED
    BY <1>1, <2>1 DEF Refreshed, Keys
<1>7. ASSUME NEW p \in Procs, ReleaseDelete(p) PROVE Taker(p)
  <2>1. proc[p].ticket = t
    BY <1>4, <1>7 DEF ReleaseDelete
  <2>2. proc[p].pc = "release_delete" /\ proc'[p].pc = "emit"
    BY <1>3, <1>7 DEF ReleaseDelete
  <2>3. proc[p].seen # lock[t].locked_by \/ proc[p].user \in Admins \cup {lock[t].locked_by}
    BY <1>1, <2>2 DEF AllJustified, Justified
  <2> QED
    BY <2>1, <2>2, <2>3
<1>8. ASSUME NEW p \in Procs, SweepDelete(p) PROVE Taker(p)
  <2>1. proc[p].ticket = t
    BY <1>4, <1>8 DEF SweepDelete
  <2>2. proc[p].pc = "sweep_delete" /\ proc'[p].pc = "emit"
    BY <1>3, <1>8 DEF SweepDelete
  <2>3. p \in Janitors
    BY <2>2 DEF AllJustified, Justified
  <2> QED
    BY <2>1, <2>2, <2>3
<1>9. \E p \in Procs : AcquireWrite(p) \/ RefreshWrite(p) \/ ReleaseDelete(p) \/ SweepDelete(p)
  <2>1. lock' # lock
    OBVIOUS
  <2> QED
    BY <1>2, <2>1
    DEF Next, Continue, SweepTtl, SweepRead, Emit, Crash, Arrive, AcquireRead, RefreshRead,
        ReleaseRead, SweepScan
<1> HIDE DEF Taker
<1>10. \E p \in Procs : Taker(p)
  BY <1>5, <1>6, <1>7, <1>8, <1>9
<1> QED
  BY <1>10 DEF Taker

\* For any overlap of any number of operations, an active lock passes from its
\* holder only by the janitor, by the holder, by an admin, or by a handler that
\* read the key before the holder was in it.
THEOREM LostOnlyByThese == Spec => LostOnlyBy
<1>1. Init => AllJustified
  BY IdleJustified DEF Init, AllJustified
<1>2. IInv /\ AllJustified /\ [Next]_vars => AllJustified'
  BY StepJustified
<1>3. IInv /\ AllJustified /\ [Next]_vars =>
        [\A t \in Tickets : Active(t) /\ lock[t]'.locked_by # lock[t].locked_by =>
         \E p \in Procs :
            /\ proc[p].ticket = t /\ proc'[p] # proc[p]
            /\ \/ p \in Janitors
               \/ proc[p].seen # lock[t].locked_by
               \/ proc[p].pc = "release_delete"
                    /\ proc[p].user \in Admins \cup {lock[t].locked_by}]_vars
  BY Takers
<1> QED
  BY LockInvariant, <1>1, <1>2, <1>3, PTL DEF Spec, LostOnlyBy

--------------------------------------------------------------------------------
(* Who may lengthen a lock: the safety behind SilentHolderLoses.           *)

\* A lock gets more time only by a request of its holder, or by a refresh that read the
\* key before this holder was in it.
LengthenedOnlyBy ==
    [][\A t \in Tickets :
         Active(t) /\ lock[t]'.locked_by = lock[t].locked_by /\ lock[t]'.expires > lock[t].expires =>
            \E p \in Procs :
               /\ proc[p].ticket = t /\ proc'[p] # proc[p]
               /\ \/ proc[p].user = lock[t].locked_by
                  \/ proc[p].pc = "refresh_write" /\ proc[p].seen # lock[t].locked_by]_vars

LEMMA Lengtheners ==
    ASSUME IInv, AllJustified, [Next]_vars, NEW t \in Tickets, Active(t),
           lock'[t].locked_by = lock[t].locked_by, lock'[t].expires > lock[t].expires
    PROVE  \E p \in Procs :
            /\ proc[p].ticket = t /\ proc'[p] # proc[p]
            /\ \/ proc[p].user = lock[t].locked_by
               \/ proc[p].pc = "refresh_write" /\ proc[p].seen # lock[t].locked_by
<1>1. /\ lock[t].locked_by # None /\ lock[t] \in Keys /\ KeyOK(lock[t])
      /\ lock[t].expires \in Nat /\ lock[t].expires > 0
  BY ConstantsAssumption DEF Active, IInv, LocksOK, Keys
<1>2. lock'[t] # lock[t] /\ lock'[t] # NoKey
  <2>1. NoKey.locked_by = None
    BY DEF NoKey
  <2> QED
    BY <1>1, <2>1
<1>3. ~Tick
  <2> SUFFICES ASSUME Tick PROVE FALSE
    OBVIOUS
  <2>1. lock'[t] = Older(lock[t])
    BY DEF Tick
  <2>2. lock'[t] = [lock[t] EXCEPT !.ttl = @ - 1, !.expires = IF @ = 0 THEN 0 ELSE @ - 1]
    BY <1>2, <2>1 DEF Older
  <2>3. lock'[t].expires = lock[t].expires - 1
    BY <1>1, <2>2 DEF Keys
  <2> QED
    BY <1>1, <2>3
<1>4. ASSUME NEW p \in Procs, NEW key, lock' = [lock EXCEPT ![proc[p].ticket] = key]
      PROVE  proc[p].ticket = t /\ lock'[t] = key
  BY <1>2, <1>4 DEF IInv, LocksOK
<1>5. PICK p \in Procs : AcquireWrite(p) \/ RefreshWrite(p) \/ ReleaseDelete(p) \/ SweepDelete(p)
  <2>1. lock' # lock
    BY <1>2
  <2> QED
    BY <1>3, <2>1
    DEF Next, Continue, SweepTtl, SweepRead, Emit, Crash, Arrive, AcquireRead, RefreshRead,
        ReleaseRead, SweepScan, vars
<1>6. AcquireWrite(p) \/ RefreshWrite(p)
  BY <1>2, <1>4, <1>5 DEF ReleaseDelete, SweepDelete
<1>7. Emitting(p, "acquired") \/ Emitting(p, "refreshed") => proc'[p].pc = "emit"
  BY DEF Emitting, IInv, ProcsOK, ProcRecords
<1>8. CASE AcquireWrite(p)
  <2>1. proc[p].ticket = t /\ lock'[t] = Held(proc[p].user, proc[p].expires)
    BY <1>4, <1>8 DEF AcquireWrite
  <2>2. proc[p].user = lock[t].locked_by
    BY <2>1 DEF Held
  <2>3. proc[p].pc = "acquire_write" /\ proc'[p].pc = "emit"
    BY <1>7, <1>8 DEF AcquireWrite
  <2> QED
    BY <2>1, <2>2, <2>3
<1>9. CASE RefreshWrite(p)
  <2>1. proc[p].ticket = t
    BY <1>4, <1>9 DEF RefreshWrite, IInv, LocksOK
  <2>2. proc[p].pc = "refresh_write" /\ proc'[p].pc = "emit"
    BY <1>7, <1>9 DEF RefreshWrite
  <2>3. proc[p].seen = proc[p].user
    BY <2>2 DEF AllJustified, Justified
  <2> QED
    BY <2>1, <2>2, <2>3
<1> QED
  BY <1>6, <1>8, <1>9

\* Nobody else keeps a lock alive for a holder who has fallen silent.
THEOREM LengthenedOnlyByThese == Spec => LengthenedOnlyBy
<1>1. Init => AllJustified
  BY IdleJustified DEF Init, AllJustified
<1>2. IInv /\ AllJustified /\ [Next]_vars => AllJustified'
  BY StepJustified
<1>3. IInv /\ AllJustified /\ [Next]_vars =>
        [\A t \in Tickets :
           Active(t) /\ lock[t]'.locked_by = lock[t].locked_by
             /\ lock[t]'.expires > lock[t].expires =>
            \E p \in Procs :
               /\ proc[p].ticket = t /\ proc'[p] # proc[p]
               /\ \/ proc[p].user = lock[t].locked_by
                  \/ proc[p].pc = "refresh_write" /\ proc[p].seen # lock[t].locked_by]_vars
  BY Lengtheners
<1> QED
  BY LockInvariant, <1>1, <1>2, <1>3, PTL DEF Spec, LengthenedOnlyBy
================================================================================
