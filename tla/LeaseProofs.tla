------------------------------- MODULE LeaseProofs -------------------------------
(***************************************************************************)
(* One operation on the locks after the other: then they implement the     *)
(* lease, the janitor ends a lock in its last half second only, and the    *)
(* last event names the holder, for any number of tickets and users and    *)
(* any TTL, also when operations are cut short between read and write.     *)
(*                                                                         *)
(* The invariant says what an operation still knows when it writes: time   *)
(* may have passed since it read, so the lock it found may have run out,   *)
(* but nobody else can have taken it, and the deadline it is about to      *)
(* write went nearer as fast as the one in the key.                        *)
(***************************************************************************)
EXTENDS TicketLockProofs, FiniteSetTheorems

OneAtATime == \A p, q \in Procs : p # q => proc[p].pc = "idle" \/ proc[q].pc = "idle"

OthersIdle(p) == \A q \in Procs : q # p => proc[q].pc = "idle"

\* What operation p, whose record is rec, knows of the key of its ticket.
KnowsKey(p, rec, key) ==
    /\ rec.pc \in {"acquire_write", "refresh_write", "release_delete",
                   "sweep_read", "sweep_delete", "emit"} => rec.ticket \in Tickets
    /\ rec.pc \in {"acquire_write", "refresh_write"} =>
         /\ p \notin Janitors
         /\ rec.user \in Users
         /\ key.expires <= rec.expires
    /\ rec.pc = "acquire_write" /\ key.expires > 0 => key.locked_by \in {rec.user, None}
    /\ rec.pc = "refresh_write" => key.locked_by \in {rec.user, None}
    /\ rec.pc \in {"sweep_read", "sweep_delete"} => key.ttl < Half
    /\ rec.pc = "emit" /\ key.locked_by # None /\ key.expires > 0 =>
         /\ p \notin Janitors
         /\ rec.event \in {"acquired", "refreshed"}
         /\ key.locked_by = rec.user

AllKnow == \A p \in Procs : KnowsKey(p, proc[p], lock[proc[p].ticket])

Announced(t) == said[t].type \in {"acquired", "refreshed"} /\ said[t].by = lock[t].locked_by

AboutToBe(t) == \E p \in Procs : proc[p].pc = "emit" /\ proc[p].ticket = t

AllAnnounced == crashes = 0 => \A t \in Tickets : Active(t) => Announced(t) \/ AboutToBe(t)

LInv == OneAtATime /\ AllKnow /\ AllAnnounced

LeaseStep == [L!Next]_(L!vars)

EndStep ==
    \A p \in Janitors, t \in Tickets :
        proc[p].pc = "sweep_delete" /\ proc[p].ticket = t /\ lock'[t] # lock[t]
          /\ proc'[p].pc = "emit" => lock[t].ttl < Half

--------------------------------------------------------------------------------
(* The lease in a key.                                                     *)

HolderIn(key) == IF key.locked_by # None /\ key.expires > 0 THEN key.locked_by ELSE None
LeftIn(key)   == IF key.locked_by # None /\ key.expires > 0 THEN key.expires ELSE 0

LEMMA LeaseOf ==
    /\ HolderOf = [t \in Tickets |-> HolderIn(lock[t])]
    /\ LeftOf = [t \in Tickets |-> LeftIn(lock[t])]
    /\ HolderOf' = [t \in Tickets |-> HolderIn(lock'[t])]
    /\ LeftOf' = [t \in Tickets |-> LeftIn(lock'[t])]
BY DEF HolderOf, LeftOf, ActiveHolder, Active, HolderIn, LeftIn

\* One key written changes one lease.
LEMMA LeaseWritten ==
    ASSUME LocksOK, NEW t \in Tickets, NEW key, lock' = [lock EXCEPT ![t] = key]
    PROVE  /\ HolderOf' = [HolderOf EXCEPT ![t] = HolderIn(key)]
           /\ LeftOf' = [LeftOf EXCEPT ![t] = LeftIn(key)]
<1>1. lock'[t] = key /\ \A s \in Tickets : s # t => lock'[s] = lock[s]
  BY DEF LocksOK
<1>2. \A s \in Tickets : HolderIn(lock'[s]) = IF s = t THEN HolderIn(key) ELSE HolderIn(lock[s])
  BY <1>1
<1>3. \A s \in Tickets : LeftIn(lock'[s]) = IF s = t THEN LeftIn(key) ELSE LeftIn(lock[s])
  BY <1>1
<1> QED
  BY <1>2, <1>3, LeaseOf

\* A key that holds nothing ends the lease, if there was one.
LEMMA EndsLease ==
    ASSUME LocksOK, NEW t \in Tickets, NEW key, lock' = [lock EXCEPT ![t] = key],
           key.locked_by = None \/ ~(key.expires > 0)
    PROVE  LeaseStep
<1>1. HolderIn(key) = None /\ LeftIn(key) = 0
  BY DEF HolderIn, LeftIn
<1>2. HolderOf' = [HolderOf EXCEPT ![t] = None] /\ LeftOf' = [LeftOf EXCEPT ![t] = 0]
  BY <1>1, LeaseWritten
<1>3. L!End(t)
  BY <1>2 DEF L!End
<1> QED
  BY <1>3 DEF LeaseStep, L!Next

\* A key of a holder, written where nobody else has a lease that runs.
LEMMA GrantsLease ==
    ASSUME LocksOK, NEW t \in Tickets, NEW u \in Users, NEW key, lock' = [lock EXCEPT ![t] = key],
           key.locked_by = u, key.expires \in 1..Ttl,
           lock[t].expires > 0 => lock[t].locked_by \in {u, None},
           lock[t].expires <= key.expires
    PROVE  LeaseStep
<1>1. u # None /\ key.expires > 0
  BY ConstantsAssumption
<1>2. HolderIn(key) = u /\ LeftIn(key) = key.expires
  BY <1>1 DEF HolderIn, LeftIn
<1>3. HolderOf[t] = HolderIn(lock[t]) /\ LeftOf[t] = LeftIn(lock[t])
  BY LeaseOf
<1>4. HolderIn(lock[t]) \in {u, None}
  BY DEF HolderIn
<1>5. key.expires \geq LeftIn(lock[t])
  BY <1>1 DEF LeftIn, LocksOK, Keys
<1>6. HolderOf' = [HolderOf EXCEPT ![t] = u] /\ LeftOf' = [LeftOf EXCEPT ![t] = key.expires]
  <2>1. HolderOf' = [HolderOf EXCEPT ![t] = HolderIn(key)]
        /\ LeftOf' = [LeftOf EXCEPT ![t] = LeftIn(key)]
    BY LeaseWritten
  <2> QED
    BY <1>2, <2>1
<1>7. HolderOf[t] \in {u, None} /\ key.expires \geq LeftOf[t]
  BY <1>3, <1>4, <1>5
<1>8. L!Grant(t, u, key.expires)
  BY <1>6, <1>7 DEF L!Grant
<1> QED
  BY <1>8 DEF LeaseStep, L!Next

\* The locks as they were: no step of the lease.
LEMMA LeaseStutters ==
    ASSUME lock' = lock
    PROVE  LeaseStep
<1>1. HolderOf' = HolderOf /\ LeftOf' = LeftOf
  BY LeaseOf
<1> QED
  BY <1>1 DEF LeaseStep, L!vars

--------------------------------------------------------------------------------
(* Steps of the only operation in flight.                                  *)

LEMMA Alone ==
    ASSUME LInv, NEW p \in Procs, proc[p].pc # "idle"
    PROVE  OthersIdle(p)
BY DEF LInv, OneAtATime, OthersIdle

\* The bound on operations in flight lets one start only when all have ended.
LEMMA StartAlone ==
    ASSUME MaxInFlight = 1, LInv, NEW p \in Procs, MayStart(p)
    PROVE  OthersIdle(p) /\ proc[p].pc = "idle"
<1>1. proc[p].pc = "idle"
  BY DEF MayStart, InFlight
<1>2. ASSUME NEW q \in Procs, proc[q].pc # "idle" PROVE FALSE
  <2>1. InFlight = {q}
    BY <1>2 DEF InFlight, LInv, OneAtATime
  <2>2. Cardinality(InFlight) = 1
    BY <2>1, FS_Singleton
  <2> QED
    BY <2>2 DEF MayStart
<1> QED
  BY <1>1, <1>2 DEF OthersIdle

LEMMA IdleKnows ==
    ASSUME NEW p, NEW rec, rec.pc \in {"idle", "sweep_ttl"}, NEW key
    PROVE  KnowsKey(p, rec, key)
BY DEF KnowsKey

\* Only p has moved, and it knows what it has to.
LEMMA StepTo ==
    ASSUME ProcsOK, NEW p \in Procs, OthersIdle(p), NEW rec,
           proc' = [proc EXCEPT ![p] = rec],
           KnowsKey(p, rec, lock'[rec.ticket]),
           AllAnnounced'
    PROVE  LInv'
<1>1. proc'[p] = rec /\ \A q \in Procs : q # p => proc'[q] = proc[q]
  BY DEF ProcsOK
<1>2. OneAtATime'
  BY <1>1 DEF OthersIdle, OneAtATime
<1>3. ASSUME NEW q \in Procs PROVE KnowsKey(q, proc'[q], lock'[proc'[q].ticket])
  <2>1. CASE q = p
    BY <1>1, <2>1
  <2>2. CASE q # p
    BY <1>1, <2>2, IdleKnows DEF OthersIdle
  <2> QED
    BY <2>1, <2>2
<1>4. AllKnow'
  BY <1>3 DEF AllKnow
<1> QED
  BY <1>2, <1>4 DEF LInv

\* A step that leaves the locks and the events alone, of an operation that had
\* nothing to announce.
LEMMA ReadTo ==
    ASSUME ProcsOK, LInv, NEW p \in Procs, OthersIdle(p), proc[p].pc # "emit", NEW rec,
           proc' = [proc EXCEPT ![p] = rec], KnowsKey(p, rec, lock[rec.ticket]),
           UNCHANGED <<lock, said, crashes>>
    PROVE  LInv' /\ LeaseStep /\ EndStep
<1>1. \A t \in Tickets : ~AboutToBe(t)
  BY DEF OthersIdle, AboutToBe
<1>2. AllAnnounced'
  BY <1>1 DEF LInv, AllAnnounced, Announced, Active
<1>3. LInv'
  BY <1>2, StepTo
<1> QED
  BY <1>3, LeaseStutters DEF EndStep

\* The write of a key by p, which is about to announce it.
LEMMA WriteTo ==
    ASSUME IInv, LInv, NEW p \in Procs, OthersIdle(p), proc[p].pc # "emit",
           proc[p].ticket \in Tickets, NEW key, NEW event,
           lock' = [lock EXCEPT ![proc[p].ticket] = key], Emitting(p, event),
           key.locked_by # None /\ key.expires > 0 =>
             /\ p \notin Janitors
             /\ event \in {"acquired", "refreshed"}
             /\ key.locked_by = proc[p].user,
           UNCHANGED <<said, crashes>>
    PROVE  LInv'
<1> DEFINE rec == [proc[p] EXCEPT !.pc = "emit", !.event = event, !.expires = 0]
           t == proc[p].ticket
<1>1. rec.pc = "emit" /\ rec.event = event /\ rec.ticket = t /\ rec.user = proc[p].user
  BY DEF IInv, ProcsOK, ProcRecords
<1>2. proc' = [proc EXCEPT ![p] = rec]
  BY DEF Emitting, IInv, ProcsOK
<1>3. lock'[t] = key /\ \A s \in Tickets : s # t => lock'[s] = lock[s]
  BY DEF IInv, LocksOK
<1>4. proc'[p] = rec
  BY <1>2 DEF IInv, ProcsOK
<1> HIDE DEF rec
<1>5. KnowsKey(p, rec, lock'[rec.ticket])
  BY <1>1, <1>3 DEF KnowsKey
<1>6. AllAnnounced'
  <2> SUFFICES ASSUME crashes' = 0, NEW s \in Tickets, Active(s)'
               PROVE  (Announced(s) \/ AboutToBe(s))'
    BY DEF AllAnnounced
  <2>1. CASE s = t
    BY <1>1, <1>4, <2>1 DEF AboutToBe
  <2>2. CASE s # t
    <3>1. ~AboutToBe(s)
      BY DEF OthersIdle, AboutToBe
    <3>2. lock'[s] = lock[s]
      BY <1>3, <2>2
    <3> QED
      BY <3>1, <3>2 DEF LInv, AllAnnounced, Announced, Active
  <2> QED
    BY <2>1, <2>2
<1> QED
  BY <1>2, <1>5, <1>6, StepTo DEF IInv

LEMMA ArriveLeased ==
    ASSUME MaxInFlight = 1, IInv, LInv, NEW p \in Handlers, Arrive(p)
    PROVE  LInv' /\ LeaseStep /\ EndStep
<1>0. p \in Procs /\ p \notin Janitors
  BY ConstantsAssumption DEF Procs
<1>1. ASSUME NEW t \in Tickets, NEW u \in Users, AcquireRead(p, t, u)
      PROVE  LInv' /\ LeaseStep /\ EndStep
  <2> DEFINE rec == [Idle EXCEPT !.pc = "acquire_write", !.ticket = t, !.user = u,
                                 !.seen = ActiveHolder(t), !.expires = Ttl]
  <2>1. rec.pc = "acquire_write" /\ rec.ticket = t /\ rec.user = u /\ rec.expires = Ttl
    BY DEF Idle
  <2>2. OthersIdle(p) /\ proc[p].pc = "idle"
    BY <1>0, <1>1, StartAlone DEF AcquireRead
  <2>3. proc' = [proc EXCEPT ![p] = rec] /\ UNCHANGED <<lock, said, crashes>>
    BY <1>1 DEF AcquireRead
  <2> HIDE DEF rec
  <2>4. lock[t].expires > 0 => lock[t].locked_by \in {u, None}
    BY <1>1 DEF AcquireRead, MayAcquire, ActiveHolder, Active
  <2>5. lock[t].expires <= Ttl
    BY ConstantsAssumption DEF IInv, LocksOK, Keys
  <2>6. KnowsKey(p, rec, lock[rec.ticket])
    BY <1>0, <2>1, <2>4, <2>5 DEF KnowsKey
  <2> QED
    BY <1>0, <2>2, <2>3, <2>6, ReadTo DEF IInv
<1>2. ASSUME NEW t \in Tickets, NEW u \in Users, RefreshRead(p, t, u)
      PROVE  LInv' /\ LeaseStep /\ EndStep
  <2> DEFINE rec == [Idle EXCEPT !.pc = "refresh_write", !.ticket = t, !.user = u,
                                 !.seen = lock[t].locked_by, !.expires = Ttl]
  <2>1. rec.pc = "refresh_write" /\ rec.ticket = t /\ rec.user = u /\ rec.expires = Ttl
    BY DEF Idle
  <2>2. OthersIdle(p) /\ proc[p].pc = "idle"
    BY <1>0, <1>2, StartAlone DEF RefreshRead
  <2>3. proc' = [proc EXCEPT ![p] = rec] /\ UNCHANGED <<lock, said, crashes>>
    BY <1>2 DEF RefreshRead
  <2> HIDE DEF rec
  <2>4. lock[t].locked_by \in {u, None}
    BY <1>2, ConstantsAssumption DEF RefreshRead, MayRefresh, ActiveHolder
  <2>5. lock[t].expires <= Ttl
    BY ConstantsAssumption DEF IInv, LocksOK, Keys
  <2>6. KnowsKey(p, rec, lock[rec.ticket])
    BY <1>0, <2>1, <2>4, <2>5 DEF KnowsKey
  <2> QED
    BY <1>0, <2>2, <2>3, <2>6, ReadTo DEF IInv
<1>3. ASSUME NEW t \in Tickets, NEW u \in Users, NEW force \in BOOLEAN, ReleaseRead(p, t, u, force)
      PROVE  LInv' /\ LeaseStep /\ EndStep
  <2> DEFINE rec == [Idle EXCEPT !.pc = "release_delete", !.ticket = t, !.user = u,
                                 !.seen = lock[t].locked_by]
  <2>1. rec.pc = "release_delete" /\ rec.ticket = t
    BY DEF Idle
  <2>2. OthersIdle(p) /\ proc[p].pc = "idle"
    BY <1>0, <1>3, StartAlone DEF ReleaseRead
  <2>3. proc' = [proc EXCEPT ![p] = rec] /\ UNCHANGED <<lock, said, crashes>>
    BY <1>3 DEF ReleaseRead
  <2> HIDE DEF rec
  <2>4. KnowsKey(p, rec, lock[rec.ticket])
    BY <2>1 DEF KnowsKey
  <2> QED
    BY <1>0, <2>2, <2>3, <2>4, ReadTo DEF IInv
<1> QED
  BY <1>1, <1>2, <1>3 DEF Arrive

\* A grant, unless the deadline passed before the write: then the key is dead.
LEMMA AcquireLeased ==
    ASSUME IInv, LInv, NEW p \in Procs, AcquireWrite(p)
    PROVE  LInv' /\ LeaseStep /\ EndStep
<1> DEFINE t == proc[p].ticket
           key == Held(proc[p].user, proc[p].expires)
<1>1. OthersIdle(p) /\ proc[p].pc = "acquire_write"
  BY Alone DEF AcquireWrite
<1>2. KnowsKey(p, proc[p], lock[t])
  BY DEF LInv, AllKnow
<1>3. /\ t \in Tickets /\ p \notin Janitors /\ proc[p].user \in Users
      /\ lock[t].expires > 0 => lock[t].locked_by \in {proc[p].user, None}
      /\ lock[t].expires <= proc[p].expires
  BY <1>1, <1>2 DEF KnowsKey
<1>4. key.locked_by = proc[p].user /\ key.expires = proc[p].expires
  BY DEF Held
<1>5. lock' = [lock EXCEPT ![t] = key] /\ Emitting(p, "acquired") /\ UNCHANGED <<said, crashes>>
  BY DEF AcquireWrite
<1>6. proc[p].expires \in 0..Ttl
  BY DEF IInv, ProcsOK, ProcRecords
<1> HIDE DEF key
<1>7. LInv'
  BY <1>1, <1>3, <1>4, <1>5, WriteTo
<1>8. EndStep
  <2>1. \A q \in Janitors : proc[q].pc # "sweep_delete"
    BY <1>1 DEF OthersIdle, Procs
  <2> QED
    BY <2>1 DEF EndStep
<1>9. CASE proc[p].expires = 0
  <2>1. ~(key.expires > 0)
    BY <1>4, <1>9
  <2> QED
    BY <1>3, <1>5, <1>7, <1>8, <2>1, EndsLease DEF IInv
<1>10. CASE proc[p].expires # 0
  <2>1. key.expires \in 1..Ttl
    BY <1>4, <1>6, <1>10, ConstantsAssumption
  <2> QED
    BY <1>3, <1>4, <1>5, <1>7, <1>8, <2>1, GrantsLease DEF IInv
<1> QED
  BY <1>9, <1>10

\* The same for a refresh; a key that went meanwhile comes back without a holder.
LEMMA RefreshLeased ==
    ASSUME IInv, LInv, NEW p \in Procs, RefreshWrite(p)
    PROVE  LInv' /\ LeaseStep /\ EndStep
<1> DEFINE t == proc[p].ticket
           key == Refreshed(lock[t], proc[p].expires)
<1>1. OthersIdle(p) /\ proc[p].pc = "refresh_write"
  BY Alone DEF RefreshWrite
<1>2. KnowsKey(p, proc[p], lock[t])
  BY DEF LInv, AllKnow
<1>3. /\ t \in Tickets /\ p \notin Janitors /\ proc[p].user \in Users
      /\ lock[t].locked_by \in {proc[p].user, None}
      /\ lock[t].expires <= proc[p].expires
  BY <1>1, <1>2 DEF KnowsKey
<1>4. key.locked_by = lock[t].locked_by /\ key.expires = proc[p].expires
  BY <1>3 DEF Refreshed, IInv, LocksOK, Keys
<1>5. lock' = [lock EXCEPT ![t] = key] /\ Emitting(p, "refreshed") /\ UNCHANGED <<said, crashes>>
  BY <1>3 DEF RefreshWrite, IInv, LocksOK
<1>6. proc[p].expires \in 0..Ttl
  BY DEF IInv, ProcsOK, ProcRecords
<1> HIDE DEF key
<1>7. LInv'
  BY <1>1, <1>3, <1>4, <1>5, WriteTo
<1>8. EndStep
  <2>1. \A q \in Janitors : proc[q].pc # "sweep_delete"
    BY <1>1 DEF OthersIdle, Procs
  <2> QED
    BY <2>1 DEF EndStep
<1>9. CASE key.locked_by = None \/ proc[p].expires = 0
  <2>1. key.locked_by = None \/ ~(key.expires > 0)
    BY <1>4, <1>9
  <2> QED
    BY <1>3, <1>5, <1>7, <1>8, <2>1, EndsLease DEF IInv
<1>10. CASE key.locked_by # None /\ proc[p].expires # 0
  <2>1. key.expires \in 1..Ttl /\ key.locked_by = proc[p].user
    BY <1>3, <1>4, <1>6, <1>10, ConstantsAssumption
  <2> QED
    BY <1>3, <1>4, <1>5, <1>7, <1>8, <2>1, GrantsLease DEF IInv
<1> QED
  BY <1>9, <1>10

\* A deletion ends the lease; a janitor's does so in the last half second.
LEMMA DeleteLeased ==
    ASSUME IInv, LInv, NEW p \in Procs, ReleaseDelete(p) \/ SweepDelete(p)
    PROVE  LInv' /\ LeaseStep /\ EndStep
<1> DEFINE t == proc[p].ticket
<1>1. OthersIdle(p) /\ proc[p].pc \in {"release_delete", "sweep_delete"}
  BY Alone DEF ReleaseDelete, SweepDelete
<1>2. KnowsKey(p, proc[p], lock[t])
  BY DEF LInv, AllKnow
<1>3. t \in Tickets /\ (proc[p].pc = "sweep_delete" => lock[t].ttl < Half)
  BY <1>1, <1>2 DEF KnowsKey
<1>4. NoKey.locked_by = None
  BY DEF NoKey
<1>5. PICK event : /\ lock' = [lock EXCEPT ![t] = NoKey]
                   /\ Emitting(p, event)
                   /\ UNCHANGED <<said, crashes>>
  BY DEF ReleaseDelete, SweepDelete
<1>6. LInv'
  BY <1>1, <1>3, <1>4, <1>5, WriteTo
<1>7. LeaseStep
  BY <1>3, <1>4, <1>5, EndsLease DEF IInv
<1>8. EndStep
  <2>1. ASSUME NEW q \in Janitors, proc[q].pc = "sweep_delete" PROVE q = p
    BY <1>1, <2>1 DEF OthersIdle, Procs
  <2> QED
    BY <1>3, <2>1 DEF EndStep
<1> QED
  BY <1>6, <1>7, <1>8

\* What a step of the janitor leaves in its record when a key is done with.
LEMMA SweepOnKnows ==
    ASSUME ProcsOK, NEW p \in Procs, NEW rest, SweepOn(p, rest)
    PROVE  \E rec : /\ proc' = [proc EXCEPT ![p] = rec]
                    /\ rec.pc \in {"idle", "sweep_ttl"}
<1> DEFINE rec == [Idle EXCEPT !.pc = "sweep_ttl", !.batch = rest]
<1>1. rec.pc = "sweep_ttl" /\ Idle.pc = "idle"
  BY DEF Idle
<1>2. proc' = [proc EXCEPT ![p] = rec] \/ proc' = [proc EXCEPT ![p] = Idle]
  BY DEF SweepOn
<1> HIDE DEF rec
<1> QED
  BY <1>1, <1>2

LEMMA SweepOnLeased ==
    ASSUME ProcsOK, LInv, NEW p \in Procs, OthersIdle(p), proc[p].pc # "emit", NEW rest,
           SweepOn(p, rest), UNCHANGED <<lock, said, crashes>>
    PROVE  LInv' /\ LeaseStep /\ EndStep
<1>1. PICK rec : /\ proc' = [proc EXCEPT ![p] = rec]
                 /\ rec.pc \in {"idle", "sweep_ttl"}
  BY SweepOnKnows
<1>2. KnowsKey(p, rec, lock[rec.ticket])
  BY <1>1, IdleKnows
<1> QED
  BY <1>1, <1>2, ReadTo

\* A whole second in a quotient is more than half of one.
LEMMA RoundedToNone ==
    ASSUME NEW half \in Nat \ {0}, NEW time \in Nat, (time + half) \div (2 * half) <= 0
    PROVE  time < half
<1> DEFINE unit == 2 * half
           sum == time + half
<1>1. unit \in Nat \ {0} /\ sum \in Nat /\ sum \div unit <= 0
  OBVIOUS
<1>2. sum < unit
  <2> HIDE DEF unit, sum
  <2> QED
    BY <1>1
<1> QED
  BY <1>2

LEMMA LapsedLate ==
    ASSUME LocksOK, NEW t \in Tickets, Lapsed(t)
    PROVE  lock[t].ttl < Half
<1>1. lock[t].ttl \in {-2} \cup 0..Ttl
  BY DEF LocksOK, Keys
<1>2. CASE lock[t].ttl < 0
  BY <1>1, <1>2, ConstantsAssumption
<1>3. CASE ~(lock[t].ttl < 0)
  <2>1. lock[t].ttl \in Nat
    BY <1>1, <1>3, ConstantsAssumption
  <2>2. (lock[t].ttl + Half) \div (2 * Half) <= 0
    BY <1>3 DEF Lapsed, TtlReply
  <2> QED
    BY <2>1, <2>2, RoundedToNone, ConstantsAssumption
<1> QED
  BY <1>2, <1>3

LEMMA SweepLeased ==
    ASSUME IInv, LInv, NEW p \in Procs, SweepTtl(p) \/ SweepRead(p)
    PROVE  LInv' /\ LeaseStep /\ EndStep
<1>1. OthersIdle(p) /\ proc[p].pc # "emit" /\ UNCHANGED <<lock, said, crashes>>
  BY Alone DEF SweepTtl, SweepRead
<1>2. proc[p] \in ProcRecords /\ ProcsOK
  BY DEF IInv, ProcsOK
<1>3. CASE SweepTtl(p)
  <2>1. PICK t \in proc[p].batch :
          IF Lapsed(t) THEN proc' = [proc EXCEPT ![p].pc = "sweep_read", ![p].ticket = t]
          ELSE SweepOn(p, proc[p].batch \ {t})
    BY <1>3 DEF SweepTtl
  <2>2. CASE Lapsed(t)
    <3> DEFINE rec == [proc[p] EXCEPT !.pc = "sweep_read", !.ticket = t]
    <3>1. rec.pc = "sweep_read" /\ rec.ticket = t
      BY <1>2 DEF ProcRecords
    <3>2. proc' = [proc EXCEPT ![p] = rec]
      BY <2>1, <2>2 DEF IInv, ProcsOK
    <3> HIDE DEF rec
    <3>3. t \in Tickets
      BY <1>2, <2>1 DEF ProcRecords
    <3>4. lock[t].ttl < Half
      BY <2>2, <3>3, LapsedLate DEF IInv
    <3>5. KnowsKey(p, rec, lock[rec.ticket])
      BY <3>1, <3>3, <3>4 DEF KnowsKey
    <3> QED
      BY <1>1, <1>2, <3>2, <3>5, ReadTo
  <2>3. CASE ~Lapsed(t)
    BY <1>1, <1>2, <2>1, <2>3, SweepOnLeased
  <2> QED
    BY <2>2, <2>3
<1>4. CASE SweepRead(p)
  <2> DEFINE rec == [proc[p] EXCEPT !.pc = "sweep_delete",
                                    !.seen = lock[proc[p].ticket].locked_by]
  <2>1. rec.pc = "sweep_delete" /\ rec.ticket = proc[p].ticket
    BY <1>2 DEF ProcRecords
  <2>2. proc' = [proc EXCEPT ![p] = rec] /\ proc[p].pc = "sweep_read"
    BY <1>4 DEF SweepRead, IInv, ProcsOK
  <2> HIDE DEF rec
  <2>3. KnowsKey(p, proc[p], lock[proc[p].ticket])
    BY DEF LInv, AllKnow
  <2>4. KnowsKey(p, rec, lock[rec.ticket])
    BY <2>1, <2>2, <2>3 DEF KnowsKey
  <2> QED
    BY <1>1, <1>2, <2>2, <2>4, ReadTo
<1> QED
  BY <1>3, <1>4

LEMMA ScanLeased ==
    ASSUME MaxInFlight = 1, IInv, LInv, NEW p \in Janitors, SweepScan(p)
    PROVE  LInv' /\ LeaseStep /\ EndStep
<1>1. p \in Procs
  BY DEF Procs
<1>2. OthersIdle(p) /\ proc[p].pc = "idle"
  BY <1>1, StartAlone DEF SweepScan
<1>3. PICK batch : SweepOn(p, batch)
  BY DEF SweepScan
<1> QED
  BY <1>1, <1>2, <1>3, SweepOnLeased DEF SweepScan, IInv

\* Announced by the emitter, who was the last to write the key.
LEMMA EmitLeased ==
    ASSUME IInv, LInv, NEW p \in Procs, Emit(p)
    PROVE  LInv' /\ LeaseStep /\ EndStep
<1> DEFINE t == proc[p].ticket
           by == IF p \in Janitors THEN proc[p].seen ELSE proc[p].user
<1>1. OthersIdle(p) /\ proc[p].pc = "emit" /\ UNCHANGED <<lock, crashes>>
  BY Alone DEF Emit
<1>2. KnowsKey(p, proc[p], lock[t])
  BY DEF LInv, AllKnow
<1>3. t \in Tickets
  BY <1>1, <1>2 DEF KnowsKey
<1>4. /\ said'[t].type = proc[p].event /\ said'[t].by = by
      /\ \A s \in Tickets : s # t => said'[s] = said[s]
  BY <1>3 DEF Emit, IInv, RestOK
<1>5. PICK rec : /\ proc' = [proc EXCEPT ![p] = rec]
                 /\ rec.pc \in {"idle", "sweep_ttl"}
  BY SweepOnKnows DEF Emit, IInv
<1>6. AllAnnounced'
  <2> SUFFICES ASSUME crashes' = 0, NEW s \in Tickets, Active(s)'
               PROVE  Announced(s)'
    BY DEF AllAnnounced
  <2>1. Active(s)
    BY <1>1 DEF Active
  <2>2. CASE s = t
    <3>1. /\ p \notin Janitors
          /\ proc[p].event \in {"acquired", "refreshed"}
          /\ lock[t].locked_by = proc[p].user
      BY <1>1, <1>2, <2>1, <2>2 DEF KnowsKey, Active
    <3> QED
      BY <1>1, <1>4, <2>2, <3>1 DEF Announced
  <2>3. CASE s # t
    <3>1. ~AboutToBe(s)
      BY <1>1, <2>3 DEF OthersIdle, AboutToBe
    <3>2. Announced(s)
      BY <1>1, <2>1, <3>1 DEF LInv, AllAnnounced
    <3> QED
      BY <1>1, <1>4, <2>3, <3>2 DEF Announced
  <2> QED
    BY <2>2, <2>3
<1>7. KnowsKey(p, rec, lock'[rec.ticket])
  BY <1>5, IdleKnows
<1>8. LInv'
  BY <1>1, <1>5, <1>6, <1>7, StepTo DEF IInv
<1> QED
  BY <1>1, <1>8, LeaseStutters DEF EndStep

\* A unit of time takes as much from the lock as from its key.
LEMMA OlderKey ==
    ASSUME NEW key, KeyOK(key)
    PROVE  /\ Older(key).expires = IF key.expires = 0 THEN 0 ELSE key.expires - 1
           /\ Older(key).locked_by \in {key.locked_by, None}
           /\ key.expires > 0 => Older(key).locked_by = key.locked_by
           /\ key.ttl < Half => Older(key).ttl < Half
<1>1. CASE key.ttl <= 0
  <2>1. Older(key) = NoKey
    BY <1>1 DEF Older
  <2>2. key.expires = 0
    BY <1>1, ConstantsAssumption DEF KeyOK, Keys
  <2> QED
    BY <2>1, <2>2, ConstantsAssumption DEF NoKey
<1>2. CASE ~(key.ttl <= 0)
  <2> DEFINE left == IF key.expires = 0 THEN 0 ELSE key.expires - 1
             life == key.ttl - 1
  <2>1. Older(key) = [key EXCEPT !.ttl = life, !.expires = left]
    BY <1>2 DEF Older
  <2>2. life < key.ttl /\ key.ttl \in Int /\ life \in Int
    BY ConstantsAssumption DEF KeyOK, Keys
  <2> HIDE DEF life
  <2>3. Older(key).expires = left /\ Older(key).ttl = life /\ Older(key).locked_by = key.locked_by
    BY <2>1 DEF KeyOK, Keys
  <2> QED
    BY <2>2, <2>3, ConstantsAssumption
<1> QED
  BY <1>1, <1>2

LEMMA TickLeased ==
    ASSUME IInv, LInv, Tick
    PROVE  LInv' /\ LeaseStep /\ EndStep
<1>1. /\ \A t \in Tickets : lock'[t] = Older(lock[t]) /\ KeyOK(lock[t])
      /\ UNCHANGED <<said, crashes>>
  BY DEF Tick, IInv, LocksOK
<1>2. ASSUME NEW p \in Procs
      PROVE  /\ proc'[p].pc = proc[p].pc /\ proc'[p].ticket = proc[p].ticket
             /\ proc'[p].user = proc[p].user /\ proc'[p].event = proc[p].event
             /\ proc'[p].expires = IF proc[p].expires = 0 THEN 0 ELSE proc[p].expires - 1
             /\ proc[p].expires \in Nat
  <2>1. proc[p] \in ProcRecords
    BY DEF IInv, ProcsOK
  <2>2. proc'[p] = [proc[p] EXCEPT !.expires = IF @ = 0 THEN 0 ELSE @ - 1]
    BY DEF Tick
  <2>3. proc[p].expires \in Nat
    BY <2>1, ConstantsAssumption DEF ProcRecords
  <2> QED
    BY <2>1, <2>2, <2>3 DEF ProcRecords
<1>3. OneAtATime'
  BY <1>2 DEF LInv, OneAtATime
<1>4. ASSUME NEW p \in Procs PROVE KnowsKey(p, proc'[p], lock'[proc'[p].ticket])
  <2> DEFINE t == proc[p].ticket
  <2>1. KnowsKey(p, proc[p], lock[t])
    BY DEF LInv, AllKnow
  <2>2. CASE proc[p].pc \in {"idle", "sweep_ttl"}
    BY <1>2, <2>2, IdleKnows
  <2>3. CASE proc[p].pc \notin {"idle", "sweep_ttl"}
    <3>1. t \in Tickets
      BY <2>1, <2>3 DEF KnowsKey, IInv, ProcsOK, ProcRecords, PCs
    <3>2. lock'[t] = Older(lock[t]) /\ KeyOK(lock[t])
      BY <1>1, <3>1
    <3>3. /\ lock'[t].expires = IF lock[t].expires = 0 THEN 0 ELSE lock[t].expires - 1
          /\ lock'[t].locked_by \in {lock[t].locked_by, None}
          /\ lock[t].expires > 0 => lock'[t].locked_by = lock[t].locked_by
          /\ lock[t].ttl < Half => lock'[t].ttl < Half
      BY <3>2, OlderKey
    <3>4. lock[t].expires \in Nat
      BY <3>2, ConstantsAssumption DEF KeyOK, Keys
    <3>5. lock'[t].expires > 0 => lock[t].expires > 0
      BY <3>3, <3>4
    <3>6. lock[t].expires <= proc[p].expires => lock'[t].expires <= proc'[p].expires
      BY <1>2, <3>3, <3>4
    <3> QED
      BY <1>2, <2>1, <3>1, <3>3, <3>5, <3>6 DEF KnowsKey
  <2> QED
    BY <2>2, <2>3
<1>5. ASSUME NEW t \in Tickets
      PROVE  /\ LeftIn(lock'[t]) = IF LeftIn(lock[t]) = 0 THEN 0 ELSE LeftIn(lock[t]) - 1
             /\ HolderIn(lock'[t]) = IF LeftIn(lock[t]) > 1 THEN HolderIn(lock[t]) ELSE None
  <2>1. /\ lock'[t].expires = IF lock[t].expires = 0 THEN 0 ELSE lock[t].expires - 1
        /\ lock'[t].locked_by \in {lock[t].locked_by, None}
        /\ lock[t].expires > 0 => lock'[t].locked_by = lock[t].locked_by
    BY <1>1, OlderKey
  <2>2. lock[t].expires \in Nat
    BY <1>1, ConstantsAssumption DEF KeyOK, Keys
  <2> QED
    BY <2>1, <2>2 DEF LeftIn, HolderIn
<1>6. AllAnnounced'
  <2> SUFFICES ASSUME crashes' = 0, NEW t \in Tickets, Active(t)'
               PROVE  (Announced(t) \/ AboutToBe(t))'
    BY DEF AllAnnounced
  <2>1. /\ lock'[t].expires = IF lock[t].expires = 0 THEN 0 ELSE lock[t].expires - 1
        /\ lock[t].expires > 0 => lock'[t].locked_by = lock[t].locked_by
        /\ lock[t].expires \in Nat
    BY <1>1, OlderKey, ConstantsAssumption DEF KeyOK, Keys
  <2>2. Active(t) /\ lock'[t].locked_by = lock[t].locked_by
    BY <2>1 DEF Active
  <2>3. CASE Announced(t)
    BY <1>1, <2>2, <2>3 DEF Announced
  <2>4. CASE AboutToBe(t)
    BY <1>2, <2>4 DEF AboutToBe
  <2> QED
    BY <1>1, <2>2, <2>3, <2>4 DEF LInv, AllAnnounced
<1>7. LeaseStep
  <2>1. LeftOf' = [t \in Tickets |-> IF LeftOf[t] = 0 THEN 0 ELSE LeftOf[t] - 1]
    BY <1>5, LeaseOf
  <2>2. HolderOf' = [t \in Tickets |-> IF LeftOf[t] > 1 THEN HolderOf[t] ELSE None]
    BY <1>5, LeaseOf
  <2>3. L!Pass
    BY <2>1, <2>2 DEF L!Pass
  <2> QED
    BY <2>3 DEF LeaseStep, L!Next
<1>8. EndStep
  BY <1>2 DEF EndStep, Procs
<1>9. AllKnow'
  BY <1>4 DEF AllKnow
<1> QED
  BY <1>3, <1>6, <1>7, <1>8, <1>9 DEF LInv

\* A handler that is cut short leaves a lock that nobody may have announced.
LEMMA CrashLeased ==
    ASSUME IInv, LInv, NEW p \in Procs, Crash(p)
    PROVE  LInv' /\ LeaseStep /\ EndStep
<1>1. OthersIdle(p) /\ lock' = lock
  BY Alone DEF Crash
<1>2. proc' = [proc EXCEPT ![p] = Idle] /\ Idle.pc = "idle"
  BY DEF Crash, Finish, Idle
<1>3. AllAnnounced'
  <2>1. crashes' # 0
    BY ConstantsAssumption DEF Crash, IInv, RestOK
  <2> QED
    BY <2>1 DEF AllAnnounced
<1>4. KnowsKey(p, Idle, lock'[Idle.ticket])
  BY <1>2, IdleKnows
<1>5. LInv'
  BY <1>1, <1>2, <1>3, <1>4, StepTo DEF IInv
<1> QED
  BY <1>1, <1>5, LeaseStutters DEF EndStep

LEMMA StepLeased ==
    ASSUME MaxInFlight = 1, IInv, LInv, [Next]_vars
    PROVE  LInv' /\ LeaseStep /\ EndStep
<1>1. CASE UNCHANGED vars
  <2>1. UNCHANGED <<lock, said, proc, crashes>>
    BY <1>1 DEF vars
  <2>2. LInv'
    BY <2>1 DEF LInv, OneAtATime, AllKnow, AllAnnounced, Active, Announced, AboutToBe
  <2> QED
    BY <2>1, <2>2, LeaseStutters DEF EndStep
<1>2. CASE Tick
  BY <1>2, TickLeased
<1>3. ASSUME NEW p \in Procs, Continue(p) PROVE LInv' /\ LeaseStep /\ EndStep
  BY <1>3, AcquireLeased, RefreshLeased, DeleteLeased, SweepLeased, EmitLeased DEF Continue
<1>4. ASSUME NEW p \in Procs, Crash(p) PROVE LInv' /\ LeaseStep /\ EndStep
  BY <1>4, CrashLeased
<1>5. ASSUME NEW p \in Handlers, Arrive(p) PROVE LInv' /\ LeaseStep /\ EndStep
  BY <1>5, ArriveLeased
<1>6. ASSUME NEW p \in Janitors, SweepScan(p) PROVE LInv' /\ LeaseStep /\ EndStep
  BY <1>6, ScanLeased
<1> QED
  BY <1>1, <1>2, <1>3, <1>4, <1>5, <1>6 DEF Next

LEMMA InitLeased == Init => LInv /\ L!Init
<1> SUFFICES ASSUME Init PROVE LInv /\ L!Init
  OBVIOUS
<1>1. /\ \A p \in Procs : proc[p] = Idle
      /\ \A t \in Tickets : lock[t] = NoKey
  BY DEF Init
<1>2. Idle.pc = "idle" /\ NoKey.locked_by = None
  BY DEF Idle, NoKey
<1>3. OneAtATime
  BY <1>1, <1>2 DEF OneAtATime
<1>4. AllKnow
  BY <1>1, <1>2, IdleKnows DEF AllKnow
<1>5. AllAnnounced
  BY <1>1, <1>2 DEF AllAnnounced, Active
<1>6. \A t \in Tickets : HolderIn(lock[t]) = None /\ LeftIn(lock[t]) = 0
  BY <1>1, <1>2 DEF HolderIn, LeftIn
<1>7. L!Init
  BY <1>6, LeaseOf DEF L!Init
<1> QED
  BY <1>3, <1>4, <1>5, <1>7 DEF LInv

--------------------------------------------------------------------------------
(* The theorems: the operations on the locks do not overlap.               *)

\* What the only operation in flight knows of the key it works on stays true.
THEOREM LeaseInvariant ==
    ASSUME MaxInFlight = 1
    PROVE  Spec => [](IInv /\ LInv)
<1>1. IInv /\ LInv /\ [Next]_vars => IInv' /\ LInv'
  BY StepKept, StepLeased
<1>2. Init => IInv /\ LInv
  BY InitKept, InitLeased
<1> QED
  BY <1>1, <1>2, PTL DEF Spec

\* The lock in Redis implements the lease of module Lease: it passes to nobody
\* else while it runs, and its holder can only lengthen it.
THEOREM LocksAreLeases ==
    ASSUME MaxInFlight = 1
    PROVE  Spec => LeaseSpec
<1>1. IInv /\ LInv /\ [Next]_vars => [L!Next]_(L!vars)
  BY StepLeased DEF LeaseStep
<1>2. Init => L!Init
  BY InitLeased
<1> QED
  BY <1>1, <1>2, LeaseInvariant, PTL DEF Spec, LeaseSpec, L!Spec

\* A janitor ends an active lock in its last half second only.
THEOREM JanitorIsNotEarly ==
    ASSUME MaxInFlight = 1
    PROVE  Spec => JanitorOnlyAtTheEnd
<1>1. IInv /\ LInv /\ [Next]_vars => EndStep
  BY StepLeased
<1> QED
  BY <1>1, LeaseInvariant, PTL DEF Spec, JanitorOnlyAtTheEnd, EndStep

\* Between operations the last event on a ticket names the holder of its lock.
THEOREM EventsNameTheHolder ==
    ASSUME MaxInFlight = 1
    PROVE  Spec => []ActiveIsAnnounced
<1>1. IInv /\ LInv => ActiveIsAnnounced
  BY DEF LInv, AllAnnounced, Announced, AboutToBe, ActiveIsAnnounced, InFlight
<1> QED
  BY <1>1, LeaseInvariant, PTL
================================================================================
