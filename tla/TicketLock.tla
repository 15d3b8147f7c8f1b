------------------------------- MODULE TicketLock -------------------------------
(***************************************************************************)
(* The lock of a ticket: a Redis hash with a time to live, taken by the    *)
(* detail page of a technician or an admin, refreshed while the page is    *)
(* open, released when it is left, forced open by an admin, and cleaned up *)
(* by the lock janitor.                                                    *)
(*                                                                         *)
(* Every operation reads the hash in one Redis call and writes in another; *)
(* nothing makes the pair atomic.  Deadlines are kept as the time left to  *)
(* them, in units of which Half make half a second; Tick counts them down. *)
(* The tickets exist: an acquire on a missing one is refused with 404.     *)
(***************************************************************************)
EXTENDS Integers, FiniteSets

CONSTANTS
    Tickets,     \* ticket ids
    Users,       \* technicians and admins
    Admins,      \* those of them who may force a lock open
    Handlers,    \* workers for HTTP requests
    Janitors,    \* lock janitor loops: one per backend instance
    None,        \* Python's None
    Ttl,         \* lock_ttl_seconds, in units
    Half,        \* half a second, in units
    MaxInFlight, \* bound on the handlers and sweeps in flight at once
    MaxCrashes   \* bound on those cut short by a crash or an exception

Procs == Handlers \cup Janitors

ASSUME ConstantsAssumption ==
    /\ Admins \subseteq Users
    /\ None \notin Users \cup Tickets
    /\ Handlers \cap Janitors = {}
    /\ Half \in Nat \ {0}
    /\ Ttl \in Nat \ {0}
    /\ MaxInFlight \in Nat \ {0}
    /\ MaxCrashes \in Nat

VARIABLES
    lock,    \* the keys lock:{ticket_id}
    said,    \* the last lock event emitted on each ticket
    proc,    \* what each operation in flight has read and is about to do
    crashes  \* operations cut short so far

vars == <<lock, said, proc, crashes>>

\* expires: the time left to the field expires_at; ttl: the time left to the key,
\* -2 if there is no key.  A hash may lack locked_by: a refresh that comes after
\* its key has gone writes expires_at alone.
Keys == [locked_by : Users \cup {None}, expires : 0..Ttl, ttl : {-2} \cup 0..Ttl]

NoKey == [locked_by |-> None, expires |-> 0, ttl |-> -2]

Events == [type : {None, "acquired", "refreshed", "released", "expired"},
           by : Users \cup {None}]

PCs == {"idle", "acquire_write", "refresh_write", "release_delete",
        "sweep_ttl", "sweep_read", "sweep_delete", "emit"}

\* seen: the holder in the hash that was read; expires: the time left to the
\* expires_at about to be written; event: the type of the event to emit; batch:
\* the tickets whose keys the scan returned.
ProcRecords == [pc : PCs, ticket : Tickets \cup {None}, user : Users \cup {None},
                seen : Users \cup {None}, expires : 0..Ttl,
                event : {None, "acquired", "refreshed", "released", "expired"},
                batch : SUBSET Tickets]

Idle == [pc |-> "idle", ticket |-> None, user |-> None, seen |-> None,
         expires |-> 0, event |-> None, batch |-> {}]

InFlight == {p \in Procs : proc[p].pc # "idle"}

MayStart(p) == p \notin InFlight /\ Cardinality(InFlight) < MaxInFlight

Finish(p) == proc' = [proc EXCEPT ![p] = Idle]

Emitting(p, event) ==
    proc' = [proc EXCEPT ![p].pc = "emit", ![p].event = event, ![p].expires = 0]

\* An owner, and an expires_at that is still to come.
Active(t) == lock[t].locked_by # None /\ lock[t].expires > 0

ActiveHolder(t) == IF Active(t) THEN lock[t].locked_by ELSE None

\* Redis TTL: in seconds, rounded to the nearest; -2 for a missing key.
TtlReply(ttl) == IF ttl < 0 THEN ttl ELSE (ttl + Half) \div (2 * Half)

--------------------------------------------------------------------------------
(* Acquire, refresh, release and force-release.                            *)

Held(u, expires) == [locked_by |-> u, expires |-> expires, ttl |-> Ttl]

\* HSET of one field, then EXPIRE: a missing key comes to life without owner.
Refreshed_NoExpire(key, expires) == [key EXCEPT !.expires = expires]
Refreshed(key, expires) == [key EXCEPT !.expires = expires, !.ttl = Ttl]

MayAcquire_Always(t, u) == TRUE
MayAcquire(t, u) == ActiveHolder(t) \in {u, None}

\* The read, the check (409 otherwise), and the computation of expires_at.
AcquireRead(p, t, u) ==
    /\ MayStart(p)
    /\ MayAcquire(t, u)
    /\ proc' = [proc EXCEPT ![p] = [Idle EXCEPT !.pc = "acquire_write", !.ticket = t,
                  !.user = u, !.seen = ActiveHolder(t), !.expires = Ttl]]
    /\ UNCHANGED <<lock, said, crashes>>

AcquireWrite(p) ==
    /\ proc[p].pc = "acquire_write"
    /\ lock' = [lock EXCEPT ![proc[p].ticket] = Held(proc[p].user, proc[p].expires)]
    /\ Emitting(p, "acquired")
    /\ UNCHANGED <<said, crashes>>

MayRefresh_Anyone(t, u) == Active(t)
MayRefresh(t, u) == ActiveHolder(t) = u

RefreshRead(p, t, u) ==
    /\ MayStart(p)
    /\ MayRefresh(t, u)
    /\ proc' = [proc EXCEPT ![p] = [Idle EXCEPT !.pc = "refresh_write", !.ticket = t,
                  !.user = u, !.seen = lock[t].locked_by, !.expires = Ttl]]
    /\ UNCHANGED <<lock, said, crashes>>

RefreshWrite(p) ==
    /\ proc[p].pc = "refresh_write"
    /\ lock' = [lock EXCEPT ![proc[p].ticket] = Refreshed(@, proc[p].expires)]
    /\ Emitting(p, "refreshed")
    /\ UNCHANGED <<said, crashes>>

\* Anyone may release a lock that has no owner, expired or not.
MayRelease(t, u, force) == (force /\ u \in Admins) \/ lock[t].locked_by \in {u, None}

ReleaseRead(p, t, u, force) ==
    /\ MayStart(p)
    /\ MayRelease(t, u, force)
    /\ proc' = [proc EXCEPT ![p] = [Idle EXCEPT !.pc = "release_delete", !.ticket = t,
                  !.user = u, !.seen = lock[t].locked_by]]
    /\ UNCHANGED <<lock, said, crashes>>

ReleaseDelete(p) ==
    /\ proc[p].pc = "release_delete"
    /\ lock' = [lock EXCEPT ![proc[p].ticket] = NoKey]
    /\ Emitting(p, "released")
    /\ UNCHANGED <<said, crashes>>

--------------------------------------------------------------------------------
(* The janitor: for every key that the scan returns, TTL, HGETALL, DELETE. *)

\* Go on with the rest of the batch, or sleep.
SweepOn(p, rest) ==
    proc' = [proc EXCEPT ![p] = IF rest = {} THEN Idle
                                ELSE [Idle EXCEPT !.pc = "sweep_ttl", !.batch = rest]]

SweepScan(p) ==
    /\ MayStart(p)
    /\ LET batch == {t \in Tickets : lock[t] # NoKey} IN batch # {} /\ SweepOn(p, batch)
    /\ UNCHANGED <<lock, said, crashes>>

Lapsed_OffByOne(t) == TtlReply(lock[t].ttl) <= 1
Lapsed(t) == TtlReply(lock[t].ttl) <= 0

\* A key that has gone since the scan answers -2, and is deleted again.
SweepTtl(p) ==
    /\ proc[p].pc = "sweep_ttl"
    /\ \E t \in proc[p].batch :
         IF Lapsed(t) THEN proc' = [proc EXCEPT ![p].pc = "sweep_read", ![p].ticket = t]
         ELSE SweepOn(p, proc[p].batch \ {t})
    /\ UNCHANGED <<lock, said, crashes>>

SweepRead(p) ==
    /\ proc[p].pc = "sweep_read"
    /\ proc' = [proc EXCEPT ![p].pc = "sweep_delete", ![p].seen = lock[proc[p].ticket].locked_by]
    /\ UNCHANGED <<lock, said, crashes>>

SweepDelete(p) ==
    /\ proc[p].pc = "sweep_delete"
    /\ lock' = [lock EXCEPT ![proc[p].ticket] = NoKey]
    /\ Emitting(p, "expired")
    /\ UNCHANGED <<said, crashes>>

--------------------------------------------------------------------------------
(* Events, time and failures.                                              *)

Emit(p) ==
    /\ proc[p].pc = "emit"
    /\ said' = [said EXCEPT ![proc[p].ticket] =
                  [type |-> proc[p].event,
                   by |-> IF p \in Janitors THEN proc[p].seen ELSE proc[p].user]]
    /\ SweepOn(p, proc[p].batch \ {proc[p].ticket})
    /\ UNCHANGED <<lock, crashes>>

\* Redis drops a key once its time to live is over.
Older(key) == IF key.ttl <= 0 THEN NoKey
              ELSE [key EXCEPT !.ttl = @ - 1, !.expires = IF @ = 0 THEN 0 ELSE @ - 1]

Tick ==
    /\ lock' = [t \in Tickets |-> Older(lock[t])]
    /\ proc' = [p \in Procs |-> [proc[p] EXCEPT !.expires = IF @ = 0 THEN 0 ELSE @ - 1]]
    /\ UNCHANGED <<said, crashes>>

Crash(p) ==
    /\ crashes < MaxCrashes
    /\ proc[p].pc # "idle"
    /\ crashes' = crashes + 1
    /\ Finish(p)
    /\ UNCHANGED <<lock, said>>

--------------------------------------------------------------------------------
Init ==
    /\ lock = [t \in Tickets |-> NoKey]
    /\ said = [t \in Tickets |-> [type |-> None, by |-> None]]
    /\ proc = [p \in Procs |-> Idle]
    /\ crashes = 0

Continue(p) ==
    \/ AcquireWrite(p) \/ RefreshWrite(p) \/ ReleaseDelete(p)
    \/ SweepTtl(p) \/ SweepRead(p) \/ SweepDelete(p)
    \/ Emit(p)

Arrive(p) ==
    \E t \in Tickets, u \in Users :
        \/ AcquireRead(p, t, u)
        \/ RefreshRead(p, t, u)
        \/ \E force \in BOOLEAN : ReleaseRead(p, t, u, force)

Next ==
    \/ Tick
    \/ \E p \in Procs : Continue(p) \/ Crash(p)
    \/ \E p \in Handlers : Arrive(p)
    \/ \E p \in Janitors : SweepScan(p)

Spec == Init /\ [][Next]_vars

\* Time passes, asyncio resumes the handlers in flight, and the janitor loop
\* runs again after every sleep.
Fairness ==
    /\ WF_vars(Tick)
    /\ \A p \in Procs : WF_vars(Continue(p))
    /\ \A p \in Janitors : WF_vars(SweepScan(p))

FairSpec == Spec /\ Fairness

--------------------------------------------------------------------------------
(* Properties.                                                             *)

\* The keys, the events and the operations in flight have their types.
TypeOK ==
    /\ lock \in [Tickets -> Keys]
    /\ said \in [Tickets -> Events]
    /\ proc \in [Procs -> ProcRecords]
    /\ crashes \in 0..MaxCrashes

\* Redis keeps the key at least as long as the lock it holds is active: a holder
\* whose expires_at is still to come is never dropped by the expiry of the key,
\* however late the write that was computed before it was sent.
KeyOutlivesLease ==
    \A t \in Tickets : lock[t].expires > 0 => lock[t].expires <= lock[t].ttl

\* An active lock is lost only to the janitor, to its own holder, to an admin, or
\* to a handler that read the hash before this holder was in it.
LostOnlyBy ==
    [][\A t \in Tickets : Active(t) /\ lock[t]'.locked_by # lock[t].locked_by =>
         \E p \in Procs :
            /\ proc[p].ticket = t /\ proc'[p] # proc[p]
            /\ \/ p \in Janitors
               \/ proc[p].seen # lock[t].locked_by
               \/ proc[p].pc = "release_delete"
                    /\ proc[p].user \in Admins \cup {lock[t].locked_by}]_vars

\* A lock that somebody holds is not handed to somebody else: the second acquire
\* is refused with 409.
HeldNotOverwritten ==
    [][\A t \in Tickets : Active(t) => lock[t]'.locked_by \in {lock[t].locked_by, None}]_vars

\* The lock is a lease (when operations do not overlap).
HolderOf == [t \in Tickets |-> ActiveHolder(t)]
LeftOf   == [t \in Tickets |-> IF Active(t) THEN lock[t].expires ELSE 0]

L == INSTANCE Lease WITH holder <- HolderOf, left <- LeftOf

LeaseSpec == L!Spec

\* The janitor deletes only locks in their last half second: TTL rounds, so it
\* may come that much too early, and no more.
JanitorOnlyAtTheEnd ==
    [][\A p \in Janitors, t \in Tickets :
         proc[p].pc = "sweep_delete" /\ proc[p].ticket = t /\ lock'[t] # lock[t]
           /\ proc'[p].pc = "emit" => lock[t].ttl < Half]_vars

\* Between operations, an active lock is the one that the last event announced:
\* whoever follows the events knows its holder.
ActiveIsAnnounced ==
    crashes = 0 /\ InFlight = {} => \A t \in Tickets : Active(t) =>
        said[t].type \in {"acquired", "refreshed"} /\ said[t].by = lock[t].locked_by

\* Whoever sends no more requests loses the lock, even if an operation is cut
\* short and whatever the others send.
SilentHolderLoses ==
    \A t \in Tickets, u \in Users :
        <>[](\A p \in Procs : proc[p].user # u) => []<>(lock[t].locked_by # u)
================================================================================
