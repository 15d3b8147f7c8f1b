------------------------------- MODULE SlaChecker -------------------------------
(***************************************************************************)
(* The SLA job: a periodic pass over the open tickets that flags the       *)
(* deadlines that are near or missed and emits an event for each.  A pass  *)
(* takes the time once, reads each ticket when the cursor reaches it, and  *)
(* flags and announces in two accesses, while other instances of the       *)
(* backend run their own passes.  Technicians answer, close and reopen the *)
(* ticket meanwhile: a handler of theirs reads it, takes the time, and     *)
(* writes, and everything may happen between the three.                    *)
(*                                                                         *)
(* One ticket is enough: a pass treats each by itself.  It is created at   *)
(* time 0 with the deadlines that the business calendar gave it.           *)
(***************************************************************************)
EXTENDS Naturals, FiniteSets, Sequences

CONSTANTS
    Jobs,        \* sla_checker loops: one per backend instance
    Workers,     \* technicians' calls that are under way together
    None,        \* Python's None
    Dues,        \* pairs of deadlines, in units after the creation
    NearNum, NearDen, \* sla_near_breach_ratio
    MaxTime,     \* bound on the clock
    MaxCrashes   \* bound on the passes cut short

Kinds  == {"first_response", "resolve"}
Alerts == {"near_breach", "breached"}

ASSUME SlaAssumption ==
    /\ Dues \subseteq [Kinds -> Nat]
    /\ NearNum \in Nat \ {0} /\ NearDen \in Nat \ {0}
    /\ MaxTime \in Nat /\ MaxCrashes \in Nat
    /\ None \notin {"answer", "resolve", "reject", "met", "missed"}
    /\ IsFiniteSet(Jobs)

VARIABLES
    now,     \* the clock
    due,     \* the deadlines
    ticket,  \* whether it is open, when it was answered and resolved, its flags
    events,  \* how often each alert was emitted
    hand,    \* what each call of a technician has read and is about to write
    job,     \* what each pass has read and is about to do
    crashes

vars == <<now, due, ticket, events, hand, job, crashes>>

\* Whether a time stamp meets its deadline.
Stamps == {"met", "missed"}

\* at: first_responded_at and resolved_at; flags: the alerts already raised.
TicketDocs ==
    [open : BOOLEAN, at : [Kinds -> Stamps \cup {None}], flags : SUBSET (Kinds \X Alerts)]

\* time: when the pass began; alerts: those that the ticket, as the cursor
\* returned it, calls for and that are not announced yet.
JobRecords == [pc : {"idle", "read", "flag", "emit"}, time : Nat, alerts : Seq(Kinds \X Alerts)]

Tasks == {"answer", "resolve", "reject"}

\* task: what the call under way is for; stamp: the time it took, if it has;
\* starts: record_first_response read the status `assigned`, and writes `in_progress`.
HandRecords ==
    [task : Tasks \cup {None}, stamp : Stamps \cup {None}, starts : BOOLEAN]

FreshTicket == [open |-> TRUE, at |-> [k \in Kinds |-> None], flags |-> {}]

Idle == [pc |-> "idle", time |-> 0, alerts |-> <<>>]
Resting == [task |-> None, stamp |-> None, starts |-> FALSE]

--------------------------------------------------------------------------------
(* What technicians do to the ticket meanwhile.                            *)

\* What the ticket, as a call reads it, allows: only the first response counts,
\* and only an open ticket is closed.
Allowed(task) == IF task = "answer" THEN ticket.at["first_response"] = None ELSE ticket.open

Begin(w) ==
    /\ hand[w].task = None
    /\ \E task \in Tasks, starts \in BOOLEAN :
        /\ Allowed(task)
        /\ starts => task = "answer" /\ ticket.open
        /\ hand' = [hand EXCEPT ![w] = [task |-> task, stamp |-> None, starts |-> starts]]
    /\ UNCHANGED <<now, due, ticket, events, job, crashes>>

TakeTime(w) ==
    /\ hand[w].task # None /\ hand[w].stamp = None
    /\ LET kind == IF hand[w].task = "answer" THEN "first_response" ELSE "resolve" IN
       hand' = [hand EXCEPT ![w].stamp = IF now < due[kind] THEN "met" ELSE "missed"]
    /\ UNCHANGED <<now, due, ticket, events, job, crashes>>

Writing(w, task) ==
    /\ hand[w].task = task /\ hand[w].stamp # None
    /\ hand' = [hand EXCEPT ![w] = Resting]
    /\ UNCHANGED <<now, due, events, job, crashes>>

\* A late answer to a ticket that was assigned opens it again if it is closed.
Answer(w) ==
    /\ Writing(w, "answer")
    /\ ticket' = [ticket EXCEPT !.at["first_response"] = hand[w].stamp, !.open = @ \/ hand[w].starts]

Resolve(w) ==
    /\ Writing(w, "resolve")
    /\ ticket' = [ticket EXCEPT !.open = FALSE, !.at["resolve"] = hand[w].stamp]

Reject(w) ==
    /\ Writing(w, "reject")
    /\ ticket' = [ticket EXCEPT !.open = FALSE]

\* The call is refused (somebody else holds the lock), fails, or dies with its
\* instance.
GiveUp(w) ==
    /\ hand[w].task # None
    /\ hand' = [hand EXCEPT ![w] = Resting]
    /\ UNCHANGED <<now, due, ticket, events, job, crashes>>

\* A reassignment opens a closed ticket again; its resolved_at stays.
Reopen ==
    /\ ~ticket.open
    /\ ticket' = [ticket EXCEPT !.open = TRUE]
    /\ UNCHANGED <<now, due, events, hand, job, crashes>>

--------------------------------------------------------------------------------
(* The pass.                                                               *)

Start(j) ==
    /\ job[j].pc = "idle"
    /\ job' = [job EXCEPT ![j] = [Idle EXCEPT !.pc = "read", !.time = now]]
    /\ UNCHANGED <<now, due, ticket, events, hand, crashes>>

Done_Ignored(seen, k) == FALSE
Done(seen, k) == seen.at[k] # None

Flagged_Ignored(seen, k, alert) == FALSE
Flagged_AnyAlert(seen, k, alert) == \E a \in Alerts : <<k, a>> \in seen.flags
Flagged(seen, k, alert) == <<k, alert>> \in seen.flags

Missed(time, k) == time >= due[k]

\* The ticket is created at time 0, so the window is the deadline itself.
Near(time, k) == due[k] > 0 /\ time * NearDen >= due[k] * NearNum

\* The alert that one check raises.  A missed deadline that is flagged already
\* falls through to the near-breach test.
Check(seen, time, k) ==
    IF Done(seen, k) THEN <<>>
    ELSE IF Missed(time, k) /\ ~Flagged(seen, k, "breached") THEN << <<k, "breached">> >>
    ELSE IF Near(time, k) /\ ~Flagged(seen, k, "near_breach") THEN << <<k, "near_breach">> >>
    ELSE <<>>

\* Go on with the alerts that are left, or sleep.
GoOn(j, alerts) ==
    job' = [job EXCEPT ![j] = IF alerts = <<>> THEN Idle
                              ELSE [Idle EXCEPT !.pc = "flag", !.alerts = alerts]]

\* The cursor returns open tickets only.  Both checks look at the ticket it
\* returned, whatever the first of them writes.
Read(j) ==
    /\ job[j].pc = "read"
    /\ GoOn(j, IF ~ticket.open THEN <<>>
               ELSE Check(ticket, job[j].time, "first_response")
                      \o Check(ticket, job[j].time, "resolve"))
    /\ UNCHANGED <<now, due, ticket, events, hand, crashes>>

\* The flag is set on whatever the ticket has become.
Flag(j) ==
    /\ job[j].pc = "flag"
    /\ ticket' = [ticket EXCEPT !.flags = @ \cup {Head(job[j].alerts)}]
    /\ job' = [job EXCEPT ![j].pc = "emit"]
    /\ UNCHANGED <<now, due, events, hand, crashes>>

Emit(j) ==
    /\ job[j].pc = "emit"
    /\ events' = [events EXCEPT ![Head(job[j].alerts)] = @ + 1]
    /\ GoOn(j, Tail(job[j].alerts))
    /\ UNCHANGED <<now, due, ticket, hand, crashes>>

\* An exception or a crash ends the pass; the loop goes on with the next one.
Crash(j) ==
    /\ job[j].pc # "idle" /\ crashes < MaxCrashes
    /\ crashes' = crashes + 1
    /\ job' = [job EXCEPT ![j] = Idle]
    /\ UNCHANGED <<now, due, ticket, events, hand>>

Tick ==
    /\ now < MaxTime
    /\ now' = now + 1
    /\ UNCHANGED <<due, ticket, events, hand, job, crashes>>

--------------------------------------------------------------------------------
Init ==
    /\ now = 0
    /\ due \in Dues
    /\ ticket = FreshTicket
    /\ events = [a \in Kinds \X Alerts |-> 0]
    /\ hand = [w \in Workers |-> Resting]
    /\ job = [j \in Jobs |-> Idle]
    /\ crashes = 0

Continue(j) == Read(j) \/ Flag(j) \/ Emit(j)

Work(w) == Begin(w) \/ TakeTime(w) \/ Answer(w) \/ Resolve(w) \/ Reject(w) \/ GiveUp(w)

Next ==
    \/ \E w \in Workers : Work(w)
    \/ Reopen
    \/ Tick
    \/ \E j \in Jobs : Start(j) \/ Continue(j) \/ Crash(j)

Spec == Init /\ [][Next]_vars

\* The clock runs, and the loop of every instance starts a pass after every
\* sleep and carries it on.  Nobody has to answer or to close the ticket.
Fairness ==
    /\ WF_vars(Tick)
    /\ \A j \in Jobs : WF_vars(Start(j)) /\ WF_vars(Continue(j))

FairSpec == Spec /\ Fairness

--------------------------------------------------------------------------------
(* Properties.                                                             *)

\* The documents, the passes and the counters have their types.
TypeOK ==
    /\ now \in 0..MaxTime
    /\ due \in Dues
    /\ ticket \in TicketDocs
    /\ events \in [Kinds \X Alerts -> Nat]
    /\ hand \in [Workers -> HandRecords]
    /\ job \in [Jobs -> JobRecords]
    /\ crashes \in 0..MaxCrashes

\* Once the time stamp is on the ticket before the deadline, no breach is flagged
\* ever after.
NeverBlamed(k) ==
    [](ticket.at[k] = "met" /\ now < due[k] => [](<<k, "breached">> \notin ticket.flags))

\* Nobody is blamed for a deadline before which the stamp was on the ticket, however
\* many instances check it, however old the ticket that a pass read, however late its
\* write, and though the ticket is stamped again or opened again.  A time taken before
\* the deadline but written after it is another matter: a pass may have read the ticket
\* in between, and flags it.
NoFalseBreach == NeverBlamed("first_response") /\ NeverBlamed("resolve")

\* Passes that overlap may each announce an alert, but none is repeated pass
\* after pass: at most one announcement for every instance.
AlertsBounded ==
    \A a \in Kinds \X Alerts : events[a] <= Cardinality(Jobs)

\* An open ticket without the time stamp, past its deadline and not flagged.
Overlooked(k) ==
    /\ ticket.open /\ ticket.at[k] = None /\ now >= due[k]
    /\ <<k, "breached">> \notin ticket.flags

\* No deadline stays overlooked: the ticket is flagged, stamped or closed in the end,
\* also when passes are cut short and the ticket is opened again.
OverdueIsFlagged == []<>(\A k \in Kinds : ~Overlooked(k))
================================================================================
