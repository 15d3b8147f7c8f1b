---------------------------- MODULE TicketLifecycle ----------------------------
(***************************************************************************)
(* The life of a ticket: creation, automatic assignment, first response,   *)
(* closing, escalation and reassignment requests and their review, and the *)
(* sweep that takes tickets away from technicians who went offline.        *)
(*                                                                         *)
(* The backend is asynchronous: a handler gives way to the others at every *)
(* await on MongoDB, Redis or RabbitMQ, and several instances of it share  *)
(* the stores.  So a handler is not one action but one action per access   *)
(* to the shared state: what it read is kept in its process record, and    *)
(* what it writes later is computed from that copy, however old.  No write *)
(* of these services is conditional on what was read.                      *)
(*                                                                         *)
(* Left out: texts, notes, timestamps (only whether they are set), tags,   *)
(* SLA flags, and the events other than TICKET_CREATED, which no handler   *)
(* of this module consumes.                                                *)
(***************************************************************************)
EXTENDS Naturals, FiniteSets

CONSTANTS
    Tickets,     \* ticket ids that may be created
    Requests,    \* request ids that may be created
    Humans,      \* users with role technician_human
    Virtuals,    \* users with role technician_virtual
    Admins,      \* users with role admin
    Employees,   \* users with role employee
    Targets,     \* users that callers name as a request's target
    Inactive,    \* users whose account status is not active
    Handlers,    \* workers for HTTP requests
    Consumers,   \* workers for deliveries of assignment.queue
    Sweepers,    \* reassignment loops: one per backend instance
    None,        \* Python's None
    MaxInFlight, \* bound on the handlers in flight at once; 1: one after the other
    MaxCrashes   \* bound on the handlers cut short by a crash or an exception

Technicians == Humans \cup Virtuals
Staff       == Technicians \cup Admins
Users       == Staff \cup Employees
Procs       == Handlers \cup Consumers \cup Sweepers

OpenStatuses     == {"new", "assigned", "in_progress", "escalated"}
TerminalStatuses == {"resolved", "rejected", "closed"}
TicketStatus     == OpenStatuses \cup TerminalStatuses
RequestType      == {"escalation", "reassignment"}
Verdicts         == {"approved", "rejected", "returned"}

ASSUME ConstantsAssumption ==
    /\ None \notin Users \cup TicketStatus \cup Tickets \cup Requests
    /\ Humans \cap Virtuals = {}
    /\ Targets \subseteq Users
    /\ Handlers \cap Consumers = {}
    /\ Sweepers \cap (Handlers \cup Consumers) = {}
    /\ MaxInFlight \in Nat \ {0}
    /\ MaxCrashes \in Nat

VARIABLES
    tickets,   \* the tickets collection
    requests,  \* the requests collection
    created,   \* tickets with a TICKET_CREATED waiting in assignment.queue
    online,    \* users whose presence key is alive in Redis
    proc,      \* what each handler in flight has read and is about to do
    crashes    \* handlers cut short so far

\* The stores and the environment: everything but the handlers' own memory.
stores == <<tickets, requests, created, online, crashes>>

vars == <<tickets, requests, created, online, proc, crashes>>

--------------------------------------------------------------------------------
(* Documents and process records.                                          *)

\* A ticket document; first_responded_at and resolved_at are kept as whether
\* they are set.  The status "none" marks an id that is not in the collection.
TicketDocs == [status : TicketStatus \cup {"none"},
               assignee : Users \cup {None},
               previous_status : TicketStatus \cup {None},
               request_pending : BOOLEAN,
               first_responded : BOOLEAN,
               resolved_at : BOOLEAN]

NoTicket == [status |-> "none", assignee |-> None, previous_status |-> None,
             request_pending |-> FALSE, first_responded |-> FALSE,
             resolved_at |-> FALSE]

NewTicket == [NoTicket EXCEPT !.status = "new"]

RequestDocs == [status : {"none", "pending"} \cup Verdicts,
                type : RequestType \cup {None},
                ticket : Tickets \cup {None},
                target : Users \cup {None}]

NoRequest == [status |-> "none", type |-> None, ticket |-> None, target |-> None]

PCs == {"idle", "create_emit", "assign_choose", "assign_set",
        "sweep_scan", "sweep_next", "sweep_move", "respond_write",
        "close_check", "close_write", "request_insert", "request_pick",
        "request_mark", "request_approve", "approve_assign", "approve_clear",
        "finalize_read", "finalize_write", "review_stamp"}

\* pc: the next access to the shared state; was: of the ticket read, the status
\* (in a review that restores, the previous_status), all a handler uses of it
\* once its checks are done; kind: the
\* type of a request being raised, the verdict of a review or the status a
\* ticket is closed with; target: a user chosen by the handler or its caller;
\* seen: the presence snapshot of a sweep; batch: per ticket, the assignee the
\* cursor of the sweep returned, None for a ticket it did not return.
ProcRecords == [pc : PCs,
                ticket : Tickets \cup {None},
                user : Users \cup {None},
                was : TicketStatus \cup {None},
                request : Requests \cup {None},
                kind : TicketStatus \cup RequestType \cup Verdicts \cup {None},
                target : Users \cup {None},
                seen : SUBSET Users,
                batch : [Tickets -> Users \cup {None}]]

NoBatch == [t \in Tickets |-> None]

Idle == [pc |-> "idle", ticket |-> None, user |-> None, was |-> None,
         request |-> None, kind |-> None, target |-> None, seen |-> {},
         batch |-> NoBatch]

Exists(t) == tickets[t].status # "none"
Open(t)   == tickets[t].status \in OpenStatuses
Closed(t) == tickets[t].status \in TerminalStatuses

InFlight == {p \in Procs : proc[p].pc # "idle"}

MayStart(p) == p \notin InFlight /\ Cardinality(InFlight) < MaxInFlight

Finish(p) == proc' = [proc EXCEPT ![p] = Idle]

GoTo(p, pc) == proc' = [proc EXCEPT ![p].pc = pc]

\* get_available_technicians and the cursor of _pick_online_human_technician:
\* online, active, in one of the roles, and not excluded.  Which candidate the
\* assignment algorithm returns is left open.
Available(role, excluded) == ((online \ excluded) \cap role) \ Inactive

--------------------------------------------------------------------------------
(* What each update of the tickets collection makes of a document.  Those   *)
(* with a name ending in a qualifier after an underscore are mutants: each  *)
(* makes one plausible mistake, and a property is checked to notice it.     *)

\* set_assignee and unassign_ticket: whatever the ticket has become meanwhile.
\* Unassigning leaves the status.
Assigned_KeepsStatus(doc, u) == [doc EXCEPT !.assignee = u]
Assigned(doc, u) == [doc EXCEPT !.assignee = u, !.status = "assigned"]

Unassigned(doc) == [doc EXCEPT !.assignee = None]

\* record_first_response, by the status it read.
Answered(doc, was) ==
    [doc EXCEPT !.first_responded = TRUE,
                !.status = IF was = "assigned" THEN "in_progress" ELSE @]

\* resolve_ticket and reject_ticket.
ClosedAs_NoTimestamp(doc, status) == [doc EXCEPT !.status = status]
ClosedAs(doc, status) ==
    [doc EXCEPT !.status = status, !.resolved_at = @ \/ status = "resolved"]

\* _create_request, by the status it read; taker is the human found for a
\* virtual technician's escalation.
TakenOver(doc, taker) ==
    [doc EXCEPT !.status = "assigned", !.previous_status = None,
                !.request_pending = FALSE, !.assignee = taker]
Marked(doc, type, was) ==
    [doc EXCEPT !.request_pending = TRUE,
                !.previous_status = IF type = "escalation" THEN was ELSE @]

\* approve_request, after set_assignee.
Cleared_FlagLeft(doc) == [doc EXCEPT !.previous_status = None]
Cleared_StatusLeft(doc) == [doc EXCEPT !.request_pending = FALSE]
Cleared(doc) == [doc EXCEPT !.request_pending = FALSE, !.previous_status = None]

\* _finalize_without_reassign: an escalation restores the saved status that was
\* read, in_progress if there was none.
Finalized_InProgress(doc, type, was) ==
    [Cleared(doc) EXCEPT !.status = "in_progress"]
Finalized(doc, type, was) ==
    IF type = "escalation"
    THEN [Cleared(doc) EXCEPT !.status = IF was # None THEN was ELSE "in_progress"]
    ELSE [doc EXCEPT !.request_pending = FALSE]

Update(t, doc) == tickets' = [tickets EXCEPT ![t] = doc]

--------------------------------------------------------------------------------
(* Creation and automatic assignment.                                      *)

CreateTicket(p, t) ==
    /\ MayStart(p)
    /\ ~Exists(t)
    /\ Update(t, NewTicket)
    /\ proc' = [proc EXCEPT ![p] = [Idle EXCEPT !.pc = "create_emit", !.ticket = t]]
    /\ UNCHANGED <<requests, created, online, crashes>>

Published_Lost(t) == {}
Published(t) == {t}

EmitCreated(p) ==
    /\ proc[p].pc = "create_emit"
    /\ created' = created \cup Published(proc[p].ticket)
    /\ Finish(p)
    /\ UNCHANGED <<tickets, requests, online, crashes>>

\* The delivery and the read of the ticket; an assigned ticket is left alone.
DeliverCreated(p, t) ==
    /\ MayStart(p)
    /\ t \in created
    /\ created' = created \ {t}
    /\ proc' = IF tickets[t].assignee # None THEN proc
               ELSE [proc EXCEPT ![p] = [Idle EXCEPT !.pc = "assign_choose", !.ticket = t]]
    /\ UNCHANGED <<tickets, requests, online, crashes>>

AssignChoose(p) ==
    /\ proc[p].pc = "assign_choose"
    /\ \/ \E u \in Available(Technicians, {}) :
            proc' = [proc EXCEPT ![p].pc = "assign_set", ![p].target = u]
       \/ Available(Technicians, {}) = {} /\ Finish(p)
    /\ UNCHANGED stores

AssignSet(p) ==
    /\ proc[p].pc = "assign_set"
    /\ Update(proc[p].ticket, Assigned(tickets[proc[p].ticket], proc[p].target))
    /\ Finish(p)
    /\ UNCHANGED <<requests, created, online, crashes>>

--------------------------------------------------------------------------------
(* The reassignment sweep.                                                 *)

SweepStart(p) ==
    /\ MayStart(p)
    /\ proc' = [proc EXCEPT ![p] = [Idle EXCEPT !.pc = "sweep_scan", !.seen = online]]
    /\ UNCHANGED stores

Swept_NotInProgress(t) == tickets[t].status \in {"new", "assigned"}
Swept(t) == Open(t)

\* The documents of the cursor, less those whose assignee is in the snapshot.
SweepScan(p) ==
    /\ proc[p].pc = "sweep_scan"
    /\ LET batch == [t \in Tickets |-> IF Swept(t) /\ tickets[t].assignee \notin proc[p].seen
                                       THEN tickets[t].assignee ELSE None]
       IN IF batch = NoBatch THEN Finish(p)
          ELSE proc' = [proc EXCEPT ![p] = [Idle EXCEPT !.pc = "sweep_next", !.batch = batch]]
    /\ UNCHANGED stores

SweepNext(p) ==
    /\ proc[p].pc = "sweep_next"
    /\ \E t \in Tickets :
         LET candidates == Available(Technicians, {proc[p].batch[t]}) IN
         /\ proc[p].batch[t] # None
         /\ \E u \in IF candidates = {} THEN {None} ELSE candidates :
              proc' = [proc EXCEPT ![p].pc = "sweep_move", ![p].ticket = t, ![p].target = u]
    /\ UNCHANGED stores

SweepMove(p) ==
    /\ proc[p].pc = "sweep_move"
    /\ LET t    == proc[p].ticket
           rest == [proc[p].batch EXCEPT ![t] = None]
       IN /\ Update(t, IF proc[p].target # None THEN Assigned(tickets[t], proc[p].target)
                       ELSE Unassigned(tickets[t]))
          /\ IF rest = NoBatch THEN Finish(p)
             ELSE proc' = [proc EXCEPT ![p] = [Idle EXCEPT !.pc = "sweep_next", !.batch = rest]]
    /\ UNCHANGED <<requests, created, online, crashes>>

--------------------------------------------------------------------------------
(* First response: a technician's message, on whatever ticket.             *)

RespondRead(p, t) ==
    /\ MayStart(p)
    /\ Exists(t) /\ ~tickets[t].first_responded
    /\ proc' = [proc EXCEPT ![p] = [Idle EXCEPT !.pc = "respond_write", !.ticket = t,
                                                !.was = tickets[t].status]]
    /\ UNCHANGED stores

RespondWrite(p) ==
    /\ proc[p].pc = "respond_write"
    /\ Update(proc[p].ticket, Answered(tickets[proc[p].ticket], proc[p].was))
    /\ Finish(p)
    /\ UNCHANGED <<requests, created, online, crashes>>

--------------------------------------------------------------------------------
(* Closing: resolve_ticket and reject_ticket.                              *)

CloseRead(p, t, status) ==
    /\ MayStart(p)
    /\ Exists(t)
    /\ proc' = [proc EXCEPT ![p] = [Idle EXCEPT !.pc = "close_check", !.ticket = t,
                                                !.was = tickets[t].status, !.kind = status]]
    /\ UNCHANGED stores

MayClose_Unchecked(was) == TRUE
MayClose(was) == was \notin TerminalStatuses

\* The lock is read after the ticket: a 409 if another technician holds it,
\* which this module leaves open, or if the ticket read is terminal.
CloseCheck(p) ==
    /\ proc[p].pc = "close_check"
    /\ \/ Finish(p)
       \/ MayClose(proc[p].was) /\ GoTo(p, "close_write")
    /\ UNCHANGED stores

CloseWrite(p) ==
    /\ proc[p].pc = "close_write"
    /\ Update(proc[p].ticket, ClosedAs(tickets[proc[p].ticket], proc[p].kind))
    /\ Finish(p)
    /\ UNCHANGED <<requests, created, online, crashes>>

--------------------------------------------------------------------------------
(* Raising an escalation or reassignment request.                          *)

\* new_id: no two requests share one.  The bound on requests is the set of ids.
NewRequestId(r) ==
    /\ requests[r].status = "none"
    /\ \A q \in Procs : proc[q].request # r

\* Only the assignee, and only while none is pending; the status is not checked.
MayRaise_PendingUnchecked(u, t) == Exists(t) /\ tickets[t].assignee = u
MayRaise(u, t) == Exists(t) /\ tickets[t].assignee = u /\ ~tickets[t].request_pending

\* An escalation may suggest a target, a reassignment names one.
RequestRead(p, r, u, t, type, target) ==
    /\ MayStart(p)
    /\ MayRaise(u, t)
    /\ type = "reassignment" => target # None
    /\ NewRequestId(r)
    /\ proc' = [proc EXCEPT ![p] =
         [Idle EXCEPT !.pc = "request_insert", !.ticket = t, !.user = u, !.request = r,
                      !.was = tickets[t].status, !.kind = type, !.target = target]]
    /\ UNCHANGED stores

VirtualEscalation(p) == proc[p].kind = "escalation" /\ proc[p].user \in Virtuals

RequestInsert(p) ==
    /\ proc[p].pc = "request_insert"
    /\ requests' = [requests EXCEPT ![proc[p].request] =
         [status |-> "pending", type |-> proc[p].kind, ticket |-> proc[p].ticket,
          target |-> proc[p].target]]
    /\ GoTo(p, IF VirtualEscalation(p) THEN "request_pick" ELSE "request_mark")
    /\ UNCHANGED <<tickets, created, online, crashes>>

\* A virtual technician's escalation looks for a human who is online.
RequestPick(p) ==
    /\ proc[p].pc = "request_pick"
    /\ LET candidates == Available(Humans, {proc[p].user}) IN
         \E u \in IF candidates = {} THEN {None} ELSE candidates :
            proc' = [proc EXCEPT ![p].pc = "request_mark", ![p].target = u]
    /\ UNCHANGED stores

RequestMark(p) ==
    /\ proc[p].pc = "request_mark"
    /\ LET doc == tickets[proc[p].ticket] IN
         Update(proc[p].ticket,
                IF VirtualEscalation(p) /\ proc[p].target # None
                THEN TakenOver(doc, proc[p].target)
                ELSE Marked(doc, proc[p].kind, proc[p].was))
    /\ IF VirtualEscalation(p) THEN GoTo(p, "request_approve") ELSE Finish(p)
    /\ UNCHANGED <<requests, created, online, crashes>>

\* A virtual technician's escalation is approved on the spot, human or not.
RequestApprove(p) ==
    /\ proc[p].pc = "request_approve"
    /\ requests' = [requests EXCEPT ![proc[p].request].status = "approved",
                                    ![proc[p].request].target = proc[p].target]
    /\ Finish(p)
    /\ UNCHANGED <<tickets, created, online, crashes>>

--------------------------------------------------------------------------------
(* Review of a request by an admin.                                        *)

MayReview_Again(r) == requests[r].status # "none"
MayReview(r) == requests[r].status = "pending"

\* target is the one the admin gives, None for none given.
ReviewRead(p, r, verdict, target) ==
    LET final == IF target # None THEN target ELSE requests[r].target IN
    /\ MayStart(p)
    /\ MayReview(r)
    /\ verdict = "approved" => final # None
    /\ proc' = [proc EXCEPT ![p] =
         [Idle EXCEPT !.ticket = requests[r].ticket, !.request = r, !.kind = verdict,
                      !.target = IF verdict = "approved" THEN final ELSE None,
                      !.pc = IF verdict = "approved" THEN "approve_assign"
                             ELSE IF requests[r].type = "escalation" THEN "finalize_read"
                             ELSE "finalize_write"]]
    /\ UNCHANGED stores

ApproveAssign(p) ==
    /\ proc[p].pc = "approve_assign"
    /\ Update(proc[p].ticket, Assigned(tickets[proc[p].ticket], proc[p].target))
    /\ GoTo(p, "approve_clear")
    /\ UNCHANGED <<requests, created, online, crashes>>

ApproveClear(p) ==
    /\ proc[p].pc = "approve_clear"
    /\ Update(proc[p].ticket, Cleared(tickets[proc[p].ticket]))
    /\ GoTo(p, "review_stamp")
    /\ UNCHANGED <<requests, created, online, crashes>>

FinalizeRead(p) ==
    /\ proc[p].pc = "finalize_read"
    /\ proc' = [proc EXCEPT ![p].pc = "finalize_write",
                            ![p].was = tickets[proc[p].ticket].previous_status]
    /\ UNCHANGED stores

FinalizeWrite(p) ==
    /\ proc[p].pc = "finalize_write"
    /\ Update(proc[p].ticket, Finalized(tickets[proc[p].ticket],
                                        requests[proc[p].request].type, proc[p].was))
    /\ GoTo(p, "review_stamp")
    /\ UNCHANGED <<requests, created, online, crashes>>

ReviewStamp(p) ==
    /\ proc[p].pc = "review_stamp"
    /\ requests' = [requests EXCEPT
         ![proc[p].request].status = proc[p].kind,
         ![proc[p].request].target = IF proc[p].kind = "approved" THEN proc[p].target ELSE @]
    /\ Finish(p)
    /\ UNCHANGED <<tickets, created, online, crashes>>

--------------------------------------------------------------------------------
(* Failures and the environment.                                           *)

\* A handler is cut short: by an exception, after which a delivery is still
\* acknowledged, or by a crash of the instance, after which RabbitMQ delivers
\* it again.
Crash(p) ==
    /\ crashes < MaxCrashes
    /\ proc[p].pc # "idle"
    /\ crashes' = crashes + 1
    /\ \/ created' = created
       \/ p \in Consumers /\ created' = created \cup {proc[p].ticket}
    /\ Finish(p)
    /\ UNCHANGED <<tickets, requests, online>>

GoOnline(u) ==
    /\ u \notin online
    /\ online' = online \cup {u}
    /\ UNCHANGED <<tickets, requests, created, proc, crashes>>

GoOffline(u) ==
    /\ u \in online
    /\ online' = online \ {u}
    /\ UNCHANGED <<tickets, requests, created, proc, crashes>>

--------------------------------------------------------------------------------
Init ==
    /\ tickets = [t \in Tickets |-> NoTicket]
    /\ requests = [r \in Requests |-> NoRequest]
    /\ created = {}
    /\ online \in SUBSET Users
    /\ proc = [p \in Procs |-> Idle]
    /\ crashes = 0

\* The next access of a handler in flight.
Continue(p) ==
    \/ EmitCreated(p)
    \/ AssignChoose(p) \/ AssignSet(p)
    \/ SweepScan(p) \/ SweepNext(p) \/ SweepMove(p)
    \/ RespondWrite(p)
    \/ CloseCheck(p) \/ CloseWrite(p)
    \/ RequestInsert(p) \/ RequestPick(p) \/ RequestMark(p) \/ RequestApprove(p)
    \/ ApproveAssign(p) \/ ApproveClear(p)
    \/ FinalizeRead(p) \/ FinalizeWrite(p)
    \/ ReviewStamp(p)

\* A request of a client reaches the backend.
Arrive(p) ==
    \/ \E t \in Tickets : CreateTicket(p, t)
    \/ \E t \in Tickets : RespondRead(p, t)
    \/ \E t \in Tickets, status \in {"resolved", "rejected"} : CloseRead(p, t, status)
    \/ \E r \in Requests, u \in Staff, t \in Tickets, type \in RequestType,
          target \in Targets \cup {None} : RequestRead(p, r, u, t, type, target)
    \/ \E r \in Requests, verdict \in Verdicts, target \in Targets \cup {None} :
         ReviewRead(p, r, verdict, target)

Next ==
    \/ \E p \in Procs : Continue(p) \/ Crash(p)
    \/ \E p \in Handlers : Arrive(p)
    \/ \E p \in Consumers, t \in Tickets : DeliverCreated(p, t)
    \/ \E p \in Sweepers : SweepStart(p)
    \/ \E u \in Users : GoOnline(u) \/ GoOffline(u)

Spec == Init /\ [][Next]_vars

\* Handlers in flight go on (asyncio runs every ready task), RabbitMQ delivers
\* what is queued, and the reassignment loop runs again after every sleep.
\* Nothing obliges clients to send requests or users to come and go.
Fairness ==
    /\ \A p \in Procs : WF_vars(Continue(p))
    /\ \A p \in Consumers, t \in Tickets : WF_vars(DeliverCreated(p, t))
    /\ \A p \in Sweepers : WF_vars(SweepStart(p))

FairSpec == Spec /\ Fairness

--------------------------------------------------------------------------------
(* Properties.                                                             *)

\* Every document and process record has its type, and no code path sets the
\* statuses escalated and closed that the enum declares.
TypeOK ==
    /\ tickets \in [Tickets -> TicketDocs]
    /\ requests \in [Requests -> RequestDocs]
    /\ created \subseteq Tickets
    /\ online \subseteq Users
    /\ proc \in [Procs -> ProcRecords]
    /\ crashes \in 0..MaxCrashes
    /\ \A t \in Tickets : tickets[t].status \notin {"escalated", "closed"}

\* A ticket that is new belongs to nobody, whatever handlers race on it: the
\* unconditional writes of set_assignee, record_first_response and the reviews
\* never put the status new of an old copy on an assigned ticket.
NewIsUnassigned ==
    \A t \in Tickets : tickets[t].status = "new" => tickets[t].assignee = None

\* A resolved ticket carries its resolution time, also when resolved is the
\* status a review restored, so the SLA job always finds what it compares.
ResolvedIsStamped ==
    \A t \in Tickets : tickets[t].status = "resolved" => tickets[t].resolved_at

PendingOn(t)   == {r \in Requests : requests[r].ticket = t /\ requests[r].status = "pending"}
\* Escalations of a virtual technician approved while no human was online.
AbandonedOn(t) == {r \in Requests : /\ requests[r].ticket = t
                                    /\ requests[r].status = "approved"
                                    /\ requests[r].target = None}

\* A ticket has at most one pending request at a time (the 409 of
\* _create_request promises it; the check and the insert are two accesses).
OnePendingRequest ==
    \A t \in Tickets : \A r, s \in PendingOn(t) : r = s

\* Between handlers, request_pending is raised exactly for a request that waits
\* for its review or for an escalation approved with nobody to take it.
PendingFlagAgrees ==
    InFlight = {} => \A t \in Tickets :
        tickets[t].request_pending <=> PendingOn(t) \cup AbandonedOn(t) # {}

\* Between handlers, a status is saved exactly while an escalation waits.
SavedStatusAgrees ==
    InFlight = {} => \A t \in Tickets :
        tickets[t].previous_status # None
          <=> AbandonedOn(t) \cup {r \in PendingOn(t) : requests[r].type = "escalation"} # {}

\* in_progress means a technician has answered, also when a review restored it.
InProgressAnswered ==
    \A t \in Tickets : tickets[t].status = "in_progress" => tickets[t].first_responded

\* A reviewed request is final: no second review changes its verdict or target.
ReviewedIsFinal ==
    [][\A r \in Requests : requests[r].status \in Verdicts
                              => requests[r]' = requests[r]]_vars

\* A terminal ticket is opened again only by the review of a request on it, by a
\* virtual technician's escalation, or by the automatic assignment of a ticket
\* closed before anyone had it; it never turns from one terminal status into
\* the other.
ReopenedOnlyBy ==
    [][\A t \in Tickets : Closed(t) /\ tickets[t]'.status # tickets[t].status =>
          /\ tickets[t]'.status \in OpenStatuses
          /\ \/ tickets[t].request_pending
             \/ tickets[t].assignee \in Virtuals \cup {None}]_vars

\* A terminal ticket stays terminal.
TerminalNotReopened ==
    [][\A t \in Tickets : Closed(t) => tickets[t]'.status \in TerminalStatuses]_vars

\* A ticket taken from a technician who went offline, with nobody to replace him, is
\* new again.
UnassignedIsNew ==
    [][\A t \in Tickets :
          (/\ tickets[t].status = "assigned" /\ tickets[t].assignee # None
           /\ tickets[t]'.assignee = None)
            => tickets[t]'.status = "new"]_vars

\* No open ticket stays with a technician who is offline for good.
OfflineLosesTicket ==
    \A t \in Tickets, u \in Users :
        []<>~(Open(t) /\ tickets[t].assignee = u /\ u \notin online)

\* While some technician is always available and no handler is cut short, a new
\* ticket leaves new.
NewIsAssigned ==
    [](Available(Technicians, {}) # {} /\ crashes = 0) =>
        \A t \in Tickets : tickets[t].status = "new" ~> tickets[t].status # "new"
================================================================================
