------------------------------ MODULE SerialProofs ------------------------------
(***************************************************************************)
(* One handler after the other: then a ticket and its requests agree, for  *)
(* any number of tickets, requests and users.                              *)
(*                                                                         *)
(* A handler that is alone finds its ticket as it read it, so what it      *)
(* writes fits.  In the middle of a review or of an escalation the ticket  *)
(* and the request do disagree; the invariant says how, access by access.  *)
(***************************************************************************)
EXTENDS TicketLifecycleProofs, FiniteSetTheorems

\* Handlers do not overlap, and none is cut short.
Serial == MaxInFlight = 1 /\ MaxCrashes = 0

OneAtATime ==
    \A p, q \in Procs : p # q => proc[p].pc = "idle" \/ proc[q].pc = "idle"

\* A request that its ticket has to show: pending, or approved for nobody.
Waits(req) == \/ req.status = "pending"
              \/ req.status = "approved" /\ req.target = None

WaitsOn(r, t) == requests[r].ticket = t /\ Waits(requests[r])

OneWaits == \A t \in Tickets, r, s \in Requests : WaitsOn(r, t) /\ WaitsOn(s, t) => r = s

\* Only escalations are approved for nobody.
AbandonedAreEscalations ==
    \A r \in Requests : requests[r].status = "approved" /\ requests[r].target = None
                          => requests[r].type = "escalation"

Agrees(t) ==
    /\ tickets[t].request_pending <=> \E r \in Requests : WaitsOn(r, t)
    /\ tickets[t].previous_status # None
         <=> \E r \in Requests : WaitsOn(r, t) /\ requests[r].type = "escalation"

\* A terminal status that is saved is the status, and somebody has the ticket.
SavedTerminal(d) ==
    d.previous_status \in TerminalStatuses => d.status = d.previous_status /\ d.assignee # None

Settled(t) == Agrees(t) /\ SavedTerminal(tickets[t])

\* The accesses before which ticket and request are apart.
MidPCs == {"request_pick", "request_mark", "request_approve", "approve_clear", "review_stamp"}

Amid(rec, t) == rec.pc \in MidPCs /\ rec.ticket = t

AllSettled == \A t \in Tickets : (\A p \in Procs : ~Amid(proc[p], t)) => Settled(t)

AnsweredDoc(d) ==
    d.status = "in_progress" \/ d.previous_status = "in_progress" => d.first_responded

AllAnswered == \A t \in Tickets : AnsweredDoc(tickets[t])

Unmarked(d) == ~d.request_pending /\ d.previous_status = None

ReadPCs    == {"respond_write", "close_check", "close_write",
               "request_insert", "request_pick", "request_mark"}
PendingPCs == {"request_pick", "request_mark", "request_approve", "approve_assign",
               "approve_clear", "finalize_read", "finalize_write", "review_stamp"}

\* What a handler on ticket d and request req still knows.
KnowsTicket(rec, d) ==
    /\ rec.pc \in {"assign_choose", "assign_set"} => d.assignee = None
    /\ rec.pc = "sweep_move" => d.status \in OpenStatuses
    /\ rec.pc \in ReadPCs => rec.was = d.status
    /\ rec.pc = "close_write" => rec.was \notin TerminalStatuses
    /\ rec.pc \in RaisePCs => d.assignee = rec.user /\ rec.user # None
    /\ rec.pc = "request_insert" => ~d.request_pending
    /\ rec.pc \in {"request_pick", "request_mark", "review_stamp"} => Unmarked(d)
    /\ rec.pc = "request_approve" =>
         /\ SavedTerminal(d)
         /\ IF rec.target # None THEN Unmarked(d)
            ELSE d.request_pending /\ d.previous_status # None

KnowsRequest(rec, req, d) ==
    /\ rec.pc = "request_insert" => req.status = "none"
    /\ rec.pc \in PendingPCs => req.status = "pending" /\ req.ticket = rec.ticket
    /\ rec.pc \in {"request_pick", "request_mark"} => req.type = rec.kind
    /\ rec.pc \in {"request_pick", "request_approve"} =>
         req.type = "escalation" /\ rec.kind = "escalation" /\ rec.user \in Virtuals
    /\ rec.pc \in {"approve_assign", "approve_clear"} => rec.kind = "approved"
    /\ rec.pc \in {"finalize_read", "finalize_write"} => rec.kind # "approved"
    /\ rec.pc \in VerdictPCs /\ rec.kind = "approved" => rec.target # None
    /\ rec.pc = "finalize_read" => req.type = "escalation"
    /\ rec.pc = "finalize_write" /\ req.type = "escalation" => rec.was = d.previous_status

KnowsBatch(rec) == \A t \in Tickets : rec.batch[t] # None => Open(t)

Knows(rec) ==
    /\ KnowsBatch(rec)
    /\ KnowsTicket(rec, tickets[rec.ticket])
    /\ KnowsRequest(rec, requests[rec.request], tickets[rec.ticket])

AllKnow == \A p \in Procs : proc[p].pc # "idle" => Knows(proc[p])

SInv ==
    /\ OneAtATime
    /\ OneWaits
    /\ AbandonedAreEscalations
    /\ AllSettled
    /\ AllAnswered
    /\ AllKnow

\* The steps that the two action properties allow.
FinalStep ==
    \A r \in Requests : requests[r].status \in Verdicts => requests'[r] = requests[r]

ReopenStep ==
    \A t \in Tickets : Closed(t) /\ tickets'[t].status # tickets[t].status =>
        /\ tickets'[t].status \in OpenStatuses
        /\ tickets[t].request_pending \/ tickets[t].assignee \in Virtuals \cup {None}

OthersIdle(p) == \A q \in Procs : q # p => proc[q].pc = "idle"

AllQuiet == \A t \in Tickets : Settled(t)

--------------------------------------------------------------------------------
(* Steps of the only handler in flight.                                    *)

LEMMA Alone ==
    ASSUME SInv, NEW p \in Procs, proc[p].pc # "idle"
    PROVE  OthersIdle(p)
BY DEF SInv, OneAtATime, OthersIdle

\* The bound on handlers in flight lets one start only when all have ended.
LEMMA StartAlone ==
    ASSUME Serial, SInv, NEW p \in Procs, MayStart(p)
    PROVE  OthersIdle(p) /\ proc[p].pc = "idle"
<1>1. proc[p].pc = "idle"
  BY DEF MayStart, InFlight
<1>2. ASSUME NEW q \in Procs, proc[q].pc # "idle" PROVE FALSE
  <2>1. InFlight = {q}
    BY <1>2 DEF InFlight, SInv, OneAtATime
  <2>2. Cardinality(InFlight) = 1
    BY <2>1, FS_Singleton
  <2> QED
    BY <2>2 DEF MayStart, Serial
<1> QED
  BY <1>1, <1>2 DEF OthersIdle

LEMMA QuietNow ==
    ASSUME SInv, NEW p \in Procs, OthersIdle(p), proc[p].pc \notin MidPCs
    PROVE  AllQuiet
BY DEF SInv, OthersIdle, AllSettled, AllQuiet, Amid, MidPCs

\* Only p has moved.
LEMMA StepTo ==
    ASSUME NEW p \in Procs, OthersIdle(p),
           \A q \in Procs : q # p => proc'[q] = proc[q],
           OneWaits', AbandonedAreEscalations', AllAnswered',
           \A t \in Tickets : Amid(proc[p], t)' \/ Settled(t)',
           proc'[p].pc # "idle" => Knows(proc[p])'
    PROVE  SInv'
<1>1. OneAtATime'
  BY DEF OthersIdle, OneAtATime
<1>2. AllSettled'
  BY DEF AllSettled
<1>3. AllKnow'
  BY DEF OthersIdle, AllKnow
<1> QED
  BY <1>1, <1>2, <1>3 DEF SInv

\* A document changes, but not what it shows of the requests.
LEMMA MarksKept ==
    ASSUME UNCHANGED requests, NEW t \in Tickets, Settled(t), SavedTerminal(tickets[t])',
           tickets'[t].request_pending = tickets[t].request_pending,
           tickets'[t].previous_status = tickets[t].previous_status
    PROVE  Settled(t)'
BY DEF Settled, Agrees, WaitsOn

LEMMA RequestsKept ==
    ASSUME SInv, UNCHANGED requests
    PROVE  OneWaits' /\ AbandonedAreEscalations' /\ FinalStep
BY DEF SInv, OneWaits, AbandonedAreEscalations, WaitsOn, FinalStep

\* Steps that leave tickets and requests alone.
LEMMA ReadStep ==
    ASSUME SInv, NEW p \in Procs, OthersIdle(p), proc[p].pc \notin MidPCs,
           UNCHANGED <<tickets, requests>>,
           \A q \in Procs : q # p => proc'[q] = proc[q],
           proc'[p].pc # "idle" => Knows(proc[p])'
    PROVE  SInv' /\ FinalStep /\ ReopenStep
<1>1. \A t \in Tickets : Settled(t)'
  BY QuietNow DEF AllQuiet, Settled, Agrees, WaitsOn
<1>2. AllAnswered'
  BY DEF SInv, AllAnswered
<1>3. ReopenStep
  BY DEF ReopenStep
<1> QED
  BY <1>1, <1>2, <1>3, StepTo, RequestsKept

\* Steps that write one document, but not what it shows of the requests.
LEMMA WriteStep ==
    ASSUME IInv, SInv, NEW p \in Procs, OthersIdle(p), proc[p].pc \notin MidPCs,
           NEW t \in Tickets, NEW d, Update(t, d), UNCHANGED requests,
           d.request_pending = tickets[t].request_pending,
           d.previous_status = tickets[t].previous_status,
           SavedTerminal(d), AnsweredDoc(d),
           Closed(t) /\ d.status # tickets[t].status =>
               /\ d.status \in OpenStatuses
               /\ tickets[t].request_pending \/ tickets[t].assignee \in Virtuals \cup {None},
           \A q \in Procs : q # p => proc'[q] = proc[q],
           proc'[p].pc # "idle" => Knows(proc[p])'
    PROVE  SInv' /\ FinalStep /\ ReopenStep
<1>1. tickets'[t] = d /\ \A u \in Tickets : u # t => tickets'[u] = tickets[u]
  BY DEF IInv, TicketsOK, Update
<1>2. ASSUME NEW u \in Tickets PROVE Settled(u)'
  <2>1. Settled(u)
    BY QuietNow DEF AllQuiet
  <2>2. SavedTerminal(tickets[u])'
    BY <1>1, <2>1 DEF SavedTerminal, Settled
  <2> QED
    BY <1>1, <2>1, <2>2, MarksKept
<1>3. AllAnswered'
  BY <1>1 DEF SInv, AllAnswered, AnsweredDoc
<1>4. ReopenStep
  BY <1>1 DEF ReopenStep
<1> QED
  BY <1>2, <1>3, <1>4, StepTo, RequestsKept

\* A handler that ends.
LEMMA Finished ==
    ASSUME IInv, NEW p \in Procs, Finish(p)
    PROVE  proc'[p].pc = "idle" /\ \A q \in Procs : q # p => proc'[q] = proc[q]
BY DEF Finish, IInv, ProcsOK, Idle
\* A new record of p, for a handler that has just started.
LEMMA Started ==
    ASSUME IInv, NEW p \in Procs, NEW rec, proc' = [proc EXCEPT ![p] = rec]
    PROVE  proc'[p] = rec /\ \A q \in Procs : q # p => proc'[q] = proc[q]
BY DEF IInv, ProcsOK

LEMMA NoBatchKnown == ASSUME NEW rec, rec.batch = NoBatch PROVE KnowsBatch(rec)
BY DEF KnowsBatch, NoBatch

\* A field of p changes, and the label.
LEMMA GoneTo ==
    ASSUME IInv, NEW p \in Procs, NEW pc, GoTo(p, pc)
    PROVE  /\ \A q \in Procs : q # p => proc'[q] = proc[q]
           /\ proc'[p].pc = pc
           /\ proc'[p].ticket = proc[p].ticket /\ proc'[p].user = proc[p].user
           /\ proc'[p].was = proc[p].was /\ proc'[p].request = proc[p].request
           /\ proc'[p].kind = proc[p].kind /\ proc'[p].target = proc[p].target
           /\ proc'[p].batch = proc[p].batch
BY DEF IInv, ProcsOK, ProcRecords, GoTo

\* What is known of a ticket, a request and a batch depends on them only.
LEMMA KnowsBy ==
    ASSUME NEW p \in Procs, UNCHANGED <<tickets, requests>>,
           KnowsBatch(proc'[p]),
           KnowsTicket(proc'[p], tickets[proc'[p].ticket]),
           KnowsRequest(proc'[p], requests[proc'[p].request], tickets[proc'[p].ticket])
    PROVE  Knows(proc[p])'
BY DEF Knows, KnowsBatch, KnowsTicket, KnowsRequest, SavedTerminal, Unmarked, Open

--------------------------------------------------------------------------------
(* Creation, assignment and sweep.                                         *)

\* The new ticket has no request yet: each request is of a ticket there is.
LEMMA CreateTicketSerial ==
    ASSUME Serial, IInv, SInv, NEW p \in Procs, NEW t \in Tickets, CreateTicket(p, t)
    PROVE  SInv' /\ FinalStep /\ ReopenStep
<1> DEFINE rec == [Idle EXCEPT !.pc = "create_emit", !.ticket = t]
<1>1. OthersIdle(p) /\ proc[p].pc \notin MidPCs
  BY StartAlone DEF CreateTicket, MidPCs
<1>2. proc'[p] = rec /\ \A q \in Procs : q # p => proc'[q] = proc[q]
  BY Started DEF CreateTicket
<1>3. rec.pc = "create_emit" /\ rec.batch = NoBatch
  BY DEF Idle
<1>4. Knows(proc[p])'
  BY <1>2, <1>3 DEF Knows, KnowsBatch, NoBatch, KnowsTicket, KnowsRequest, ReadPCs, RaisePCs,
       PendingPCs, VerdictPCs
<1>5. /\ tickets'[t] = NewTicket /\ requests' = requests
      /\ \A u \in Tickets : u # t => tickets'[u] = tickets[u]
  BY DEF CreateTicket, Update, IInv, TicketsOK
<1>6. /\ NewTicket.status = "new" /\ NewTicket.previous_status = None
      /\ NewTicket.request_pending = FALSE
  BY DEF NewTicket, NoTicket
<1>7. tickets[t].status = "none" /\ \A r \in Requests : ~WaitsOn(r, t)
  BY DEF CreateTicket, Exists, IInv, RequestsOK, WaitsOn, Waits
<1>8. Settled(t)'
  BY <1>5, <1>6, <1>7, ConstantsAssumption
  DEF Settled, Agrees, WaitsOn, SavedTerminal, TicketStatus
<1>9. ASSUME NEW u \in Tickets, u # t PROVE Settled(u)'
  BY <1>1, <1>5, <1>9, QuietNow, MarksKept DEF AllQuiet, Settled, SavedTerminal
<1>10. AllAnswered'
  BY <1>5, <1>6, ConstantsAssumption
  DEF SInv, AllAnswered, AnsweredDoc, TicketStatus, OpenStatuses
<1>11. ReopenStep
  BY <1>5, <1>7 DEF ReopenStep, Closed, TerminalStatuses
<1> QED
  BY <1>1, <1>2, <1>4, <1>5, <1>8, <1>9, <1>10, <1>11, StepTo, RequestsKept

LEMMA EmitCreatedSerial ==
    ASSUME IInv, SInv, NEW p \in Procs, EmitCreated(p)
    PROVE  SInv' /\ FinalStep /\ ReopenStep
<1>1. OthersIdle(p) /\ proc[p].pc \notin MidPCs
  BY Alone DEF EmitCreated, MidPCs
<1> QED
  BY <1>1, Finished, ReadStep DEF EmitCreated

LEMMA DeliverCreatedSerial ==
    ASSUME Serial, IInv, SInv, NEW p \in Procs, NEW t \in Tickets, DeliverCreated(p, t)
    PROVE  SInv' /\ FinalStep /\ ReopenStep
<1> DEFINE rec == [Idle EXCEPT !.pc = "assign_choose", !.ticket = t]
<1>1. OthersIdle(p) /\ proc[p].pc = "idle" /\ proc[p].pc \notin MidPCs
  BY StartAlone DEF DeliverCreated, MidPCs
<1>2. CASE proc' = proc
  BY <1>1, <1>2, ReadStep DEF DeliverCreated
<1>3. CASE tickets[t].assignee = None /\ proc' = [proc EXCEPT ![p] = rec]
  <2>1. proc'[p] = rec /\ \A q \in Procs : q # p => proc'[q] = proc[q]
    BY <1>3, Started
  <2>2. rec.pc = "assign_choose" /\ rec.ticket = t /\ rec.batch = NoBatch
    BY DEF Idle
  <2> HIDE DEF rec
  <2>3. Knows(proc[p])'
    BY <1>3, <2>1, <2>2 DEF DeliverCreated, Knows, KnowsBatch, NoBatch, KnowsTicket, KnowsRequest, ReadPCs, RaisePCs,
         PendingPCs, VerdictPCs
  <2> QED
    BY <1>1, <2>1, <2>3, ReadStep DEF DeliverCreated
<1> QED
  BY <1>2, <1>3 DEF DeliverCreated

LEMMA AssignChooseSerial ==
    ASSUME IInv, SInv, NEW p \in Procs, AssignChoose(p)
    PROVE  SInv' /\ FinalStep /\ ReopenStep
<1>1. /\ OthersIdle(p) /\ proc[p].pc \notin MidPCs /\ UNCHANGED <<tickets, requests>>
      /\ Knows(proc[p])
  BY Alone DEF AssignChoose, MidPCs, stores, SInv, AllKnow
<1>2. CASE Finish(p)
  BY <1>1, <1>2, Finished, ReadStep
<1>3. ASSUME NEW u, proc' = [proc EXCEPT ![p].pc = "assign_set", ![p].target = u]
      PROVE  SInv' /\ FinalStep /\ ReopenStep
  <2>1. /\ \A q \in Procs : q # p => proc'[q] = proc[q]
        /\ proc'[p].pc = "assign_set" /\ proc'[p].ticket = proc[p].ticket
        /\ proc'[p].batch = proc[p].batch
    BY <1>3 DEF IInv, ProcsOK, ProcRecords
  <2>2. Knows(proc[p])'
    BY <1>1, <2>1 DEF AssignChoose, Knows, KnowsBatch, Open, KnowsTicket, KnowsRequest, ReadPCs, RaisePCs,
         PendingPCs, VerdictPCs
  <2> QED
    BY <1>1, <2>1, <2>2, ReadStep
<1> QED
  BY <1>2, <1>3 DEF AssignChoose

LEMMA AssignSetSerial ==
    ASSUME IInv, SInv, NEW p \in Procs, AssignSet(p)
    PROVE  SInv' /\ FinalStep /\ ReopenStep
<1>1. OthersIdle(p) /\ proc[p].pc \notin MidPCs /\ Knows(proc[p])
  BY Alone DEF AssignSet, MidPCs, SInv, AllKnow
<1>2. PICK t \in Tickets : t = proc[p].ticket
  BY DEF AssignSet, IInv, ProcsOK, RecordOK, NoTicketPCs
<1>3. PICK d : d = Assigned(tickets[t], proc[p].target)
  OBVIOUS
<1>4. tickets[t] \in TicketDocs /\ tickets[t].assignee = None /\ SavedTerminal(tickets[t])
  BY <1>1, <1>2, QuietNow DEF IInv, TicketsOK, Knows, KnowsTicket, AssignSet, AllQuiet, Settled
<1>5. /\ d.request_pending = tickets[t].request_pending
      /\ d.previous_status = tickets[t].previous_status
      /\ d.first_responded = tickets[t].first_responded
      /\ d.status = "assigned"
  BY <1>3, <1>4 DEF Assigned, TicketDocs
<1>6. SavedTerminal(d) /\ AnsweredDoc(d) /\ d.status \in OpenStatuses
  BY <1>4, <1>5 DEF SInv, AllAnswered, SavedTerminal, AnsweredDoc, OpenStatuses
<1>7. Update(t, d)
  BY <1>2, <1>3 DEF AssignSet
<1> QED
  BY <1>1, <1>4, <1>5, <1>6, <1>7, Finished, WriteStep DEF AssignSet

LEMMA SweepStartSerial ==
    ASSUME Serial, IInv, SInv, NEW p \in Procs, SweepStart(p)
    PROVE  SInv' /\ FinalStep /\ ReopenStep
<1>1. OthersIdle(p) /\ proc[p].pc \notin MidPCs /\ UNCHANGED <<tickets, requests>>
  BY StartAlone DEF SweepStart, MidPCs, stores
<1>2. PICK rec : rec = [Idle EXCEPT !.pc = "sweep_scan", !.seen = online]
  OBVIOUS
<1>3. proc'[p] = rec /\ \A q \in Procs : q # p => proc'[q] = proc[q]
  BY <1>2, Started DEF SweepStart
<1>4. rec.pc = "sweep_scan" /\ rec.batch = NoBatch
  BY <1>2 DEF Idle
<1>5. Knows(proc[p])'
  BY <1>3, <1>4 DEF Knows, KnowsBatch, NoBatch, KnowsTicket, KnowsRequest, ReadPCs, RaisePCs,
       PendingPCs, VerdictPCs
<1> QED
  BY <1>1, <1>3, <1>5, ReadStep

LEMMA SweepScanSerial ==
    ASSUME IInv, SInv, NEW p \in Procs, SweepScan(p)
    PROVE  SInv' /\ FinalStep /\ ReopenStep
<1>1. OthersIdle(p) /\ proc[p].pc \notin MidPCs /\ UNCHANGED <<tickets, requests>>
  BY Alone DEF SweepScan, MidPCs, stores
<1>2. PICK batch : batch = [t \in Tickets |-> IF Swept(t) /\ tickets[t].assignee \notin proc[p].seen
                                               THEN tickets[t].assignee ELSE None]
  OBVIOUS
<1>3. \A t \in Tickets : batch[t] # None => Open(t)
  BY <1>2 DEF Swept
<1>4. CASE Finish(p)
  BY <1>1, <1>4, Finished, ReadStep
<1>5. CASE proc' = [proc EXCEPT ![p] = [Idle EXCEPT !.pc = "sweep_next", !.batch = batch]]
  <2>1. PICK rec : rec = [Idle EXCEPT !.pc = "sweep_next", !.batch = batch]
    OBVIOUS
  <2>2. proc'[p] = rec /\ \A q \in Procs : q # p => proc'[q] = proc[q]
    BY <1>5, <2>1, Started
  <2>3. rec.pc = "sweep_next" /\ rec.batch = batch
    BY <2>1 DEF Idle
  <2>4. Knows(proc[p])'
    BY <1>1, <1>3, <2>2, <2>3 DEF Knows, KnowsBatch, Open, KnowsTicket, KnowsRequest, ReadPCs,
         RaisePCs, PendingPCs, VerdictPCs
  <2> QED
    BY <1>1, <2>2, <2>4, ReadStep
<1> QED
  BY <1>2, <1>4, <1>5 DEF SweepScan

LEMMA SweepNextSerial ==
    ASSUME IInv, SInv, NEW p \in Procs, SweepNext(p)
    PROVE  SInv' /\ FinalStep /\ ReopenStep
<1>1. /\ OthersIdle(p) /\ proc[p].pc \notin MidPCs /\ UNCHANGED <<tickets, requests>>
      /\ Knows(proc[p])
  BY Alone DEF SweepNext, MidPCs, stores, SInv, AllKnow
<1>2. PICK t \in Tickets : /\ proc[p].batch[t] # None
                           /\ \E u : proc' = [proc EXCEPT ![p].pc = "sweep_move",
                                              ![p].ticket = t, ![p].target = u]
  BY DEF SweepNext
<1>3. /\ \A q \in Procs : q # p => proc'[q] = proc[q]
      /\ proc'[p].pc = "sweep_move" /\ proc'[p].ticket = t /\ proc'[p].batch = proc[p].batch
  BY <1>2 DEF IInv, ProcsOK, ProcRecords
<1>4. tickets[t].status \in OpenStatuses
  BY <1>1, <1>2 DEF Knows, KnowsBatch, Open
<1>5. Knows(proc[p])'
  BY <1>1, <1>3, <1>4 DEF Knows, KnowsBatch, Open, KnowsTicket, KnowsRequest, ReadPCs,
       RaisePCs, PendingPCs, VerdictPCs
<1> QED
  BY <1>1, <1>3, <1>5, ReadStep

\* The sweep was alone since it read: the ticket is still open.
LEMMA SweepMoveSerial ==
    ASSUME IInv, SInv, NEW p \in Procs, SweepMove(p)
    PROVE  SInv' /\ FinalStep /\ ReopenStep
<1>1. OthersIdle(p) /\ proc[p].pc \notin MidPCs /\ Knows(proc[p])
  BY Alone DEF SweepMove, MidPCs, SInv, AllKnow
<1>2. PICK t \in Tickets : t = proc[p].ticket
  BY DEF SweepMove, IInv, ProcsOK, RecordOK, NoTicketPCs
<1>3. PICK d : d = IF proc[p].target # None THEN Assigned(tickets[t], proc[p].target)
                   ELSE Unassigned(tickets[t])
  OBVIOUS
<1>4. /\ tickets[t] \in TicketDocs /\ tickets[t].status \in OpenStatuses
      /\ SavedTerminal(tickets[t])
  BY <1>1, <1>2, QuietNow DEF IInv, TicketsOK, Knows, KnowsTicket, SweepMove, AllQuiet, Settled
<1>5. /\ d.request_pending = tickets[t].request_pending
      /\ d.previous_status = tickets[t].previous_status
      /\ d.first_responded = tickets[t].first_responded
      /\ d.status \in {"assigned", tickets[t].status}
  BY <1>3, <1>4 DEF Assigned, Unassigned, TicketDocs
<1>6. SavedTerminal(d) /\ AnsweredDoc(d) /\ d.status \in OpenStatuses /\ ~Closed(t)
  BY <1>4, <1>5 DEF SInv, AllAnswered, SavedTerminal, AnsweredDoc, OpenStatuses,
       TerminalStatuses, Closed
<1>7. Update(t, d)
  BY <1>2, <1>3 DEF SweepMove
<1>8. CASE Finish(p)
  BY <1>1, <1>4, <1>5, <1>6, <1>7, <1>8, Finished, WriteStep DEF SweepMove
<1>9. CASE ~Finish(p)
  <2>1. PICK rest : rest = [proc[p].batch EXCEPT ![t] = None]
    OBVIOUS
  <2>2. PICK rec : rec = [Idle EXCEPT !.pc = "sweep_next", !.batch = rest]
    OBVIOUS
  <2>3. proc'[p] = rec /\ \A q \in Procs : q # p => proc'[q] = proc[q]
    BY <1>2, <1>9, <2>1, <2>2, Started DEF SweepMove
  <2>4. rec.pc = "sweep_next" /\ rec.batch = rest
    BY <2>2 DEF Idle
  <2>5. proc[p].batch \in [Tickets -> Users \cup {None}]
    BY DEF IInv, ProcsOK, ProcRecords
  <2>6. \A u \in Tickets : rest[u] # None => u # t /\ tickets[u].status \in OpenStatuses
    BY <1>1, <2>1, <2>5 DEF Knows, KnowsBatch, Open
  <2>7. KnowsBatch(proc[p])'
    BY <1>7, <2>3, <2>4, <2>6 DEF KnowsBatch, Open, Update, IInv, TicketsOK
  <2>8. Knows(proc[p])'
    BY <2>3, <2>4, <2>7 DEF Knows, KnowsTicket, KnowsRequest, ReadPCs,
         RaisePCs, PendingPCs, VerdictPCs
  <2> QED
    BY <1>1, <1>4, <1>5, <1>6, <1>7, <2>3, <2>8, WriteStep DEF SweepMove
<1> QED
  BY <1>8, <1>9

--------------------------------------------------------------------------------
(* First response and closing.                                             *)

LEMMA RespondReadSerial ==
    ASSUME Serial, IInv, SInv, NEW p \in Procs, NEW t \in Tickets, RespondRead(p, t)
    PROVE  SInv' /\ FinalStep /\ ReopenStep
<1>1. OthersIdle(p) /\ proc[p].pc \notin MidPCs /\ UNCHANGED <<tickets, requests>>
  BY StartAlone DEF RespondRead, MidPCs, stores
<1>2. PICK rec : rec = [Idle EXCEPT !.pc = "respond_write", !.ticket = t,
                                    !.was = tickets[t].status]
  OBVIOUS
<1>3. proc'[p] = rec /\ \A q \in Procs : q # p => proc'[q] = proc[q]
  BY <1>2, Started DEF RespondRead
<1>4. /\ rec.pc = "respond_write" /\ rec.ticket = t /\ rec.was = tickets[t].status
      /\ rec.batch = NoBatch
  BY <1>2 DEF Idle
<1>5. Knows(proc[p])'
  BY <1>1, <1>3, <1>4 DEF Knows, KnowsBatch, NoBatch, KnowsTicket, KnowsRequest, RaisePCs,
       PendingPCs, VerdictPCs
<1> QED
  BY <1>1, <1>3, <1>5, ReadStep

\* in_progress only ever comes with an answer.
LEMMA RespondWriteSerial ==
    ASSUME IInv, SInv, NEW p \in Procs, RespondWrite(p)
    PROVE  SInv' /\ FinalStep /\ ReopenStep
<1>1. OthersIdle(p) /\ proc[p].pc \notin MidPCs /\ Knows(proc[p])
  BY Alone DEF RespondWrite, MidPCs, SInv, AllKnow
<1>2. PICK t \in Tickets : t = proc[p].ticket
  BY DEF RespondWrite, IInv, ProcsOK, RecordOK, NoTicketPCs
<1>3. PICK d : d = Answered(tickets[t], proc[p].was)
  OBVIOUS
<1>4. /\ tickets[t] \in TicketDocs /\ proc[p].was = tickets[t].status
      /\ SavedTerminal(tickets[t])
  BY <1>1, <1>2, QuietNow
  DEF IInv, TicketsOK, Knows, KnowsTicket, ReadPCs, RespondWrite, AllQuiet, Settled
<1>5. /\ d.request_pending = tickets[t].request_pending
      /\ d.previous_status = tickets[t].previous_status
      /\ d.assignee = tickets[t].assignee
      /\ d.first_responded
      /\ d.status = IF tickets[t].status = "assigned" THEN "in_progress" ELSE tickets[t].status
  BY <1>3, <1>4 DEF Answered, TicketDocs
<1>6. SavedTerminal(d) /\ AnsweredDoc(d) /\ (Closed(t) => d.status = tickets[t].status)
  BY <1>4, <1>5 DEF SavedTerminal, AnsweredDoc, TerminalStatuses, Closed
<1>7. Update(t, d)
  BY <1>2, <1>3 DEF RespondWrite
<1> QED
  BY <1>1, <1>5, <1>6, <1>7, Finished, WriteStep DEF RespondWrite

LEMMA CloseReadSerial ==
    ASSUME Serial, IInv, SInv, NEW p \in Procs, NEW t \in Tickets, NEW status,
           CloseRead(p, t, status)
    PROVE  SInv' /\ FinalStep /\ ReopenStep
<1>1. OthersIdle(p) /\ proc[p].pc \notin MidPCs /\ UNCHANGED <<tickets, requests>>
  BY StartAlone DEF CloseRead, MidPCs, stores
<1>2. PICK rec : rec = [Idle EXCEPT !.pc = "close_check", !.ticket = t,
                                    !.was = tickets[t].status, !.kind = status]
  OBVIOUS
<1>3. proc'[p] = rec /\ \A q \in Procs : q # p => proc'[q] = proc[q]
  BY <1>2, Started DEF CloseRead
<1>4. /\ rec.pc = "close_check" /\ rec.ticket = t /\ rec.was = tickets[t].status
      /\ rec.batch = NoBatch
  BY <1>2 DEF Idle
<1>5. Knows(proc[p])'
  BY <1>1, <1>3, <1>4 DEF Knows, KnowsBatch, NoBatch, KnowsTicket, KnowsRequest, RaisePCs,
       PendingPCs, VerdictPCs
<1> QED
  BY <1>1, <1>3, <1>5, ReadStep

LEMMA CloseCheckSerial ==
    ASSUME IInv, SInv, NEW p \in Procs, CloseCheck(p)
    PROVE  SInv' /\ FinalStep /\ ReopenStep
<1>1. /\ OthersIdle(p) /\ proc[p].pc \notin MidPCs /\ UNCHANGED <<tickets, requests>>
      /\ Knows(proc[p])
  BY Alone DEF CloseCheck, MidPCs, stores, SInv, AllKnow
<1>2. CASE Finish(p)
  BY <1>1, <1>2, Finished, ReadStep
<1>3. CASE MayClose(proc[p].was) /\ GoTo(p, "close_write")
  <2>1. /\ \A q \in Procs : q # p => proc'[q] = proc[q]
        /\ proc'[p].pc = "close_write" /\ proc'[p].ticket = proc[p].ticket
        /\ proc'[p].was = proc[p].was /\ proc'[p].batch = proc[p].batch
    BY <1>3, GoneTo
  <2>2. proc[p].was = tickets[proc[p].ticket].status /\ proc[p].was \notin TerminalStatuses
    BY <1>1, <1>3 DEF Knows, KnowsTicket, ReadPCs, CloseCheck, MayClose
  <2>3. Knows(proc[p])'
    BY <1>1, <2>1, <2>2 DEF Knows, KnowsBatch, Open, KnowsTicket, KnowsRequest,
         RaisePCs, PendingPCs, VerdictPCs
  <2> QED
    BY <1>1, <2>1, <2>3, ReadStep
<1> QED
  BY <1>2, <1>3 DEF CloseCheck

\* Nobody else closed the ticket between the check and the write.
LEMMA CloseWriteSerial ==
    ASSUME IInv, SInv, NEW p \in Procs, CloseWrite(p)
    PROVE  SInv' /\ FinalStep /\ ReopenStep
<1>1. OthersIdle(p) /\ proc[p].pc \notin MidPCs /\ Knows(proc[p])
  BY Alone DEF CloseWrite, MidPCs, SInv, AllKnow
<1>2. PICK t \in Tickets : t = proc[p].ticket
  BY DEF CloseWrite, IInv, ProcsOK, RecordOK, NoTicketPCs
<1>3. PICK d : d = ClosedAs(tickets[t], proc[p].kind)
  OBVIOUS
<1>4. /\ tickets[t] \in TicketDocs /\ tickets[t].status \notin TerminalStatuses
      /\ SavedTerminal(tickets[t]) /\ proc[p].kind \in {"resolved", "rejected"}
  BY <1>1, <1>2, QuietNow
  DEF IInv, TicketsOK, ProcsOK, RecordOK, ClosePCs, Knows, KnowsTicket, ReadPCs, CloseWrite,
      AllQuiet, Settled
<1>5. /\ d.request_pending = tickets[t].request_pending
      /\ d.previous_status = tickets[t].previous_status
      /\ d.first_responded = tickets[t].first_responded
      /\ d.status = proc[p].kind
  BY <1>3, <1>4 DEF ClosedAs, TicketDocs
<1>6. SavedTerminal(d) /\ AnsweredDoc(d) /\ ~Closed(t)
  BY <1>4, <1>5 DEF SInv, AllAnswered, SavedTerminal, AnsweredDoc, Closed
<1>7. Update(t, d)
  BY <1>2, <1>3 DEF CloseWrite
<1> QED
  BY <1>1, <1>5, <1>6, <1>7, Finished, WriteStep DEF CloseWrite

--------------------------------------------------------------------------------
(* Requests.                                                               *)

\* Tickets that the handler is not at work on.
LEMMA QuietElsewhere ==
    ASSUME SInv, NEW p \in Procs, OthersIdle(p), NEW u \in Tickets, ~Amid(proc[p], u)
    PROVE  Settled(u)
BY DEF SInv, OthersIdle, AllSettled, Amid, MidPCs

\* A request changes that is of another ticket, before and after.
LEMMA OtherTicketKept ==
    ASSUME IInv, NEW r \in Requests, NEW req, requests' = [requests EXCEPT ![r] = req],
           NEW u \in Tickets, tickets'[u] = tickets[u], Settled(u),
           ~WaitsOn(r, u), ~(req.ticket = u /\ Waits(req))
    PROVE  Settled(u)'
<1>1. \A s \in Requests : requests'[s] = IF s = r THEN req ELSE requests[s]
  BY DEF IInv, RequestsOK
<1>2. \A s \in Requests : WaitsOn(s, u)' <=> WaitsOn(s, u)
  BY <1>1 DEF WaitsOn, Waits
<1>3. \A s \in Requests : WaitsOn(s, u) => requests'[s].type = requests[s].type
  BY <1>1
<1> QED
  BY <1>2, <1>3 DEF Settled, Agrees, SavedTerminal

\* Steps of a handler that leave its ticket apart from the requests.
LEMMA AmidStep ==
    ASSUME IInv, SInv, NEW p \in Procs, OthersIdle(p), NEW t \in Tickets, proc[p].ticket = t,
           NEW d, Update(t, d), UNCHANGED requests, AnsweredDoc(d),
           Closed(t) /\ d.status # tickets[t].status =>
               /\ d.status \in OpenStatuses
               /\ tickets[t].request_pending \/ tickets[t].assignee \in Virtuals \cup {None},
           \A q \in Procs : q # p => proc'[q] = proc[q],
           proc'[p].pc \in MidPCs, proc'[p].ticket = t,
           Knows(proc[p])'
    PROVE  SInv' /\ FinalStep /\ ReopenStep
<1>1. tickets'[t] = d /\ \A u \in Tickets : u # t => tickets'[u] = tickets[u]
  BY DEF IInv, TicketsOK, Update
<1>2. Amid(proc[p], t)'
  BY DEF Amid
<1>3. ASSUME NEW u \in Tickets, u # t PROVE Settled(u)'
  <2>1. Settled(u)
    BY <1>3, QuietElsewhere DEF Amid
  <2>2. SavedTerminal(tickets[u])'
    BY <1>1, <1>3, <2>1 DEF SavedTerminal, Settled
  <2> QED
    BY <1>1, <1>3, <2>1, <2>2, MarksKept
<1>4. AllAnswered'
  BY <1>1 DEF SInv, AllAnswered, AnsweredDoc
<1>5. ReopenStep
  BY <1>1 DEF ReopenStep
<1> QED
  BY <1>2, <1>3, <1>4, <1>5, StepTo, RequestsKept

LEMMA RequestReadSerial ==
    ASSUME Serial, IInv, SInv, NEW p \in Procs, NEW r \in Requests, NEW u \in Staff,
           NEW t \in Tickets, NEW type, NEW target, RequestRead(p, r, u, t, type, target)
    PROVE  SInv' /\ FinalStep /\ ReopenStep
<1>1. OthersIdle(p) /\ proc[p].pc \notin MidPCs /\ UNCHANGED <<tickets, requests>>
  BY StartAlone DEF RequestRead, MidPCs, stores
<1>2. PICK rec : rec = [Idle EXCEPT !.pc = "request_insert", !.ticket = t, !.user = u,
                                    !.request = r, !.was = tickets[t].status, !.kind = type,
                                    !.target = target]
  OBVIOUS
<1>3. proc'[p] = rec /\ \A q \in Procs : q # p => proc'[q] = proc[q]
  BY <1>2, Started DEF RequestRead
<1>4. /\ rec.pc = "request_insert" /\ rec.ticket = t /\ rec.was = tickets[t].status
      /\ rec.batch = NoBatch /\ rec.user = u /\ rec.request = r
  BY <1>2 DEF Idle
<1>5. /\ u # None /\ tickets[t].assignee = u /\ ~tickets[t].request_pending
      /\ requests[r].status = "none"
  BY ConstantsAssumption DEF RequestRead, MayRaise, NewRequestId, Users
<1>6. Knows(proc[p])'
  BY <1>1, <1>3, <1>4, <1>5 DEF Knows, KnowsBatch, NoBatch, KnowsTicket, KnowsRequest,
       PendingPCs, VerdictPCs
<1> QED
  BY <1>1, <1>3, <1>6, ReadStep

\* The request waits, and the ticket does not show it yet.
LEMMA RequestInsertSerial ==
    ASSUME IInv, SInv, NEW p \in Procs, RequestInsert(p)
    PROVE  SInv' /\ FinalStep /\ ReopenStep
<1>1. /\ OthersIdle(p) /\ proc[p].pc = "request_insert" /\ proc[p].pc \notin MidPCs
      /\ Knows(proc[p])
  BY Alone DEF RequestInsert, MidPCs, SInv, AllKnow
<1>2. PICK t \in Tickets, r \in Requests : t = proc[p].ticket /\ r = proc[p].request
  BY <1>1 DEF IInv, ProcsOK, RecordOK, NoTicketPCs, RaisePCs
<1>3. PICK req : req = [status |-> "pending", type |-> proc[p].kind, ticket |-> t,
                        target |-> proc[p].target]
  OBVIOUS
<1>4. req.status = "pending" /\ req.ticket = t /\ req.type = proc[p].kind
  BY <1>3
<1>5. requests' = [requests EXCEPT ![r] = req] /\ tickets' = tickets
  BY <1>2, <1>3 DEF RequestInsert
<1>6. /\ requests'[r] = req
      /\ \A s \in Requests : s # r => requests'[s] = requests[s]
  BY <1>5 DEF IInv, RequestsOK
<1>7. /\ tickets[t].assignee = proc[p].user /\ proc[p].user # None
      /\ proc[p].was = tickets[t].status /\ ~tickets[t].request_pending
      /\ requests[r].status = "none"
  BY <1>1, <1>2 DEF Knows, KnowsTicket, KnowsRequest, RaisePCs, ReadPCs
<1>8. /\ \A s \in Requests : ~WaitsOn(s, t)
      /\ tickets[t].previous_status = None
  BY <1>1, <1>7, QuietNow DEF AllQuiet, Settled, Agrees
<1>9. ASSUME NEW u \in Tickets, u # t PROVE Settled(u)'
  <2>1. Settled(u) /\ ~WaitsOn(r, u) /\ ~(req.ticket = u /\ Waits(req))
    BY <1>1, <1>4, <1>7, <1>9, QuietNow DEF AllQuiet, WaitsOn, Waits
  <2> QED
    BY <1>5, <2>1, OtherTicketKept
<1>10. OneWaits'
  <2>1. ASSUME NEW s \in Requests, s # r, NEW u \in Tickets
        PROVE  WaitsOn(s, u)' <=> WaitsOn(s, u)
    BY <1>6, <2>1 DEF WaitsOn, Waits
  <2>2. \A u \in Tickets : WaitsOn(r, u)' => u = t
    BY <1>4, <1>6 DEF WaitsOn
  <2> QED
    BY <1>8, <2>1, <2>2 DEF SInv, OneWaits
<1>11. AbandonedAreEscalations' /\ FinalStep
  BY <1>4, <1>6, <1>7 DEF SInv, AbandonedAreEscalations, FinalStep, Verdicts
<1>12. AllAnswered' /\ ReopenStep
  BY <1>5 DEF SInv, AllAnswered, ReopenStep
<1>13. /\ \A q \in Procs : q # p => proc'[q] = proc[q]
       /\ proc'[p].pc = IF VirtualEscalation(p) THEN "request_pick" ELSE "request_mark"
       /\ proc'[p].ticket = t /\ proc'[p].user = proc[p].user
       /\ proc'[p].was = proc[p].was /\ proc'[p].request = r
       /\ proc'[p].kind = proc[p].kind
       /\ proc'[p].batch = proc[p].batch
  BY <1>2, GoneTo DEF RequestInsert
<1>14. Amid(proc[p], t)'
  BY <1>13 DEF Amid, MidPCs
<1>15. Knows(proc[p])'
  <2>1. KnowsBatch(proc[p])'
    BY <1>1, <1>5, <1>13 DEF Knows, KnowsBatch, Open
  <2>2. KnowsTicket(proc'[p], tickets[t])
    BY <1>7, <1>8, <1>13 DEF KnowsTicket, Unmarked
  <2>3. KnowsRequest(proc'[p], req, tickets[t])
    BY <1>4, <1>13 DEF KnowsRequest, VirtualEscalation, VerdictPCs
  <2> QED
    BY <1>5, <1>6, <1>13, <2>1, <2>2, <2>3
    DEF Knows, KnowsTicket, KnowsRequest, Unmarked, SavedTerminal
<1> QED
  BY <1>1, <1>9, <1>10, <1>11, <1>12, <1>13, <1>14, <1>15, StepTo

LEMMA RequestPickSerial ==
    ASSUME IInv, SInv, NEW p \in Procs, RequestPick(p)
    PROVE  SInv' /\ FinalStep /\ ReopenStep
<1>1. /\ OthersIdle(p) /\ proc[p].pc = "request_pick" /\ UNCHANGED <<tickets, requests>>
      /\ Knows(proc[p])
  BY Alone DEF RequestPick, stores, SInv, AllKnow
<1>2. PICK u : proc' = [proc EXCEPT ![p].pc = "request_mark", ![p].target = u]
  BY DEF RequestPick
<1>3. /\ \A q \in Procs : q # p => proc'[q] = proc[q]
      /\ proc'[p].pc = "request_mark" /\ proc'[p].ticket = proc[p].ticket
      /\ proc'[p].user = proc[p].user /\ proc'[p].was = proc[p].was
      /\ proc'[p].request = proc[p].request /\ proc'[p].kind = proc[p].kind
      /\ proc'[p].batch = proc[p].batch
  BY <1>2 DEF IInv, ProcsOK, ProcRecords
<1>4. Knows(proc[p])'
  <2>1. KnowsBatch(proc[p])'
    BY <1>1, <1>3 DEF Knows, KnowsBatch, Open
  <2>2. KnowsTicket(proc'[p], tickets[proc[p].ticket])
    BY <1>1, <1>3 DEF Knows, KnowsTicket, ReadPCs, RaisePCs
  <2>3. KnowsRequest(proc'[p], requests[proc[p].request], tickets[proc[p].ticket])
    BY <1>1, <1>3 DEF Knows, KnowsRequest, PendingPCs, VerdictPCs
  <2> QED
    BY <1>1, <1>3, <2>1, <2>2, <2>3
    DEF Knows, KnowsTicket, KnowsRequest, Unmarked, SavedTerminal
<1>5. ASSUME NEW t \in Tickets, ~Amid(proc[p], t)' PROVE Settled(t)'
  <2>1. Settled(t)
    BY <1>1, <1>3, <1>5, QuietElsewhere DEF Amid, MidPCs
  <2> QED
    BY <1>1, <2>1 DEF Settled, Agrees, WaitsOn
<1>6. AllAnswered' /\ ReopenStep
  BY <1>1 DEF SInv, AllAnswered, ReopenStep
<1> QED
  BY <1>1, <1>3, <1>4, <1>5, <1>6, StepTo, RequestsKept

\* What the ticket shows when the request is on it.
LEMMA MarkedSettled ==
    ASSUME IInv, SInv, UNCHANGED requests, NEW t \in Tickets, NEW r \in Requests, WaitsOn(r, t),
           tickets'[t].request_pending,
           tickets'[t].previous_status # None <=> requests[r].type = "escalation",
           SavedTerminal(tickets[t])'
    PROVE  Settled(t)'
<1>1. \A s \in Requests : WaitsOn(s, t) => s = r
  BY DEF SInv, OneWaits
<1> QED
  BY <1>1 DEF Settled, Agrees, WaitsOn

LEMMA RequestMarkSerial ==
    ASSUME IInv, SInv, NEW p \in Procs, RequestMark(p)
    PROVE  SInv' /\ FinalStep /\ ReopenStep
<1>1. /\ OthersIdle(p) /\ proc[p].pc = "request_mark" /\ UNCHANGED requests
      /\ Knows(proc[p])
  BY Alone DEF RequestMark, SInv, AllKnow
<1>2. PICK t \in Tickets, r \in Requests : t = proc[p].ticket /\ r = proc[p].request
  BY <1>1 DEF IInv, ProcsOK, RecordOK, NoTicketPCs, RaisePCs
<1>3. PICK d : d = IF VirtualEscalation(p) /\ proc[p].target # None
                   THEN TakenOver(tickets[t], proc[p].target)
                   ELSE Marked(tickets[t], proc[p].kind, proc[p].was)
  OBVIOUS
<1>4. Update(t, d)
  BY <1>2, <1>3 DEF RequestMark
<1>5. /\ tickets[t].assignee = proc[p].user /\ proc[p].user # None
      /\ proc[p].was = tickets[t].status /\ Unmarked(tickets[t])
      /\ requests[r].status = "pending" /\ requests[r].ticket = t
      /\ requests[r].type = proc[p].kind
  BY <1>1, <1>2
  DEF Knows, KnowsTicket, KnowsRequest, RaisePCs, ReadPCs, PendingPCs
<1>6. proc[p].was \in Restored /\ proc[p].was # None /\ tickets[t] \in TicketDocs
  BY <1>1, <1>2, ConstantsAssumption
  DEF IInv, ProcsOK, RecordOK, RaisePCs, Restored, TicketsOK, TicketStatus, OpenStatuses,
      TerminalStatuses
<1>7. CASE VirtualEscalation(p) /\ proc[p].target # None
  <2>1. /\ d.status = "assigned" /\ Unmarked(d)
    BY <1>3, <1>6, <1>7 DEF TakenOver, TicketDocs, Unmarked
  <2>2. SavedTerminal(d) /\ AnsweredDoc(d)
    BY <2>1, ConstantsAssumption
    DEF SavedTerminal, AnsweredDoc, Unmarked, TicketStatus, OpenStatuses
  <2>3. d.status \in OpenStatuses /\ tickets[t].assignee \in Virtuals
    BY <1>5, <1>7, <2>1 DEF VirtualEscalation, OpenStatuses
  <2>4. /\ \A q \in Procs : q # p => proc'[q] = proc[q]
        /\ proc'[p].pc = "request_approve"
        /\ proc'[p].ticket = t /\ proc'[p].user = proc[p].user
        /\ proc'[p].request = r /\ proc'[p].kind = proc[p].kind
        /\ proc'[p].target = proc[p].target
        /\ proc'[p].batch = proc[p].batch
    BY <1>2, <1>7, GoneTo DEF RequestMark
  <2>5. Knows(proc[p])'
    <3>1. tickets'[t] = d
      BY <1>4 DEF Update, IInv, TicketsOK
    <3>2. KnowsBatch(proc[p])'
      <4>1. \A u \in Tickets : u # t => tickets'[u] = tickets[u]
        BY <1>4 DEF Update, IInv, TicketsOK
      <4>2. d.status \in OpenStatuses
        BY <2>3
      <4> QED
        BY <1>1, <2>4, <3>1, <4>1, <4>2 DEF Knows, KnowsBatch, Open
    <3>3. KnowsTicket(proc'[p], d)
      BY <1>7, <2>1, <2>2, <2>4 DEF KnowsTicket, ReadPCs, RaisePCs
    <3>4. KnowsRequest(proc'[p], requests[r], d)
      BY <1>5, <1>7, <2>4 DEF KnowsRequest, VirtualEscalation, VerdictPCs
    <3> QED
      BY <1>1, <2>4, <3>1, <3>2, <3>3, <3>4
      DEF Knows, KnowsTicket, KnowsRequest, Unmarked, SavedTerminal
  <2> QED
    BY <1>1, <1>2, <1>4, <2>2, <2>3, <2>4, <2>5, AmidStep DEF MidPCs
<1>8. CASE ~(VirtualEscalation(p) /\ proc[p].target # None)
  <2>1. /\ d.status = tickets[t].status /\ d.request_pending
        /\ d.assignee = tickets[t].assignee /\ d.first_responded = tickets[t].first_responded
        /\ d.previous_status = IF proc[p].kind = "escalation" THEN tickets[t].status ELSE None
    BY <1>3, <1>5, <1>6, <1>8 DEF Marked, TicketDocs, Unmarked
  <2>2. SavedTerminal(d) /\ AnsweredDoc(d)
    BY <1>5, <2>1, ConstantsAssumption
    DEF SavedTerminal, AnsweredDoc, SInv, AllAnswered, TicketStatus, OpenStatuses
  <2>3. tickets'[t] = d /\ \A u \in Tickets : u # t => tickets'[u] = tickets[u]
    BY <1>4 DEF Update, IInv, TicketsOK
  <2>4. CASE ~VirtualEscalation(p)
    <3>1. proc'[p].pc = "idle" /\ \A q \in Procs : q # p => proc'[q] = proc[q]
      BY <2>4, Finished DEF RequestMark
    <3>2. Settled(t)'
      <4>1. SavedTerminal(tickets[t])'
        BY <2>2, <2>3 DEF SavedTerminal
      <4> QED
        BY <1>1, <1>5, <1>6, <2>1, <2>3, <4>1, MarkedSettled DEF WaitsOn, Waits
    <3>3. ASSUME NEW u \in Tickets, u # t PROVE Settled(u)'
      <4>1. Settled(u)
        BY <1>1, <1>2, <3>3, QuietElsewhere DEF Amid
      <4>2. SavedTerminal(tickets[u])'
        BY <2>3, <3>3, <4>1 DEF SavedTerminal, Settled
      <4> QED
        BY <1>1, <2>3, <3>3, <4>1, <4>2, MarksKept
    <3>4. AllAnswered' /\ ReopenStep
      BY <2>1, <2>2, <2>3 DEF SInv, AllAnswered, AnsweredDoc, ReopenStep
    <3> QED
      BY <1>1, <3>1, <3>2, <3>3, <3>4, StepTo, RequestsKept
  <2>5. CASE VirtualEscalation(p)
    <3>1. /\ \A q \in Procs : q # p => proc'[q] = proc[q]
          /\ proc'[p].pc = "request_approve"
          /\ proc'[p].ticket = t /\ proc'[p].user = proc[p].user
          /\ proc'[p].request = r /\ proc'[p].kind = proc[p].kind
          /\ proc'[p].target = proc[p].target
          /\ proc'[p].batch = proc[p].batch
      BY <1>2, <2>5, GoneTo DEF RequestMark
    <3>2. Knows(proc[p])'
      <4>1. KnowsBatch(proc[p])'
        BY <1>1, <2>1, <2>3, <3>1 DEF Knows, KnowsBatch, Open
      <4>2. KnowsTicket(proc'[p], d)
        BY <1>5, <1>6, <1>8, <2>1, <2>2, <2>5, <3>1
        DEF KnowsTicket, ReadPCs, RaisePCs, VirtualEscalation
      <4>3. KnowsRequest(proc'[p], requests[r], d)
        BY <1>5, <2>5, <3>1 DEF KnowsRequest, VirtualEscalation, VerdictPCs
      <4> QED
        BY <1>1, <2>3, <3>1, <4>1, <4>2, <4>3
        DEF Knows, KnowsTicket, KnowsRequest, Unmarked, SavedTerminal
    <3> QED
      BY <1>1, <1>2, <1>4, <2>1, <2>2, <3>1, <3>2, AmidStep DEF MidPCs
  <2> QED
    BY <2>4, <2>5
<1> QED
  BY <1>7, <1>8

\* The last access of a request: r gets its verdict, and its ticket shows it.
LEMMA VerdictStep ==
    ASSUME IInv, SInv, NEW p \in Procs, OthersIdle(p), Finish(p), UNCHANGED tickets,
           NEW t \in Tickets, proc[p].ticket = t,
           NEW r \in Requests, requests[r].status = "pending", requests[r].ticket = t,
           NEW req, requests' = [requests EXCEPT ![r] = req],
           req.ticket = t, req.type = requests[r].type,
           req.status = "approved" /\ req.target = None => req.type = "escalation",
           req.status # "pending", SavedTerminal(tickets[t]),
           IF Waits(req) THEN tickets[t].request_pending /\ tickets[t].previous_status # None
           ELSE Unmarked(tickets[t])
    PROVE  SInv' /\ FinalStep /\ ReopenStep
<1>1. /\ requests'[r] = req
      /\ \A s \in Requests : s # r => requests'[s] = requests[s]
  BY DEF IInv, RequestsOK
<1>2. \A s \in Requests, u \in Tickets : WaitsOn(s, u)' => WaitsOn(s, u)
  BY <1>1 DEF WaitsOn, Waits
<1>3. OneWaits'
  BY <1>2 DEF SInv, OneWaits
<1>4. AbandonedAreEscalations' /\ FinalStep
  BY <1>1 DEF SInv, AbandonedAreEscalations, FinalStep, Verdicts
<1>5. AllAnswered' /\ ReopenStep
  BY DEF SInv, AllAnswered, ReopenStep
<1>6. proc'[p].pc = "idle" /\ \A q \in Procs : q # p => proc'[q] = proc[q]
  BY Finished
<1>7. ASSUME NEW u \in Tickets, u # t PROVE Settled(u)'
  <2>1. Settled(u) /\ ~WaitsOn(r, u) /\ ~(req.ticket = u /\ Waits(req))
    BY <1>7, QuietElsewhere DEF Amid, WaitsOn
  <2> QED
    BY <2>1, OtherTicketKept
<1>8. \A s \in Requests : WaitsOn(s, t)' => s = r /\ Waits(req)
  <2>1. WaitsOn(r, t)
    BY DEF WaitsOn, Waits
  <2>2. ASSUME NEW s \in Requests, WaitsOn(s, t)' PROVE s = r
    BY <1>2, <2>1, <2>2 DEF SInv, OneWaits
  <2> QED
    BY <1>1, <2>2 DEF WaitsOn
<1>9. Waits(req) => WaitsOn(r, t)' /\ requests'[r].type = "escalation"
  BY <1>1 DEF WaitsOn, Waits
<1>10. Settled(t)'
  <2>1. SavedTerminal(tickets[t])'
    BY DEF SavedTerminal
  <2>2. CASE Waits(req)
    BY <1>9, <2>1, <2>2 DEF Settled, Agrees
  <2>3. CASE ~Waits(req)
    BY <1>8, <2>1, <2>3 DEF Settled, Agrees, Unmarked
  <2> QED
    BY <2>2, <2>3
<1> QED
  BY <1>3, <1>4, <1>5, <1>6, <1>7, <1>10, StepTo

LEMMA RequestApproveSerial ==
    ASSUME IInv, SInv, NEW p \in Procs, RequestApprove(p)
    PROVE  SInv' /\ FinalStep /\ ReopenStep
<1>1. /\ OthersIdle(p) /\ proc[p].pc = "request_approve" /\ UNCHANGED tickets
      /\ Knows(proc[p]) /\ Finish(p)
  BY Alone DEF RequestApprove, SInv, AllKnow
<1>2. PICK t \in Tickets, r \in Requests : t = proc[p].ticket /\ r = proc[p].request
  BY <1>1 DEF IInv, ProcsOK, RecordOK, NoTicketPCs, StoredPCs
<1>3. /\ requests[r] \in RequestDocs /\ requests[r].status = "pending"
      /\ requests[r].ticket = t /\ requests[r].type = "escalation"
      /\ SavedTerminal(tickets[t])
      /\ IF proc[p].target # None THEN Unmarked(tickets[t])
         ELSE tickets[t].request_pending /\ tickets[t].previous_status # None
  BY <1>1, <1>2 DEF IInv, RequestsOK, Knows, KnowsTicket, KnowsRequest, PendingPCs
<1>4. PICK req : req = [requests[r] EXCEPT !.status = "approved", !.target = proc[p].target]
  OBVIOUS
<1>5. /\ req.status = "approved" /\ req.target = proc[p].target
      /\ req.ticket = t /\ req.type = "escalation"
  BY <1>3, <1>4 DEF RequestDocs
<1>6. requests' = [requests EXCEPT ![r] = req]
  BY <1>2, <1>3, <1>4 DEF RequestApprove, IInv, RequestsOK, RequestDocs
<1>7. Waits(req) <=> proc[p].target = None
  BY <1>5 DEF Waits
<1> QED
  BY <1>1, <1>2, <1>3, <1>5, <1>6, <1>7, VerdictStep

--------------------------------------------------------------------------------
(* Reviews.                                                                *)

LEMMA ReviewReadSerial ==
    ASSUME Serial, IInv, SInv, NEW p \in Procs, NEW r \in Requests, NEW verdict, NEW target,
           ReviewRead(p, r, verdict, target)
    PROVE  SInv' /\ FinalStep /\ ReopenStep
<1>1. OthersIdle(p) /\ proc[p].pc \notin MidPCs /\ UNCHANGED <<tickets, requests>>
  BY StartAlone DEF ReviewRead, MidPCs, stores
<1>2. PICK goal, pc :
        /\ proc' = [proc EXCEPT ![p] = [Idle EXCEPT !.ticket = requests[r].ticket, !.request = r,
                                                    !.kind = verdict, !.target = goal, !.pc = pc]]
        /\ pc = IF verdict = "approved" THEN "approve_assign"
                ELSE IF requests[r].type = "escalation" THEN "finalize_read" ELSE "finalize_write"
        /\ verdict = "approved" => goal # None
  BY DEF ReviewRead
<1>3. PICK rec : rec = [Idle EXCEPT !.ticket = requests[r].ticket, !.request = r,
                                    !.kind = verdict, !.target = goal, !.pc = pc]
  OBVIOUS
<1>4. proc'[p] = rec /\ \A q \in Procs : q # p => proc'[q] = proc[q]
  BY <1>2, <1>3, Started
<1>5. /\ rec.pc = pc /\ rec.ticket = requests[r].ticket /\ rec.batch = NoBatch
      /\ rec.request = r /\ rec.kind = verdict /\ rec.target = goal
  BY <1>3 DEF Idle
<1>6. requests[r].status = "pending"
  BY DEF ReviewRead, MayReview
<1>7. KnowsBatch(rec)
  BY <1>5, NoBatchKnown
<1>8. KnowsTicket(rec, tickets[rec.ticket])
  BY <1>2, <1>5 DEF KnowsTicket, ReadPCs, RaisePCs
<1>9. KnowsRequest(rec, requests[r], tickets[rec.ticket])
  BY <1>2, <1>5, <1>6 DEF KnowsRequest
<1>10. Knows(proc[p])'
  BY <1>1, <1>4, <1>5, <1>7, <1>8, <1>9, KnowsBy
<1> QED
  BY <1>1, <1>4, <1>10, ReadStep

\* What a review knows: its request waits on its ticket.
LEMMA ReviewKnows ==
    ASSUME IInv, SInv, NEW p \in Procs, proc[p].pc \in VerdictPCs
    PROVE  /\ OthersIdle(p) /\ Knows(proc[p])
           /\ proc[p].ticket \in Tickets /\ proc[p].request \in Requests
           /\ requests[proc[p].request].status = "pending"
           /\ WaitsOn(proc[p].request, proc[p].ticket)
<1>1. OthersIdle(p) /\ Knows(proc[p])
  BY Alone DEF SInv, AllKnow, VerdictPCs
<1> QED
  BY <1>1, ReviewFacts DEF Knows, KnowsRequest, VerdictPCs, PendingPCs, WaitsOn, Waits

LEMMA ApproveAssignSerial ==
    ASSUME IInv, SInv, NEW p \in Procs, ApproveAssign(p)
    PROVE  SInv' /\ FinalStep /\ ReopenStep
<1>1. /\ proc[p].pc = "approve_assign" /\ proc[p].pc \in VerdictPCs
      /\ proc[p].pc \notin MidPCs
  BY DEF ApproveAssign, VerdictPCs, MidPCs
<1>2. PICK t \in Tickets, r \in Requests : t = proc[p].ticket /\ r = proc[p].request
  BY <1>1, ReviewKnows
<1>3. /\ OthersIdle(p) /\ Knows(proc[p]) /\ WaitsOn(r, t)
      /\ requests[r].status = "pending" /\ requests[r].ticket = t
      /\ proc[p].kind = "approved" /\ proc[p].target # None
  BY <1>1, <1>2, ReviewKnows DEF Knows, KnowsRequest, WaitsOn
<1>4. PICK d : d = Assigned(tickets[t], proc[p].target)
  OBVIOUS
<1>5. tickets[t].request_pending /\ tickets[t] \in TicketDocs
  BY <1>1, <1>3, QuietNow DEF AllQuiet, Settled, Agrees, IInv, TicketsOK
<1>6. /\ d.previous_status = tickets[t].previous_status
      /\ d.first_responded = tickets[t].first_responded
      /\ d.status = "assigned"
  BY <1>4, <1>5 DEF Assigned, TicketDocs
<1>7. AnsweredDoc(d) /\ d.status \in OpenStatuses
  BY <1>6 DEF SInv, AllAnswered, AnsweredDoc, OpenStatuses
<1>8. Update(t, d) /\ UNCHANGED requests
  BY <1>2, <1>4 DEF ApproveAssign
<1>9. tickets'[t] = d /\ \A u \in Tickets : u # t => tickets'[u] = tickets[u]
  BY <1>8 DEF Update, IInv, TicketsOK
<1>10. /\ \A q \in Procs : q # p => proc'[q] = proc[q]
       /\ proc'[p].pc = "approve_clear"
       /\ proc'[p].ticket = t /\ proc'[p].request = r /\ proc'[p].kind = proc[p].kind
       /\ proc'[p].target = proc[p].target /\ proc'[p].batch = proc[p].batch
  BY <1>2, GoneTo DEF ApproveAssign
<1>11. Knows(proc[p])'
  <2>1. KnowsBatch(proc[p])'
    BY <1>3, <1>7, <1>9, <1>10 DEF Knows, KnowsBatch, Open
  <2>2. KnowsTicket(proc'[p], d)
    BY <1>10 DEF KnowsTicket, ReadPCs, RaisePCs
  <2>3. KnowsRequest(proc'[p], requests[r], d)
    BY <1>3, <1>10 DEF KnowsRequest
  <2> QED
    BY <1>8, <1>9, <1>10, <2>1, <2>2, <2>3
    DEF Knows, KnowsTicket, KnowsRequest, Unmarked, SavedTerminal
<1> QED
  BY <1>2, <1>3, <1>5, <1>7, <1>8, <1>10, <1>11, AmidStep DEF MidPCs

\* A review whose ticket shows nothing any more stamps its request next.
LEMMA ToStamp ==
    ASSUME IInv, SInv, NEW p \in Procs, proc[p].pc \in VerdictPCs, GoTo(p, "review_stamp"),
           NEW d, Update(proc[p].ticket, d), UNCHANGED requests, Unmarked(d), AnsweredDoc(d),
           Open(proc[p].ticket) => d.status \in OpenStatuses,
           Closed(proc[p].ticket) /\ d.status # tickets[proc[p].ticket].status =>
               /\ d.status \in OpenStatuses
               /\ \/ tickets[proc[p].ticket].request_pending
                  \/ tickets[proc[p].ticket].assignee \in Virtuals \cup {None}
    PROVE  SInv' /\ FinalStep /\ ReopenStep
<1>1. PICK t \in Tickets, r \in Requests : t = proc[p].ticket /\ r = proc[p].request
  BY ReviewKnows
<1>2. /\ OthersIdle(p) /\ Knows(proc[p])
      /\ requests[r].status = "pending" /\ requests[r].ticket = t
      /\ proc[p].kind = "approved" => proc[p].target # None
  BY <1>1, ReviewKnows DEF Knows, KnowsRequest, WaitsOn
<1>3. /\ \A q \in Procs : q # p => proc'[q] = proc[q]
      /\ proc'[p].pc = "review_stamp"
      /\ proc'[p].ticket = t /\ proc'[p].request = r /\ proc'[p].kind = proc[p].kind
      /\ proc'[p].target = proc[p].target /\ proc'[p].batch = proc[p].batch
  BY <1>1, GoneTo
<1>4. tickets'[t] = d /\ \A u \in Tickets : u # t => tickets'[u] = tickets[u]
  BY <1>1 DEF Update, IInv, TicketsOK
<1>5. Knows(proc[p])'
  <2>1. KnowsBatch(proc[p])'
    BY <1>1, <1>2, <1>3, <1>4 DEF Knows, KnowsBatch, Open
  <2>2. KnowsTicket(proc'[p], d)
    BY <1>3 DEF KnowsTicket, ReadPCs, RaisePCs
  <2>3. KnowsRequest(proc'[p], requests[r], d)
    BY <1>2, <1>3 DEF KnowsRequest
  <2> QED
    BY <1>3, <1>4, <2>1, <2>2, <2>3
    DEF Knows, KnowsTicket, KnowsRequest, Unmarked, SavedTerminal
<1> QED
  BY <1>1, <1>2, <1>3, <1>5, AmidStep DEF MidPCs

LEMMA ApproveClearSerial ==
    ASSUME IInv, SInv, NEW p \in Procs, ApproveClear(p)
    PROVE  SInv' /\ FinalStep /\ ReopenStep
<1>1. proc[p].pc \in VerdictPCs /\ GoTo(p, "review_stamp") /\ UNCHANGED requests
  BY DEF ApproveClear, VerdictPCs
<1>2. PICK t \in Tickets : t = proc[p].ticket
  BY <1>1, ReviewKnows
<1>3. PICK d : d = Cleared(tickets[t])
  OBVIOUS
<1>4. tickets[t] \in TicketDocs /\ AnsweredDoc(tickets[t])
  BY DEF IInv, TicketsOK, SInv, AllAnswered
<1>5. /\ Unmarked(d) /\ d.previous_status = None /\ d.status = tickets[t].status
      /\ d.first_responded = tickets[t].first_responded
  BY <1>3, <1>4 DEF Cleared, TicketDocs, Unmarked
<1>6. AnsweredDoc(d)
  BY <1>4, <1>5, ConstantsAssumption DEF AnsweredDoc, TicketStatus, OpenStatuses
<1>7. Update(t, d)
  BY <1>2, <1>3 DEF ApproveClear
<1> QED
  BY <1>1, <1>2, <1>5, <1>6, <1>7, ToStamp DEF Open

LEMMA FinalizeReadSerial ==
    ASSUME IInv, SInv, NEW p \in Procs, FinalizeRead(p)
    PROVE  SInv' /\ FinalStep /\ ReopenStep
<1>1. /\ proc[p].pc = "finalize_read" /\ proc[p].pc \in VerdictPCs
      /\ proc[p].pc \notin MidPCs /\ UNCHANGED <<tickets, requests>>
  BY DEF FinalizeRead, VerdictPCs, MidPCs, stores
<1>2. PICK t \in Tickets, r \in Requests : t = proc[p].ticket /\ r = proc[p].request
  BY <1>1, ReviewKnows
<1>3. /\ OthersIdle(p) /\ Knows(proc[p])
      /\ requests[r].status = "pending" /\ requests[r].ticket = t
      /\ requests[r].type = "escalation" /\ proc[p].kind # "approved"
  BY <1>1, <1>2, ReviewKnows DEF Knows, KnowsRequest, WaitsOn
<1>4. /\ \A q \in Procs : q # p => proc'[q] = proc[q]
      /\ proc'[p].pc = "finalize_write"
      /\ proc'[p].ticket = t /\ proc'[p].request = r /\ proc'[p].kind = proc[p].kind
      /\ proc'[p].was = tickets[t].previous_status /\ proc'[p].batch = proc[p].batch
  BY <1>2 DEF FinalizeRead, IInv, ProcsOK, ProcRecords
<1>5. KnowsBatch(proc'[p])
  BY <1>3, <1>4 DEF Knows, KnowsBatch
<1>6. KnowsTicket(proc'[p], tickets[t])
  BY <1>4 DEF KnowsTicket, ReadPCs, RaisePCs
<1>7. KnowsRequest(proc'[p], requests[r], tickets[t])
  BY <1>3, <1>4 DEF KnowsRequest
<1>8. Knows(proc[p])'
  BY <1>1, <1>4, <1>5, <1>6, <1>7, KnowsBy
<1> QED
  BY <1>1, <1>3, <1>4, <1>8, ReadStep

\* A terminal status is restored only to a ticket that still has it.
LEMMA FinalizeWriteSerial ==
    ASSUME IInv, SInv, NEW p \in Procs, FinalizeWrite(p)
    PROVE  SInv' /\ FinalStep /\ ReopenStep
<1>1. /\ proc[p].pc = "finalize_write" /\ proc[p].pc \in VerdictPCs
      /\ proc[p].pc \notin MidPCs /\ UNCHANGED requests /\ GoTo(p, "review_stamp")
  BY DEF FinalizeWrite, VerdictPCs, MidPCs
<1>2. PICK t \in Tickets, r \in Requests : t = proc[p].ticket /\ r = proc[p].request
  BY <1>1, ReviewKnows
<1>3. /\ OthersIdle(p) /\ WaitsOn(r, t)
      /\ requests[r].type = "escalation" => proc[p].was = tickets[t].previous_status
  BY <1>1, <1>2, ReviewKnows DEF Knows, KnowsRequest
<1>4. /\ tickets[t] \in TicketDocs /\ Settled(t) /\ AnsweredDoc(tickets[t])
      /\ tickets[t].previous_status \in Restored \cup {None}
  BY <1>1, <1>3, QuietNow DEF AllQuiet, IInv, TicketsOK, DocOK, SInv, AllAnswered
<1>5. /\ tickets[t].request_pending
      /\ tickets[t].previous_status # None <=> requests[r].type = "escalation"
  <2>1. \A s \in Requests : WaitsOn(s, t) => s = r
    BY <1>3 DEF SInv, OneWaits
  <2> QED
    BY <1>3, <1>4, <2>1 DEF Settled, Agrees
<1>6. PICK d : d = Finalized(tickets[t], requests[r].type, proc[p].was)
  OBVIOUS
<1>7. Update(t, d)
  BY <1>2, <1>6 DEF FinalizeWrite
<1>8. CASE requests[r].type = "escalation"
  <2>1. PICK c : c = Cleared(tickets[t])
    OBVIOUS
  <2>2. /\ c \in TicketDocs /\ Unmarked(c) /\ c.first_responded = tickets[t].first_responded
    BY <1>4, <2>1 DEF Cleared, TicketDocs, Unmarked
  <2>3. d = [c EXCEPT !.status = proc[p].was]
    BY <1>3, <1>5, <1>6, <1>8, <2>1 DEF Finalized
  <2>4. /\ Unmarked(d) /\ d.previous_status = None
        /\ d.first_responded = tickets[t].first_responded
        /\ d.status = tickets[t].previous_status
    BY <1>3, <1>8, <2>2, <2>3 DEF TicketDocs, Unmarked
  <2>5. AnsweredDoc(d)
    BY <1>4, <2>4, ConstantsAssumption DEF AnsweredDoc, TicketStatus, OpenStatuses
  <2>6. d.status \in OpenStatuses \/ d.status = tickets[t].status
    BY <1>4, <1>5, <1>8, <2>4
    DEF Settled, SavedTerminal, Restored, OpenStatuses, TerminalStatuses
  <2> QED
    BY <1>1, <1>2, <1>5, <1>7, <2>4, <2>5, <2>6, ToStamp DEF Open
<1>9. CASE requests[r].type # "escalation"
  <2>1. /\ Unmarked(d) /\ d.previous_status = None /\ d.status = tickets[t].status
        /\ d.first_responded = tickets[t].first_responded
    BY <1>4, <1>5, <1>6, <1>9 DEF Finalized, TicketDocs, Unmarked
  <2>2. AnsweredDoc(d)
    BY <1>4, <2>1, ConstantsAssumption DEF AnsweredDoc, TicketStatus, OpenStatuses
  <2> QED
    BY <1>1, <1>2, <1>7, <2>1, <2>2, ToStamp DEF Open
<1> QED
  BY <1>8, <1>9

LEMMA ReviewStampSerial ==
    ASSUME IInv, SInv, NEW p \in Procs, ReviewStamp(p)
    PROVE  SInv' /\ FinalStep /\ ReopenStep
<1>1. /\ proc[p].pc = "review_stamp" /\ proc[p].pc \in VerdictPCs
      /\ UNCHANGED tickets /\ Finish(p)
  BY DEF ReviewStamp, VerdictPCs
<1>2. PICK t \in Tickets, r \in Requests : t = proc[p].ticket /\ r = proc[p].request
  BY <1>1, ReviewKnows
<1>3. /\ OthersIdle(p) /\ Unmarked(tickets[t])
      /\ requests[r].status = "pending" /\ requests[r].ticket = t
      /\ proc[p].kind = "approved" => proc[p].target # None
      /\ proc[p].kind \in Verdicts /\ requests[r] \in RequestDocs
  BY <1>1, <1>2, ReviewKnows, ReviewFacts
  DEF Knows, KnowsTicket, KnowsRequest, WaitsOn, IInv, RequestsOK
<1>4. PICK req : req = [requests[r] EXCEPT
                          !.status = proc[p].kind,
                          !.target = IF proc[p].kind = "approved" THEN proc[p].target ELSE @]
  OBVIOUS
<1>5. /\ req.status = proc[p].kind /\ req.ticket = t /\ req.type = requests[r].type
      /\ proc[p].kind = "approved" => req.target = proc[p].target
  BY <1>3, <1>4 DEF RequestDocs
<1>6. requests' = [requests EXCEPT ![r] = req]
  BY <1>2, <1>3, <1>4 DEF ReviewStamp, IInv, RequestsOK, RequestDocs
<1>7. ~Waits(req) /\ req.status # "pending"
  BY <1>3, <1>5 DEF Waits, Verdicts
<1>8. SavedTerminal(tickets[t])
  BY <1>3, ConstantsAssumption DEF Unmarked, SavedTerminal, TicketStatus
<1> QED
  BY <1>1, <1>2, <1>3, <1>5, <1>6, <1>7, <1>8, VerdictStep DEF Waits

--------------------------------------------------------------------------------
(* The theorems.                                                           *)

\* Steps that change neither documents nor handlers.
LEMMA NothingMoves ==
    ASSUME SInv, UNCHANGED <<tickets, requests, proc>>
    PROVE  SInv' /\ FinalStep /\ ReopenStep
<1>1. OneAtATime' /\ OneWaits' /\ AbandonedAreEscalations' /\ AllAnswered'
  BY DEF SInv, OneAtATime, OneWaits, AbandonedAreEscalations, AllAnswered, WaitsOn
<1>2. AllSettled'
  BY DEF SInv, AllSettled, Settled, Agrees, WaitsOn, SavedTerminal, Amid
<1>3. AllKnow'
  BY DEF SInv, AllKnow, Knows, KnowsBatch, Open, KnowsTicket, KnowsRequest, SavedTerminal,
         Unmarked
<1> QED
  BY <1>1, <1>2, <1>3 DEF SInv, FinalStep, ReopenStep

LEMMA SerialStep ==
    ASSUME Serial, IInv, SInv, [Next]_vars
    PROVE  SInv' /\ FinalStep /\ ReopenStep
<1>1. CASE UNCHANGED vars
  BY <1>1, NothingMoves DEF vars
<1>2. ASSUME NEW p \in Procs, Continue(p)
      PROVE  SInv' /\ FinalStep /\ ReopenStep
  BY <1>2, EmitCreatedSerial, AssignChooseSerial, AssignSetSerial, SweepScanSerial,
     SweepNextSerial, SweepMoveSerial, RespondWriteSerial, CloseCheckSerial, CloseWriteSerial,
     RequestInsertSerial, RequestPickSerial, RequestMarkSerial, RequestApproveSerial,
     ApproveAssignSerial, ApproveClearSerial, FinalizeReadSerial, FinalizeWriteSerial,
     ReviewStampSerial
  DEF Continue
<1>3. ASSUME NEW p \in Procs PROVE ~Crash(p)
  BY ConstantsAssumption DEF Serial, IInv, EnvironmentOK, Crash
<1>4. ASSUME NEW p \in Handlers, Arrive(p)
      PROVE  SInv' /\ FinalStep /\ ReopenStep
  <2>1. p \in Procs
    BY DEF Procs
  <2> QED
    BY <1>4, <2>1, CreateTicketSerial, RespondReadSerial, CloseReadSerial, RequestReadSerial,
       ReviewReadSerial
    DEF Arrive
<1>5. Consumers \subseteq Procs /\ Sweepers \subseteq Procs
  BY DEF Procs
<1>6. ASSUME NEW u \in Users, GoOnline(u) \/ GoOffline(u)
      PROVE  SInv' /\ FinalStep /\ ReopenStep
  BY <1>6, NothingMoves DEF GoOnline, GoOffline
<1> QED
  BY <1>1, <1>2, <1>3, <1>4, <1>5, <1>6, DeliverCreatedSerial, SweepStartSerial DEF Next

LEMMA SerialInit == Init => SInv
<1> SUFFICES ASSUME Init PROVE SInv
  OBVIOUS
<1>1. /\ \A p \in Procs : proc[p].pc = "idle"
      /\ \A r \in Requests : requests[r].status = "none"
      /\ \A t \in Tickets : /\ tickets[t].status = "none"
                            /\ Unmarked(tickets[t]) /\ tickets[t].previous_status = None
  BY DEF Init, Idle, NoRequest, NoTicket, Unmarked
<1>2. OneAtATime /\ AllKnow
  BY <1>1 DEF OneAtATime, AllKnow
<1>3. OneWaits /\ AbandonedAreEscalations
  BY <1>1 DEF OneWaits, AbandonedAreEscalations, WaitsOn, Waits
<1>4. AllSettled
  BY <1>1, ConstantsAssumption
  DEF AllSettled, Settled, Agrees, WaitsOn, Waits, SavedTerminal, Unmarked, TicketStatus
<1>5. AllAnswered
  BY <1>1, ConstantsAssumption DEF AllAnswered, AnsweredDoc, TicketStatus, OpenStatuses
<1> QED
  BY <1>2, <1>3, <1>4, <1>5 DEF SInv

\* What is known between and within handlers, when they do not overlap.
THEOREM SerialInvariant == ASSUME Serial PROVE Spec => [](IInv /\ SInv)
<1>1. IInv /\ SInv /\ [Next]_vars => (IInv /\ SInv)'
  BY StepKept, SerialStep
<1>2. Init => IInv /\ SInv
  BY InitKept, SerialInit
<1> QED
  BY <1>1, <1>2, PTL DEF Spec

\* A ticket has one pending request at most, if handlers do not overlap.
THEOREM OneRequestAtATime == ASSUME Serial PROVE Spec => []OnePendingRequest
<1>1. SInv => OnePendingRequest
  BY DEF SInv, OneWaits, WaitsOn, Waits, OnePendingRequest, PendingOn
<1> QED
  BY SerialInvariant, <1>1, PTL

\* Between handlers every ticket is settled.
LEMMA SettledBetween == ASSUME SInv, InFlight = {} PROVE AllQuiet
BY DEF SInv, AllSettled, AllQuiet, InFlight, Amid, MidPCs

\* request_pending tells whether a request waits.
THEOREM FlagTellsOfRequests == ASSUME Serial PROVE Spec => []PendingFlagAgrees
<1>1. SInv => PendingFlagAgrees
  <2> SUFFICES ASSUME SInv, InFlight = {}, NEW t \in Tickets
               PROVE  tickets[t].request_pending <=> PendingOn(t) \cup AbandonedOn(t) # {}
    BY DEF PendingFlagAgrees
  <2>1. tickets[t].request_pending <=> \E r \in Requests : WaitsOn(r, t)
    BY SettledBetween DEF AllQuiet, Settled, Agrees
  <2>2. \A r \in Requests : WaitsOn(r, t) <=> r \in PendingOn(t) \cup AbandonedOn(t)
    BY DEF WaitsOn, Waits, PendingOn, AbandonedOn
  <2>3. PendingOn(t) \cup AbandonedOn(t) \subseteq Requests
    BY DEF PendingOn, AbandonedOn
  <2> QED
    BY <2>1, <2>2, <2>3
<1> QED
  BY SerialInvariant, <1>1, PTL

\* A status is saved exactly while an escalation waits.
THEOREM SavedForEscalations == ASSUME Serial PROVE Spec => []SavedStatusAgrees
<1>1. SInv => SavedStatusAgrees
  <2> SUFFICES ASSUME SInv, InFlight = {}, NEW t \in Tickets
               PROVE  tickets[t].previous_status # None
                        <=> AbandonedOn(t)
                              \cup {r \in PendingOn(t) : requests[r].type = "escalation"} # {}
    BY DEF SavedStatusAgrees
  <2>1. tickets[t].previous_status # None
          <=> \E r \in Requests : WaitsOn(r, t) /\ requests[r].type = "escalation"
    BY SettledBetween DEF AllQuiet, Settled, Agrees
  <2>2. \A r \in Requests : WaitsOn(r, t) /\ requests[r].type = "escalation"
          <=> r \in AbandonedOn(t) \cup {s \in PendingOn(t) : requests[s].type = "escalation"}
    BY DEF WaitsOn, Waits, PendingOn, AbandonedOn, SInv, AbandonedAreEscalations
  <2>3. AbandonedOn(t) \cup {s \in PendingOn(t) : requests[s].type = "escalation"}
          \subseteq Requests
    BY DEF PendingOn, AbandonedOn
  <2> QED
    BY <2>1, <2>2, <2>3
<1> QED
  BY SerialInvariant, <1>1, PTL

\* in_progress means that a technician has answered.
THEOREM InProgressMeansAnswered == ASSUME Serial PROVE Spec => []InProgressAnswered
<1>1. SInv => InProgressAnswered
  BY DEF SInv, AllAnswered, AnsweredDoc, InProgressAnswered
<1> QED
  BY SerialInvariant, <1>1, PTL

\* A reviewed request keeps its verdict and its target.
THEOREM VerdictsAreFinal == ASSUME Serial PROVE Spec => ReviewedIsFinal
<1>1. IInv /\ SInv /\ [Next]_vars =>
        [\A r \in Requests : requests[r].status \in Verdicts
                                => requests[r]' = requests[r]]_vars
  BY SerialStep DEF FinalStep
<1> QED
  BY SerialInvariant, <1>1, PTL DEF Spec, ReviewedIsFinal

\* What opens a closed ticket again.
THEOREM ReopenedOnlyByThese == ASSUME Serial PROVE Spec => ReopenedOnlyBy
<1>1. IInv /\ SInv /\ [Next]_vars =>
        [\A t \in Tickets : Closed(t) /\ tickets[t]'.status # tickets[t].status =>
          /\ tickets[t]'.status \in OpenStatuses
          /\ \/ tickets[t].request_pending
             \/ tickets[t].assignee \in Virtuals \cup {None}]_vars
  BY SerialStep DEF ReopenStep
<1> QED
  BY SerialInvariant, <1>1, PTL DEF Spec, ReopenedOnlyBy
================================================================================
