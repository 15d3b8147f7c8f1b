------------------------- MODULE TicketLifecycleProofs -------------------------
(***************************************************************************)
(* For every number of tickets, requests, users and handlers in flight: a   *)
(* ticket never goes back to new, a new ticket belongs to nobody and a      *)
(* resolved one is stamped, although no write is conditional on what its    *)
(* handler read.                                                           *)
(*                                                                         *)
(* The argument: what a handler remembers of a ticket it may later write    *)
(* back (the status saved by a request, the one restored by a review) was   *)
(* read from an assigned ticket, so it is not new; a ticket only grows      *)
(* (it stays in the collection, leaves new for good, keeps its resolution   *)
(* time), so what was true of the copy is true of the ticket when the       *)
(* handler writes, however late.                                           *)
(***************************************************************************)
EXTENDS TicketLifecycle, TLAPS

\* A status a ticket can have once it has left new.
Restored == {"assigned", "in_progress", "resolved", "rejected"}

DocOK(d) ==
    /\ d.status \in Restored \cup {"none", "new"}
    /\ d.status = "new" => d.assignee = None
    /\ d.previous_status \in Restored \cup {None}
    /\ d.status = "resolved" \/ d.previous_status = "resolved" => d.resolved_at

Grows(d, e) ==
    /\ d.status # "none" => e.status # "none"
    /\ d.status \notin {"none", "new"} => e.status # "new"
    /\ d.status # "none" /\ d.resolved_at => e.resolved_at

\* e is what a handler makes of d.
Kept(d, e) == e \in TicketDocs /\ DocOK(e) /\ Grows(d, e)

TicketsOK ==
    /\ tickets \in [Tickets -> TicketDocs]
    /\ \A t \in Tickets : DocOK(tickets[t])

\* Every request is of a ticket in the collection.
RequestsOK ==
    /\ requests \in [Requests -> RequestDocs]
    /\ \A r \in Requests : requests[r].status # "none" =>
         /\ requests[r].ticket \in Tickets
         /\ tickets[requests[r].ticket].status # "none"

NoTicketPCs == {"idle", "sweep_scan", "sweep_next"}
ClosePCs    == {"close_check", "close_write"}
RaisePCs    == {"request_insert", "request_pick", "request_mark"}
StoredPCs   == {"request_pick", "request_mark", "request_approve", "approve_assign",
                "approve_clear", "finalize_read", "finalize_write", "review_stamp"}
VerdictPCs  == {"approve_assign", "approve_clear", "finalize_read", "finalize_write",
                "review_stamp"}

\* What a handler remembers is still true of the stores.
RecordOK(rec) ==
    /\ rec.pc \notin NoTicketPCs => rec.ticket \in Tickets
    /\ rec.pc \in ClosePCs => rec.kind \in {"resolved", "rejected"}
    /\ rec.pc \in RaisePCs => rec.was \in Restored /\ rec.kind \in RequestType
    /\ rec.pc \in VerdictPCs => rec.kind \in Verdicts
    /\ rec.pc = "finalize_write" => rec.was \in Restored \cup {None}
    /\ rec.pc \in RaisePCs \cup StoredPCs =>
         /\ rec.request \in Requests
         /\ tickets[rec.ticket].status # "none"
    /\ rec.pc \in StoredPCs => requests[rec.request].status # "none"
    /\ rec.pc \in RaisePCs \cup {"finalize_write"} /\ rec.was = "resolved"
         => tickets[rec.ticket].resolved_at

ProcsOK ==
    /\ proc \in [Procs -> ProcRecords]
    /\ \A p \in Procs : RecordOK(proc[p])
    /\ \A p \in Consumers : proc[p].pc \in {"idle", "assign_choose", "assign_set"}

EnvironmentOK ==
    /\ created \subseteq Tickets
    /\ online \subseteq Users
    /\ crashes \in 0..MaxCrashes

IInv == TicketsOK /\ RequestsOK /\ ProcsOK /\ EnvironmentOK

\* Both collections only grow.
StoresGrow ==
    /\ \A t \in Tickets : Grows(tickets[t], tickets[t]')
    /\ \A r \in Requests : requests[r].status # "none" => requests[r]'.status # "none"

--------------------------------------------------------------------------------
(* Documents.                                                              *)

\* set_assignee keeps a document well formed.
LEMMA AssignedKept ==
    ASSUME NEW d \in TicketDocs, DocOK(d), NEW u \in Users \cup {None}
    PROVE  Kept(d, Assigned(d, u))
BY ConstantsAssumption DEF Kept, Assigned, DocOK, Grows, TicketDocs, TicketStatus, OpenStatuses, TerminalStatuses, Restored

\* unassign_ticket keeps a document well formed.
LEMMA UnassignedKept ==
    ASSUME NEW d \in TicketDocs, DocOK(d)
    PROVE  Kept(d, Unassigned(d))
BY ConstantsAssumption DEF Kept, Unassigned, DocOK, Grows, TicketDocs, TicketStatus, OpenStatuses, TerminalStatuses, Restored

\* record_first_response keeps a document well formed, whatever status it read.
LEMMA AnsweredKept ==
    ASSUME NEW d \in TicketDocs, DocOK(d), NEW was
    PROVE  Kept(d, Answered(d, was))
BY ConstantsAssumption DEF Kept, Answered, DocOK, Grows, TicketDocs, TicketStatus, OpenStatuses, TerminalStatuses, Restored

\* Closing keeps a document well formed.
LEMMA ClosedAsKept ==
    ASSUME NEW d \in TicketDocs, DocOK(d), NEW s \in {"resolved", "rejected"}
    PROVE  Kept(d, ClosedAs(d, s))
BY ConstantsAssumption DEF Kept, ClosedAs, DocOK, Grows, TicketDocs, TicketStatus, OpenStatuses, TerminalStatuses, Restored

\* A human taking over from a virtual technician keeps a document well formed.
LEMMA TakenOverKept ==
    ASSUME NEW d \in TicketDocs, DocOK(d), NEW u \in Users \cup {None}
    PROVE  Kept(d, TakenOver(d, u))
BY ConstantsAssumption DEF Kept, TakenOver, DocOK, Grows, TicketDocs, TicketStatus, OpenStatuses, TerminalStatuses, Restored

\* Raising a request keeps a document well formed if the status it saves is one
\* that may be restored.
LEMMA MarkedKept ==
    ASSUME NEW d \in TicketDocs, DocOK(d), NEW type, NEW was \in Restored,
           was = "resolved" => d.resolved_at
    PROVE  Kept(d, Marked(d, type, was))
BY ConstantsAssumption DEF Kept, Marked, DocOK, Grows, TicketDocs, TicketStatus, OpenStatuses, TerminalStatuses, Restored

\* The end of an approval keeps a document well formed.
LEMMA ClearedKept ==
    ASSUME NEW d \in TicketDocs, DocOK(d)
    PROVE  Kept(d, Cleared(d))
BY ConstantsAssumption DEF Kept, Cleared, DocOK, Grows, TicketDocs, TicketStatus, OpenStatuses, TerminalStatuses, Restored

\* A review that restores keeps a document well formed.
LEMMA FinalizedKept ==
    ASSUME NEW d \in TicketDocs, DocOK(d), NEW type, NEW was \in Restored \cup {None},
           was = "resolved" => d.resolved_at
    PROVE  Kept(d, Finalized(d, type, was))
<1> DEFINE s == IF was # None THEN was ELSE "in_progress"
           c == Cleared(d)
           e == [c EXCEPT !.status = s]
<1>1. CASE type = "escalation"
  <2>1. Finalized(d, type, was) = e
    BY <1>1 DEF Finalized
  <2>2. c \in TicketDocs /\ c.resolved_at = d.resolved_at /\ c.previous_status = None
    BY DEF Cleared, TicketDocs
  <2>3. s \in Restored /\ (s = "resolved" => d.resolved_at)
    BY DEF Restored
  <2> HIDE DEF s, c
  <2>4. e \in TicketDocs
    BY <2>2, <2>3 DEF TicketDocs, TicketStatus, OpenStatuses, TerminalStatuses, Restored
  <2>5. /\ e.status = s
        /\ e.previous_status = None
        /\ e.resolved_at = d.resolved_at
    BY <2>2 DEF TicketDocs
  <2>6. DocOK(e) /\ Grows(d, e)
    BY <2>3, <2>5, ConstantsAssumption
    DEF DocOK, Grows, Restored, TicketStatus, OpenStatuses, TerminalStatuses
  <2> QED
    BY <2>1, <2>4, <2>6 DEF Kept
<1>2. CASE type # "escalation"
  BY <1>2 DEF Kept, Finalized, DocOK, Grows, TicketDocs
<1> QED
  BY <1>1, <1>2

--------------------------------------------------------------------------------
(* Steps: how the parts of the invariant carry over.                       *)

\* One document replaced by what a handler makes of it.
LEMMA UpdateKept ==
    ASSUME TicketsOK, NEW t \in Tickets, NEW d, Kept(tickets[t], d), Update(t, d),
           UNCHANGED requests
    PROVE  TicketsOK' /\ StoresGrow
BY DEF TicketsOK, Kept, Update, StoresGrow, Grows

\* Steps that leave the tickets alone.
LEMMA SameTickets ==
    ASSUME TicketsOK, UNCHANGED tickets
    PROVE  TicketsOK' /\ \A t \in Tickets : Grows(tickets[t], tickets[t]')
BY DEF TicketsOK, Grows

LEMMA SameRequests ==
    ASSUME RequestsOK, StoresGrow, UNCHANGED requests
    PROVE  RequestsOK'
BY DEF RequestsOK, StoresGrow, Grows

\* One handler's record replaced by another that fits the new stores.
LEMMA RecordKept ==
    ASSUME ProcsOK, StoresGrow, NEW p \in Procs, NEW rec \in ProcRecords,
           proc' = [proc EXCEPT ![p] = rec], RecordOK(rec)',
           p \in Consumers => rec.pc \in {"idle", "assign_choose", "assign_set"}
    PROVE  ProcsOK'
<1>1. ASSUME NEW q \in Procs, q # p
      PROVE  RecordOK(proc[q])'
  <2>1. RecordOK(proc[q]) /\ proc[q]' = proc[q]
    BY <1>1 DEF ProcsOK
  <2>2. \A t \in Tickets : Grows(tickets[t], tickets[t]')
    BY DEF StoresGrow
  <2>3. \A r \in Requests : requests[r].status # "none" => requests[r]'.status # "none"
    BY DEF StoresGrow
  <2> QED
    BY <2>1, <2>2, <2>3 DEF RecordOK, Grows, NoTicketPCs, RaisePCs, StoredPCs
<1>2. RecordOK(proc[p])'
  BY DEF ProcsOK
<1> QED
  BY <1>1, <1>2 DEF ProcsOK, Procs

\* A handler that ends leaves an empty record.
LEMMA IdleOK ==
    Idle \in ProcRecords /\ RecordOK(Idle)' /\ RecordOK(Idle)
BY ConstantsAssumption DEF Idle, NoBatch, ProcRecords, PCs, RecordOK, NoTicketPCs, ClosePCs, RaisePCs, StoredPCs, VerdictPCs

LEMMA FinishKept ==
    ASSUME ProcsOK, StoresGrow, NEW p \in Procs, Finish(p)
    PROVE  ProcsOK'
BY RecordKept, IdleOK DEF Finish, Idle

--------------------------------------------------------------------------------
(* The actions.                                                            *)

\* Steps of a handler that only read: the stores stay, the record moves on.
LEMMA ReadKept ==
    ASSUME IInv, UNCHANGED stores, NEW p \in Procs, NEW rec \in ProcRecords,
           proc' = [proc EXCEPT ![p] = rec], RecordOK(rec),
           p \in Consumers => rec.pc \in {"idle", "assign_choose", "assign_set"}
    PROVE  IInv' /\ StoresGrow
<1>1. TicketsOK' /\ StoresGrow
  BY SameTickets DEF IInv, stores, StoresGrow
<1>2. RequestsOK' /\ EnvironmentOK'
  BY <1>1, SameRequests DEF IInv, stores, EnvironmentOK
<1>3. RecordOK(rec)'
  BY DEF stores, RecordOK
<1>4. ProcsOK'
  BY <1>1, <1>3, RecordKept DEF IInv
<1> QED
  BY <1>1, <1>2, <1>4 DEF IInv

\* Steps of a handler that replace one ticket document.
LEMMA WriteKept ==
    ASSUME IInv, NEW p \in Procs, NEW t \in Tickets, NEW d,
           Update(t, d), Kept(tickets[t], d), UNCHANGED <<requests, created, online, crashes>>,
           NEW rec \in ProcRecords, proc' = [proc EXCEPT ![p] = rec],
           StoresGrow => RecordOK(rec)',
           p \in Consumers => rec.pc \in {"idle", "assign_choose", "assign_set"}
    PROVE  IInv' /\ StoresGrow
<1>1. TicketsOK' /\ StoresGrow
  BY UpdateKept DEF IInv
<1>2. RequestsOK' /\ EnvironmentOK'
  BY <1>1, SameRequests DEF IInv, EnvironmentOK
<1>3. ProcsOK'
  BY <1>1, RecordKept DEF IInv
<1> QED
  BY <1>1, <1>2, <1>3 DEF IInv

\* A record that has moved to another label, when the label asks no more of it.
LEMMA GoToRecord ==
    ASSUME ProcsOK, NEW p \in Procs, NEW pc \in PCs, GoTo(p, pc)
    PROVE  /\ [proc[p] EXCEPT !.pc = pc] \in ProcRecords
           /\ proc' = [proc EXCEPT ![p] = [proc[p] EXCEPT !.pc = pc]]
BY DEF ProcsOK, GoTo, ProcRecords

\* Finish, as the lemmas above take it.
LEMMA FinishRecord ==
    ASSUME NEW p \in Procs, Finish(p)
    PROVE  /\ Idle \in ProcRecords /\ Idle.pc = "idle"
           /\ proc' = [proc EXCEPT ![p] = Idle]
           /\ RecordOK(Idle) /\ RecordOK(Idle)'
BY IdleOK DEF Finish, Idle

\* create_ticket: the id was not in the collection, so nothing refers to it.
LEMMA CreateTicketStep ==
    ASSUME IInv, NEW p \in Handlers, NEW t \in Tickets, CreateTicket(p, t)
    PROVE  IInv' /\ StoresGrow
<1> DEFINE rec == [Idle EXCEPT !.pc = "create_emit", !.ticket = t]
<1>1. p \in Procs /\ p \notin Consumers
  BY ConstantsAssumption DEF Procs
<1>2. Kept(tickets[t], NewTicket)
  <2>1. /\ NewTicket.status = "new"
        /\ NewTicket.assignee = None
        /\ NewTicket.previous_status = None
    BY DEF NewTicket, NoTicket
  <2>2. NewTicket \in TicketDocs
    BY DEF NewTicket, NoTicket, TicketDocs, TicketStatus, OpenStatuses
  <2>3. DocOK(NewTicket)
    BY <2>1, ConstantsAssumption DEF DocOK, TicketStatus, TerminalStatuses
  <2>4. Grows(tickets[t], NewTicket)
    BY <2>1 DEF CreateTicket, Exists, Grows
  <2> QED
    BY <2>2, <2>3, <2>4 DEF Kept
<1>3. rec \in ProcRecords /\ rec.pc = "create_emit" /\ rec.ticket = t
  BY IdleOK DEF Idle, ProcRecords, PCs
<1>4. RecordOK(rec)'
  BY <1>3 DEF RecordOK, ClosePCs, RaisePCs, StoredPCs, VerdictPCs
<1> QED
  BY <1>1, <1>2, <1>3, <1>4, WriteKept DEF CreateTicket

\* The event of a new ticket names a ticket.
LEMMA EmitCreatedStep ==
    ASSUME IInv, NEW p \in Procs, EmitCreated(p)
    PROVE  IInv' /\ StoresGrow
<1>1. proc[p].ticket \in Tickets
  BY DEF EmitCreated, IInv, ProcsOK, RecordOK, NoTicketPCs
<1>2. TicketsOK' /\ StoresGrow
  BY SameTickets DEF IInv, EmitCreated, StoresGrow
<1>3. RequestsOK' /\ EnvironmentOK'
  BY <1>1, <1>2, SameRequests DEF IInv, EmitCreated, Published, EnvironmentOK
<1>4. ProcsOK'
  BY <1>2, FinishKept DEF IInv, EmitCreated
<1> QED
  BY <1>2, <1>3, <1>4 DEF IInv

\* The delivery of a TICKET_CREATED.
LEMMA DeliverCreatedStep ==
    ASSUME IInv, NEW p \in Consumers, NEW t \in Tickets, DeliverCreated(p, t)
    PROVE  IInv' /\ StoresGrow
<1> DEFINE rec == [Idle EXCEPT !.pc = "assign_choose", !.ticket = t]
<1>1. p \in Procs
  BY DEF Procs
<1>2. TicketsOK' /\ StoresGrow
  BY SameTickets DEF IInv, DeliverCreated, StoresGrow
<1>3. RequestsOK' /\ EnvironmentOK'
  BY <1>2, SameRequests DEF IInv, DeliverCreated, EnvironmentOK
<1>4. rec \in ProcRecords /\ rec.pc = "assign_choose" /\ rec.ticket = t
  BY IdleOK DEF Idle, ProcRecords, PCs
<1>5. RecordOK(rec)'
  BY <1>4 DEF RecordOK, ClosePCs, RaisePCs, StoredPCs, VerdictPCs
<1>6. CASE proc' = proc
  BY <1>2, <1>3, <1>6 DEF IInv, ProcsOK, RecordOK, StoresGrow, DeliverCreated
<1>7. CASE proc' = [proc EXCEPT ![p] = rec]
  BY <1>1, <1>2, <1>3, <1>4, <1>5, <1>7, RecordKept DEF IInv
<1> QED
  BY <1>6, <1>7 DEF DeliverCreated

\* The choice of a technician changes the handler's record only.
LEMMA AssignChooseStep ==
    ASSUME IInv, NEW p \in Procs, AssignChoose(p)
    PROVE  IInv' /\ StoresGrow
<1>1. CASE Finish(p)
  BY <1>1, FinishRecord, ReadKept DEF AssignChoose
<1>2. ASSUME NEW u \in Available(Technicians, {}),
             proc' = [proc EXCEPT ![p].pc = "assign_set", ![p].target = u]
      PROVE  IInv' /\ StoresGrow
  <2> DEFINE rec == [proc[p] EXCEPT !.pc = "assign_set", !.target = u]
  <2>1. u \in Users /\ proc[p] \in ProcRecords /\ proc[p].ticket \in Tickets
    BY DEF Available, IInv, EnvironmentOK, AssignChoose, ProcsOK, RecordOK, NoTicketPCs
  <2>2. rec \in ProcRecords /\ rec.pc = "assign_set" /\ rec.ticket \in Tickets
    BY <2>1 DEF ProcRecords, PCs
  <2>3. proc' = [proc EXCEPT ![p] = rec]
    BY <1>2, <2>1 DEF IInv, ProcsOK, ProcRecords
  <2>4. RecordOK(rec)
    BY <2>2 DEF RecordOK, ClosePCs, RaisePCs, StoredPCs, VerdictPCs
  <2> QED
    BY <2>2, <2>3, <2>4, ReadKept DEF AssignChoose
<1> QED
  BY <1>1, <1>2 DEF AssignChoose

\* The automatic assignment's write.
LEMMA AssignSetStep ==
    ASSUME IInv, NEW p \in Procs, AssignSet(p)
    PROVE  IInv' /\ StoresGrow
<1>1. /\ proc[p].ticket \in Tickets /\ proc[p].target \in Users \cup {None}
      /\ tickets[proc[p].ticket] \in TicketDocs /\ DocOK(tickets[proc[p].ticket])
  BY DEF AssignSet, IInv, ProcsOK, RecordOK, NoTicketPCs, ProcRecords, TicketsOK
<1>2. Kept(tickets[proc[p].ticket], Assigned(tickets[proc[p].ticket], proc[p].target))
  BY <1>1, AssignedKept
<1> QED
  BY <1>1, <1>2, FinishRecord, WriteKept DEF AssignSet

--------------------------------------------------------------------------------
(* The sweep.                                                              *)

LEMMA SweepStartStep ==
    ASSUME IInv, NEW p \in Sweepers, SweepStart(p)
    PROVE  IInv' /\ StoresGrow
<1> DEFINE rec == [Idle EXCEPT !.pc = "sweep_scan", !.seen = online]
<1>1. p \in Procs /\ p \notin Consumers
  BY ConstantsAssumption DEF Procs
<1>2. rec \in ProcRecords /\ rec.pc = "sweep_scan"
  BY IdleOK DEF Idle, ProcRecords, PCs, IInv, EnvironmentOK
<1>3. RecordOK(rec)
  BY <1>2 DEF RecordOK, NoTicketPCs, ClosePCs, RaisePCs, StoredPCs, VerdictPCs
<1> QED
  BY <1>1, <1>2, <1>3, ReadKept DEF SweepStart

\* A record at the head of the sweep's loop.
LEMMA SweepRecord ==
    ASSUME NEW batch \in [Tickets -> Users \cup {None}]
    PROVE  LET rec == [Idle EXCEPT !.pc = "sweep_next", !.batch = batch]
           IN  rec \in ProcRecords /\ rec.pc = "sweep_next" /\ RecordOK(rec) /\ RecordOK(rec)'
<1> DEFINE rec == [Idle EXCEPT !.pc = "sweep_next", !.batch = batch]
<1>1. rec \in ProcRecords /\ rec.pc = "sweep_next"
  BY IdleOK DEF Idle, ProcRecords, PCs
<1>2. RecordOK(rec) /\ RecordOK(rec)'
  BY <1>1 DEF RecordOK, NoTicketPCs, ClosePCs, RaisePCs, StoredPCs, VerdictPCs
<1> QED
  BY <1>1, <1>2

LEMMA SweepScanStep ==
    ASSUME IInv, NEW p \in Procs, SweepScan(p)
    PROVE  IInv' /\ StoresGrow
<1> DEFINE batch == [t \in Tickets |-> IF Swept(t) /\ tickets[t].assignee \notin proc[p].seen
                                       THEN tickets[t].assignee ELSE None]
           rec   == [Idle EXCEPT !.pc = "sweep_next", !.batch = batch]
<1>1. batch \in [Tickets -> Users \cup {None}]
  BY DEF IInv, TicketsOK, TicketDocs
<1>2. p \notin Consumers
  BY DEF SweepScan, IInv, ProcsOK
<1>3. CASE Finish(p)
  BY <1>3, FinishRecord, ReadKept DEF SweepScan
<1>4. CASE proc' = [proc EXCEPT ![p] = rec]
  <2>1. rec \in ProcRecords /\ RecordOK(rec)
    BY <1>1, SweepRecord
  <2> QED
    BY <1>2, <1>4, <2>1, ReadKept DEF SweepScan
<1> QED
  BY <1>3, <1>4 DEF SweepScan

LEMMA SweepNextStep ==
    ASSUME IInv, NEW p \in Procs, SweepNext(p)
    PROVE  IInv' /\ StoresGrow
<1>1. PICK t \in Tickets, u \in Users \cup {None} :
        proc' = [proc EXCEPT ![p].pc = "sweep_move", ![p].ticket = t, ![p].target = u]
  BY DEF SweepNext, Available, IInv, EnvironmentOK
<1> DEFINE rec == [proc[p] EXCEPT !.pc = "sweep_move", !.ticket = t, !.target = u]
<1>2. p \notin Consumers /\ proc[p] \in ProcRecords
  BY DEF SweepNext, IInv, ProcsOK
<1>3. rec \in ProcRecords /\ rec.pc = "sweep_move" /\ rec.ticket = t
  BY <1>2 DEF ProcRecords, PCs
<1>4. proc' = [proc EXCEPT ![p] = rec]
  BY <1>1, <1>2 DEF IInv, ProcsOK, ProcRecords
<1>5. RecordOK(rec)
  BY <1>3 DEF RecordOK, ClosePCs, RaisePCs, StoredPCs, VerdictPCs
<1> QED
  BY <1>2, <1>3, <1>4, <1>5, ReadKept DEF SweepNext

\* The sweep assigns the ticket to somebody else or takes the assignee away.
LEMMA SweepMoveStep ==
    ASSUME IInv, NEW p \in Procs, SweepMove(p)
    PROVE  IInv' /\ StoresGrow
<1> DEFINE t    == proc[p].ticket
           d    == IF proc[p].target # None THEN Assigned(tickets[t], proc[p].target)
                   ELSE Unassigned(tickets[t])
           rest == [proc[p].batch EXCEPT ![t] = None]
           rec  == [Idle EXCEPT !.pc = "sweep_next", !.batch = rest]
<1>1. /\ t \in Tickets /\ proc[p] \in ProcRecords /\ p \notin Consumers
      /\ tickets[t] \in TicketDocs /\ DocOK(tickets[t])
  BY DEF SweepMove, IInv, ProcsOK, RecordOK, NoTicketPCs, TicketsOK
<1>2. Kept(tickets[t], d)
  <2>1. proc[p].target \in Users \cup {None}
    BY <1>1 DEF ProcRecords
  <2> QED
    BY <1>1, <2>1, AssignedKept, UnassignedKept
<1>3. Update(t, d) /\ UNCHANGED <<requests, created, online, crashes>>
  BY DEF SweepMove
<1>4. CASE Finish(p)
  BY <1>1, <1>2, <1>3, <1>4, FinishRecord, WriteKept
<1>5. CASE proc' = [proc EXCEPT ![p] = rec]
  <2>1. rest \in [Tickets -> Users \cup {None}]
    BY <1>1 DEF ProcRecords
  <2>2. PICK b \in [Tickets -> Users \cup {None}] : b = rest
    BY <2>1
  <2> DEFINE next == [Idle EXCEPT !.pc = "sweep_next", !.batch = b]
  <2>3. next \in ProcRecords /\ RecordOK(next)' /\ proc' = [proc EXCEPT ![p] = next]
    BY <1>5, <2>2, SweepRecord
  <2> HIDE DEF d, next, rec, rest
  <2> QED
    BY <1>1, <1>2, <1>3, <2>3, WriteKept
<1> QED
  BY <1>4, <1>5 DEF SweepMove

--------------------------------------------------------------------------------
(* First response and closing.                                             *)

LEMMA RespondReadStep ==
    ASSUME IInv, NEW p \in Handlers, NEW t \in Tickets, RespondRead(p, t)
    PROVE  IInv' /\ StoresGrow
<1> DEFINE rec == [Idle EXCEPT !.pc = "respond_write", !.ticket = t, !.was = tickets[t].status]
<1>1. p \in Procs /\ p \notin Consumers
  BY ConstantsAssumption DEF Procs
<1>2. tickets[t].status \in TicketStatus
  BY DEF RespondRead, Exists, IInv, TicketsOK, TicketDocs
<1>3. rec \in ProcRecords /\ rec.pc = "respond_write" /\ rec.ticket = t
  BY <1>2, IdleOK DEF Idle, ProcRecords, PCs
<1>4. RecordOK(rec)
  BY <1>3 DEF RecordOK, ClosePCs, RaisePCs, StoredPCs, VerdictPCs
<1> QED
  BY <1>1, <1>3, <1>4, ReadKept DEF RespondRead

LEMMA RespondWriteStep ==
    ASSUME IInv, NEW p \in Procs, RespondWrite(p)
    PROVE  IInv' /\ StoresGrow
<1>1. /\ proc[p].ticket \in Tickets
      /\ tickets[proc[p].ticket] \in TicketDocs /\ DocOK(tickets[proc[p].ticket])
  BY DEF RespondWrite, IInv, ProcsOK, RecordOK, NoTicketPCs, TicketsOK
<1>2. Kept(tickets[proc[p].ticket], Answered(tickets[proc[p].ticket], proc[p].was))
  BY <1>1, AnsweredKept
<1> QED
  BY <1>1, <1>2, FinishRecord, WriteKept DEF RespondWrite

LEMMA CloseReadStep ==
    ASSUME IInv, NEW p \in Handlers, NEW t \in Tickets, NEW status \in {"resolved", "rejected"},
           CloseRead(p, t, status)
    PROVE  IInv' /\ StoresGrow
<1> DEFINE rec == [Idle EXCEPT !.pc = "close_check", !.ticket = t,
                               !.was = tickets[t].status, !.kind = status]
<1>1. p \in Procs /\ p \notin Consumers
  BY ConstantsAssumption DEF Procs
<1>2. tickets[t].status \in TicketStatus /\ status \in TicketStatus
  BY DEF CloseRead, Exists, IInv, TicketsOK, TicketDocs, TicketStatus, TerminalStatuses
<1>3. rec \in ProcRecords /\ rec.pc = "close_check" /\ rec.ticket = t /\ rec.kind = status
  BY <1>2, IdleOK DEF Idle, ProcRecords, PCs
<1>4. RecordOK(rec)
  BY <1>3 DEF RecordOK, ClosePCs, RaisePCs, StoredPCs, VerdictPCs
<1> QED
  BY <1>1, <1>3, <1>4, ReadKept DEF CloseRead

LEMMA CloseCheckStep ==
    ASSUME IInv, NEW p \in Procs, CloseCheck(p)
    PROVE  IInv' /\ StoresGrow
<1> DEFINE rec == [proc[p] EXCEPT !.pc = "close_write"]
<1>1. CASE Finish(p)
  BY <1>1, FinishRecord, ReadKept DEF CloseCheck
<1>2. CASE GoTo(p, "close_write")
  <2>1. /\ proc[p] \in ProcRecords /\ p \notin Consumers
        /\ proc[p].ticket \in Tickets /\ proc[p].kind \in {"resolved", "rejected"}
    BY DEF CloseCheck, IInv, ProcsOK, RecordOK, NoTicketPCs, ClosePCs
  <2>2. rec \in ProcRecords /\ proc' = [proc EXCEPT ![p] = rec]
    BY <1>2, GoToRecord DEF IInv, PCs
  <2>3. /\ rec.pc = "close_write"
        /\ rec.ticket \in Tickets /\ rec.kind \in {"resolved", "rejected"}
    BY <2>1 DEF ProcRecords
  <2>4. RecordOK(rec)
    BY <2>3 DEF RecordOK, ClosePCs, RaisePCs, StoredPCs, VerdictPCs
  <2> QED
    BY <2>1, <2>2, <2>3, <2>4, ReadKept DEF CloseCheck
<1> QED
  BY <1>1, <1>2 DEF CloseCheck

LEMMA CloseWriteStep ==
    ASSUME IInv, NEW p \in Procs, CloseWrite(p)
    PROVE  IInv' /\ StoresGrow
<1>1. /\ proc[p].ticket \in Tickets /\ proc[p].kind \in {"resolved", "rejected"}
      /\ tickets[proc[p].ticket] \in TicketDocs /\ DocOK(tickets[proc[p].ticket])
  BY DEF CloseWrite, IInv, ProcsOK, RecordOK, NoTicketPCs, ClosePCs, TicketsOK
<1>2. Kept(tickets[proc[p].ticket], ClosedAs(tickets[proc[p].ticket], proc[p].kind))
  BY <1>1, ClosedAsKept
<1> QED
  BY <1>1, <1>2, FinishRecord, WriteKept DEF CloseWrite

--------------------------------------------------------------------------------
(* Requests.                                                               *)

\* The ticket read has an assignee, so its status is not new: this is what a
\* review may restore.
LEMMA RequestReadStep ==
    ASSUME IInv, NEW p \in Handlers, NEW r \in Requests, NEW u \in Staff, NEW t \in Tickets,
           NEW type \in RequestType, NEW target \in Targets \cup {None},
           RequestRead(p, r, u, t, type, target)
    PROVE  IInv' /\ StoresGrow
<1> DEFINE rec == [Idle EXCEPT !.pc = "request_insert", !.ticket = t, !.user = u, !.request = r,
                               !.was = tickets[t].status, !.kind = type, !.target = target]
<1>1. p \in Procs /\ p \notin Consumers
  BY ConstantsAssumption DEF Procs
<1>2. /\ tickets[t].status \in Restored
      /\ tickets[t].status = "resolved" => tickets[t].resolved_at
  BY ConstantsAssumption
  DEF RequestRead, MayRaise, Exists, IInv, TicketsOK, DocOK, Users
<1>3. rec \in ProcRecords
  BY <1>2, IdleOK, ConstantsAssumption
  DEF Idle, ProcRecords, PCs, Users, Restored, TicketStatus, OpenStatuses, TerminalStatuses
<1>4. /\ rec.pc = "request_insert" /\ rec.ticket = t /\ rec.request = r
      /\ rec.was = tickets[t].status /\ rec.kind = type
  BY DEF Idle
<1>5. RecordOK(rec)
  BY <1>2, <1>4 DEF RecordOK, ClosePCs, RaisePCs, StoredPCs, VerdictPCs, RequestRead, MayRaise, Exists
<1> QED
  BY <1>1, <1>3, <1>4, <1>5, ReadKept DEF RequestRead

\* One request document replaced by another that is of a ticket in the
\* collection.
LEMMA RequestWriteKept ==
    ASSUME IInv, NEW p \in Procs, NEW r \in Requests, NEW d \in RequestDocs,
           requests' = [requests EXCEPT ![r] = d],
           d.status # "none", d.ticket \in Tickets, tickets[d.ticket].status # "none",
           UNCHANGED <<tickets, created, online, crashes>>,
           NEW rec \in ProcRecords, proc' = [proc EXCEPT ![p] = rec], RecordOK(rec)',
           p \in Consumers => rec.pc \in {"idle", "assign_choose", "assign_set"}
    PROVE  IInv' /\ StoresGrow
<1>1. TicketsOK' /\ StoresGrow
  BY SameTickets DEF IInv, StoresGrow, RequestsOK
<1>2. RequestsOK' /\ EnvironmentOK'
  BY DEF IInv, RequestsOK, EnvironmentOK
<1>3. ProcsOK'
  BY <1>1, RecordKept DEF IInv
<1> QED
  BY <1>1, <1>2, <1>3 DEF IInv

LEMMA RequestInsertStep ==
    ASSUME IInv, NEW p \in Procs, RequestInsert(p)
    PROVE  IInv' /\ StoresGrow
<1>1. /\ proc[p] \in ProcRecords /\ p \notin Consumers /\ RecordOK(proc[p])
      /\ proc[p].pc = "request_insert"
  BY DEF RequestInsert, IInv, ProcsOK
<1>2. /\ proc[p].ticket \in Tickets /\ proc[p].request \in Requests
      /\ proc[p].kind \in RequestType /\ proc[p].was \in Restored
      /\ tickets[proc[p].ticket].status # "none"
      /\ proc[p].was = "resolved" => tickets[proc[p].ticket].resolved_at
  BY <1>1 DEF RecordOK, NoTicketPCs, RaisePCs
<1>3. PICK pc \in {"request_pick", "request_mark"} : GoTo(p, pc)
  BY DEF RequestInsert
<1>4. PICK rec : rec = [proc[p] EXCEPT !.pc = pc]
  OBVIOUS
<1>5. rec \in ProcRecords /\ proc' = [proc EXCEPT ![p] = rec]
  <2>1. pc \in PCs /\ ProcsOK
    BY DEF PCs, IInv
  <2> QED
    BY <1>3, <1>4, <2>1, GoToRecord
<1>6. PICK d : d = [status |-> "pending", type |-> proc[p].kind, ticket |-> proc[p].ticket,
                    target |-> proc[p].target]
  OBVIOUS
<1>7. d \in RequestDocs /\ d.status = "pending" /\ d.ticket = proc[p].ticket
  BY <1>1, <1>2, <1>6 DEF RequestDocs, ProcRecords
<1>8. requests' = [requests EXCEPT ![proc[p].request] = d]
  BY <1>6 DEF RequestInsert
<1>9. /\ rec.pc = pc /\ rec.ticket = proc[p].ticket /\ rec.request = proc[p].request
      /\ rec.kind = proc[p].kind /\ rec.was = proc[p].was
  BY <1>1, <1>4 DEF ProcRecords
<1>10. /\ tickets' = tickets
       /\ requests'[rec.request].status # "none"
  BY <1>2, <1>7, <1>8, <1>9 DEF RequestInsert, IInv, RequestsOK
<1>11. RecordOK(rec)'
  BY <1>2, <1>9, <1>10 DEF RecordOK, ClosePCs, RaisePCs, StoredPCs, VerdictPCs
<1>12. UNCHANGED <<tickets, created, online, crashes>>
  BY DEF RequestInsert
<1>13. d.ticket \in Tickets /\ tickets[d.ticket].status # "none" /\ d.status # "none"
  BY <1>2, <1>7
<1> QED
  BY <1>1, <1>2, <1>5, <1>7, <1>8, <1>11, <1>12, <1>13, RequestWriteKept

LEMMA RequestPickStep ==
    ASSUME IInv, NEW p \in Procs, RequestPick(p)
    PROVE  IInv' /\ StoresGrow
<1>1. PICK u \in Users \cup {None} :
        proc' = [proc EXCEPT ![p].pc = "request_mark", ![p].target = u]
  BY DEF RequestPick, Available, IInv, EnvironmentOK
<1> DEFINE rec == [proc[p] EXCEPT !.pc = "request_mark", !.target = u]
<1>2. /\ proc[p] \in ProcRecords /\ p \notin Consumers /\ RecordOK(proc[p])
      /\ proc[p].pc = "request_pick"
  BY DEF RequestPick, IInv, ProcsOK
<1>3. rec \in ProcRecords
  BY <1>2 DEF ProcRecords, PCs
<1>4. /\ rec.pc = "request_mark" /\ rec.ticket = proc[p].ticket
      /\ rec.request = proc[p].request /\ rec.kind = proc[p].kind /\ rec.was = proc[p].was
  BY <1>2 DEF ProcRecords
<1>5. proc' = [proc EXCEPT ![p] = rec]
  BY <1>1, <1>2 DEF IInv, ProcsOK, ProcRecords
<1>6. RecordOK(rec)
  BY <1>2, <1>4 DEF RecordOK, NoTicketPCs, ClosePCs, RaisePCs, StoredPCs, VerdictPCs
<1> QED
  BY <1>2, <1>3, <1>4, <1>5, <1>6, ReadKept DEF RequestPick

\* The ticket's update: what it saves was read at the start of the handler and
\* is still true of what it may restore.
LEMMA RequestMarkStep ==
    ASSUME IInv, NEW p \in Procs, RequestMark(p)
    PROVE  IInv' /\ StoresGrow
<1>1. /\ proc[p] \in ProcRecords /\ p \notin Consumers /\ RecordOK(proc[p])
      /\ proc[p].pc = "request_mark"
  BY DEF RequestMark, IInv, ProcsOK
<1>2. /\ proc[p].ticket \in Tickets /\ proc[p].request \in Requests
      /\ proc[p].was \in Restored
      /\ tickets[proc[p].ticket].status # "none"
      /\ requests[proc[p].request].status # "none"
      /\ proc[p].was = "resolved" => tickets[proc[p].ticket].resolved_at
  BY <1>1 DEF RecordOK, NoTicketPCs, RaisePCs, StoredPCs
<1> DEFINE doc == tickets[proc[p].ticket]
<1>3. PICK d : d = IF VirtualEscalation(p) /\ proc[p].target # None
                   THEN TakenOver(doc, proc[p].target)
                   ELSE Marked(doc, proc[p].kind, proc[p].was)
  OBVIOUS
<1>4. Update(proc[p].ticket, d)
  BY <1>3 DEF RequestMark
<1>5. Kept(doc, d)
  <2>1. doc \in TicketDocs /\ DocOK(doc) /\ proc[p].target \in Users \cup {None}
    BY <1>1, <1>2 DEF IInv, TicketsOK, ProcRecords
  <2> QED
    BY <1>2, <1>3, <2>1, TakenOverKept, MarkedKept
<1>6. CASE Finish(p)
  BY <1>1, <1>2, <1>4, <1>5, <1>6, FinishRecord, WriteKept DEF RequestMark
<1>7. CASE GoTo(p, "request_approve")
  <2>1. PICK rec : rec = [proc[p] EXCEPT !.pc = "request_approve"]
    OBVIOUS
  <2>2. rec \in ProcRecords /\ proc' = [proc EXCEPT ![p] = rec]
    BY <1>7, <2>1, GoToRecord DEF IInv, PCs
  <2>3. /\ rec.pc = "request_approve" /\ rec.ticket = proc[p].ticket
        /\ rec.request = proc[p].request
    BY <1>1, <2>1 DEF ProcRecords
  <2>4. StoresGrow => RecordOK(rec)'
    BY <1>2, <2>3
    DEF RecordOK, StoresGrow, Grows, NoTicketPCs, ClosePCs, RaisePCs, StoredPCs, VerdictPCs
  <2> QED
    BY <1>1, <1>2, <1>4, <1>5, <2>2, <2>3, <2>4, WriteKept DEF RequestMark
<1> QED
  BY <1>6, <1>7 DEF RequestMark

LEMMA RequestApproveStep ==
    ASSUME IInv, NEW p \in Procs, RequestApprove(p)
    PROVE  IInv' /\ StoresGrow
<1>1. /\ proc[p] \in ProcRecords /\ RecordOK(proc[p]) /\ proc[p].pc = "request_approve"
      /\ proc[p].request \in Requests
      /\ requests[proc[p].request].status # "none"
  BY DEF RequestApprove, IInv, ProcsOK, RecordOK, StoredPCs
<1> DEFINE r == proc[p].request
<1>2. PICK d : d = [requests[r] EXCEPT !.status = "approved", !.target = proc[p].target]
  OBVIOUS
<1>3. requests[r] \in RequestDocs
  BY <1>1 DEF IInv, RequestsOK
<1>4. d \in RequestDocs /\ d.status = "approved" /\ d.ticket = requests[r].ticket
  BY <1>1, <1>2, <1>3 DEF RequestDocs, Verdicts, ProcRecords
<1>5. requests' = [requests EXCEPT ![r] = d]
  BY <1>1, <1>2, <1>3 DEF RequestApprove, IInv, RequestsOK, RequestDocs
<1>6. d.ticket \in Tickets /\ tickets[d.ticket].status # "none"
  BY <1>1, <1>4 DEF IInv, RequestsOK
<1> QED
  BY <1>1, <1>4, <1>5, <1>6, FinishRecord, RequestWriteKept DEF RequestApprove

--------------------------------------------------------------------------------
(* Reviews.                                                                *)

LEMMA ReviewReadStep ==
    ASSUME IInv, NEW p \in Handlers, NEW r \in Requests, NEW verdict \in Verdicts,
           NEW target \in Targets \cup {None}, ReviewRead(p, r, verdict, target)
    PROVE  IInv' /\ StoresGrow
<1>1. p \in Procs /\ p \notin Consumers
  BY ConstantsAssumption DEF Procs
<1>2. /\ requests[r] \in RequestDocs /\ requests[r].status # "none"
      /\ requests[r].ticket \in Tickets
      /\ tickets[requests[r].ticket].status # "none"
  BY DEF ReviewRead, MayReview, IInv, RequestsOK
<1>3. PICK u \in Users \cup {None}, pc \in {"approve_assign", "finalize_read", "finalize_write"} :
        proc' = [proc EXCEPT ![p] = [Idle EXCEPT !.ticket = requests[r].ticket, !.request = r,
                                                 !.kind = verdict, !.target = u, !.pc = pc]]
  <2>1. (IF target # None THEN target ELSE requests[r].target) \in Users \cup {None}
    BY <1>2, ConstantsAssumption DEF RequestDocs
  <2> QED
    BY <2>1 DEF ReviewRead
<1> DEFINE rec == [Idle EXCEPT !.ticket = requests[r].ticket, !.request = r,
                               !.kind = verdict, !.target = u, !.pc = pc]
<1>4. rec \in ProcRecords
  BY <1>2, IdleOK DEF Idle, ProcRecords, PCs
<1>5. /\ rec.pc = pc /\ rec.ticket = requests[r].ticket /\ rec.request = r
      /\ rec.kind = verdict /\ rec.was = None
  BY DEF Idle
<1>6. RecordOK(rec)
  BY <1>2, <1>5, ConstantsAssumption
  DEF RecordOK, ClosePCs, RaisePCs, StoredPCs, VerdictPCs, TicketStatus, TerminalStatuses
<1> QED
  BY <1>1, <1>3, <1>4, <1>5, <1>6, ReadKept DEF ReviewRead

\* What a review in progress knows.
LEMMA ReviewFacts ==
    ASSUME IInv, NEW p \in Procs, proc[p].pc \in VerdictPCs
    PROVE  /\ proc[p] \in ProcRecords /\ p \notin Consumers
           /\ proc[p].ticket \in Tickets /\ proc[p].request \in Requests
           /\ proc[p].kind \in Verdicts
           /\ requests[proc[p].request].status # "none"
           /\ tickets[proc[p].ticket] \in TicketDocs /\ DocOK(tickets[proc[p].ticket])
           /\ tickets[proc[p].ticket].status # "none"
<1>1. proc[p] \in ProcRecords /\ p \notin Consumers /\ RecordOK(proc[p])
  BY DEF IInv, ProcsOK, VerdictPCs
<1>2. /\ proc[p].ticket \in Tickets /\ proc[p].request \in Requests
      /\ proc[p].kind \in Verdicts
      /\ requests[proc[p].request].status # "none"
      /\ tickets[proc[p].ticket].status # "none"
  BY <1>1 DEF RecordOK, NoTicketPCs, StoredPCs, VerdictPCs
<1> QED
  BY <1>1, <1>2 DEF IInv, TicketsOK

\* A review that writes the ticket and goes on to its next access.
LEMMA ReviewWriteKept ==
    ASSUME IInv, NEW p \in Procs, proc[p].pc \in VerdictPCs,
           NEW pc \in {"approve_clear", "review_stamp"}, GoTo(p, pc),
           NEW d, Update(proc[p].ticket, d), Kept(tickets[proc[p].ticket], d),
           UNCHANGED <<requests, created, online, crashes>>
    PROVE  IInv' /\ StoresGrow
<1>1. /\ proc[p] \in ProcRecords /\ p \notin Consumers
      /\ proc[p].ticket \in Tickets /\ proc[p].request \in Requests
      /\ proc[p].kind \in Verdicts
      /\ requests[proc[p].request].status # "none"
      /\ tickets[proc[p].ticket].status # "none"
  BY ReviewFacts
<1>2. PICK rec : rec = [proc[p] EXCEPT !.pc = pc]
  OBVIOUS
<1>3. rec \in ProcRecords /\ proc' = [proc EXCEPT ![p] = rec]
  <2>1. pc \in PCs /\ ProcsOK
    BY DEF PCs, IInv
  <2> QED
    BY <1>2, <2>1, GoToRecord
<1>4. /\ rec.pc = pc /\ rec.ticket = proc[p].ticket
      /\ rec.request = proc[p].request /\ rec.kind = proc[p].kind
  BY <1>1, <1>2 DEF ProcRecords
<1>5. StoresGrow => RecordOK(rec)'
  BY <1>1, <1>4 DEF RecordOK, StoresGrow, Grows, ClosePCs, RaisePCs, StoredPCs, VerdictPCs
<1> QED
  BY <1>1, <1>3, <1>4, <1>5, WriteKept

LEMMA ApproveAssignStep ==
    ASSUME IInv, NEW p \in Procs, ApproveAssign(p)
    PROVE  IInv' /\ StoresGrow
<1>1. proc[p].pc \in VerdictPCs
  BY DEF ApproveAssign, VerdictPCs
<1>2. proc[p].target \in Users \cup {None}
  BY <1>1, ReviewFacts DEF ProcRecords
<1>3. Kept(tickets[proc[p].ticket], Assigned(tickets[proc[p].ticket], proc[p].target))
  BY <1>1, <1>2, ReviewFacts, AssignedKept
<1> QED
  BY <1>1, <1>3, ReviewWriteKept DEF ApproveAssign

LEMMA ApproveClearStep ==
    ASSUME IInv, NEW p \in Procs, ApproveClear(p)
    PROVE  IInv' /\ StoresGrow
<1>1. proc[p].pc \in VerdictPCs
  BY DEF ApproveClear, VerdictPCs
<1>2. Kept(tickets[proc[p].ticket], Cleared(tickets[proc[p].ticket]))
  BY <1>1, ReviewFacts, ClearedKept
<1> QED
  BY <1>1, <1>2, ReviewWriteKept DEF ApproveClear

LEMMA FinalizeReadStep ==
    ASSUME IInv, NEW p \in Procs, FinalizeRead(p)
    PROVE  IInv' /\ StoresGrow
<1>1. proc[p].pc \in VerdictPCs
  BY DEF FinalizeRead, VerdictPCs
<1> DEFINE was == tickets[proc[p].ticket].previous_status
           rec == [proc[p] EXCEPT !.pc = "finalize_write", !.was = was]
<1>2. /\ was \in Restored \cup {None}
      /\ was = "resolved" => tickets[proc[p].ticket].resolved_at
  BY <1>1, ReviewFacts DEF DocOK
<1>3. rec \in ProcRecords /\ proc' = [proc EXCEPT ![p] = rec]
  <2>1. was \in TicketStatus \cup {None}
    BY <1>2 DEF Restored, TicketStatus, OpenStatuses, TerminalStatuses
  <2>2. proc[p] \in ProcRecords
    BY DEF IInv, ProcsOK
  <2>3. rec \in ProcRecords
    BY <2>1, <2>2 DEF ProcRecords, PCs
  <2> HIDE DEF was
  <2>4. proc' = [proc EXCEPT ![p].pc = "finalize_write", ![p].was = was]
    BY DEF FinalizeRead, was
  <2>5. proc \in [Procs -> ProcRecords]
    BY DEF IInv, ProcsOK
  <2> QED
    BY <2>3, <2>4, <2>5
<1>4. /\ rec.pc = "finalize_write" /\ rec.ticket = proc[p].ticket /\ rec.was = was
      /\ rec.request = proc[p].request /\ rec.kind = proc[p].kind
  BY <1>1, ReviewFacts DEF ProcRecords
<1>5. RecordOK(rec)
  BY <1>1, <1>2, <1>4, ReviewFacts
  DEF RecordOK, ClosePCs, RaisePCs, StoredPCs, VerdictPCs
<1> QED
  BY <1>1, <1>3, <1>4, <1>5, ReviewFacts, ReadKept DEF FinalizeRead

\* The status a review restores was saved from an assigned ticket.
LEMMA FinalizeWriteStep ==
    ASSUME IInv, NEW p \in Procs, FinalizeWrite(p)
    PROVE  IInv' /\ StoresGrow
<1>1. proc[p].pc \in VerdictPCs
  BY DEF FinalizeWrite, VerdictPCs
<1>2. /\ proc[p].was \in Restored \cup {None}
      /\ proc[p].was = "resolved" => tickets[proc[p].ticket].resolved_at
  BY DEF FinalizeWrite, IInv, ProcsOK, RecordOK
<1> DEFINE d == Finalized(tickets[proc[p].ticket], requests[proc[p].request].type, proc[p].was)
<1>3. Kept(tickets[proc[p].ticket], d)
  BY <1>1, <1>2, ReviewFacts, FinalizedKept
<1> QED
  BY <1>1, <1>3, ReviewWriteKept DEF FinalizeWrite

LEMMA ReviewStampStep ==
    ASSUME IInv, NEW p \in Procs, ReviewStamp(p)
    PROVE  IInv' /\ StoresGrow
<1>1. proc[p].pc \in VerdictPCs
  BY DEF ReviewStamp, VerdictPCs
<1> DEFINE r == proc[p].request
<1>2. requests[r] \in RequestDocs /\ r \in Requests /\ proc[p].kind \in Verdicts
  BY <1>1, ReviewFacts DEF IInv, RequestsOK
<1>3. PICK d : d = [requests[r] EXCEPT
                      !.status = proc[p].kind,
                      !.target = IF proc[p].kind = "approved" THEN proc[p].target ELSE @]
  OBVIOUS
<1>4. d \in RequestDocs /\ d.status = proc[p].kind /\ d.ticket = requests[r].ticket
  BY <1>1, <1>2, <1>3, ReviewFacts DEF RequestDocs, ProcRecords
<1>5. requests' = [requests EXCEPT ![r] = d]
  BY <1>2, <1>3 DEF ReviewStamp, IInv, RequestsOK, RequestDocs
<1>6. /\ d.status # "none"
      /\ d.ticket \in Tickets /\ tickets[d.ticket].status # "none"
  BY <1>1, <1>2, <1>4, ReviewFacts DEF IInv, RequestsOK, Verdicts
<1> QED
  BY <1>2, <1>4, <1>5, <1>6, FinishRecord, RequestWriteKept DEF ReviewStamp

--------------------------------------------------------------------------------
(* Failures and the environment, and the theorems.                         *)

LEMMA CrashStep ==
    ASSUME IInv, NEW p \in Procs, Crash(p)
    PROVE  IInv' /\ StoresGrow
<1>1. TicketsOK' /\ StoresGrow
  BY SameTickets DEF IInv, Crash, StoresGrow
<1>2. RequestsOK'
  BY <1>1, SameRequests DEF IInv, Crash
<1>3. p \in Consumers => proc[p].ticket \in Tickets
  BY DEF Crash, IInv, ProcsOK, RecordOK, NoTicketPCs
<1>4. EnvironmentOK'
  BY <1>3, ConstantsAssumption DEF IInv, EnvironmentOK, Crash
<1>5. ProcsOK'
  BY <1>1, FinishKept DEF IInv, Crash
<1> QED
  BY <1>1, <1>2, <1>4, <1>5 DEF IInv

LEMMA PresenceStep ==
    ASSUME IInv, NEW u \in Users, GoOnline(u) \/ GoOffline(u)
    PROVE  IInv' /\ StoresGrow
<1>1. UNCHANGED <<tickets, requests, created, proc, crashes>> /\ online' \subseteq Users
  BY DEF GoOnline, GoOffline, IInv, EnvironmentOK
<1>2. TicketsOK' /\ StoresGrow
  BY <1>1, SameTickets DEF IInv, StoresGrow
<1>3. RequestsOK' /\ EnvironmentOK'
  BY <1>1, <1>2, SameRequests DEF IInv, EnvironmentOK
<1>4. ProcsOK'
  BY <1>1 DEF IInv, ProcsOK, RecordOK
<1> QED
  BY <1>2, <1>3, <1>4 DEF IInv

\* The invariant is inductive, and every step only lets the stores grow.
LEMMA StepKept ==
    ASSUME IInv, [Next]_vars
    PROVE  IInv' /\ StoresGrow
<1>1. CASE UNCHANGED vars
  <2>1. TicketsOK' /\ StoresGrow
    BY <1>1, SameTickets DEF IInv, vars, StoresGrow
  <2> QED
    BY <1>1, <2>1 DEF vars, IInv, RequestsOK, ProcsOK, RecordOK, EnvironmentOK
<1>2. ASSUME NEW p \in Procs, Continue(p)
      PROVE  IInv' /\ StoresGrow
  BY <1>2, EmitCreatedStep, AssignChooseStep, AssignSetStep, SweepScanStep, SweepNextStep,
     SweepMoveStep, RespondWriteStep, CloseCheckStep, CloseWriteStep, RequestInsertStep,
     RequestPickStep, RequestMarkStep, RequestApproveStep, ApproveAssignStep,
     ApproveClearStep, FinalizeReadStep, FinalizeWriteStep, ReviewStampStep
  DEF Continue
<1>3. ASSUME NEW p \in Handlers, Arrive(p)
      PROVE  IInv' /\ StoresGrow
  BY <1>3, CreateTicketStep, RespondReadStep, CloseReadStep, RequestReadStep, ReviewReadStep
  DEF Arrive
<1> QED
  BY <1>1, <1>2, <1>3, CrashStep, DeliverCreatedStep, SweepStartStep, PresenceStep DEF Next

LEMMA InitKept == Init => IInv
<1> SUFFICES ASSUME Init PROVE IInv
  OBVIOUS
<1>1. TicketsOK
  <2>1. NoTicket \in TicketDocs /\ NoTicket.status = "none" /\ NoTicket.previous_status = None
    BY DEF NoTicket, TicketDocs
  <2> QED
    BY <2>1, ConstantsAssumption DEF Init, TicketsOK, DocOK, TicketStatus, TerminalStatuses
<1>2. RequestsOK
  BY DEF Init, RequestsOK, NoRequest, RequestDocs
<1>3. ProcsOK
  <2>1. /\ proc \in [Procs -> ProcRecords]
        /\ \A p \in Procs : proc[p] = Idle
    BY IdleOK DEF Init
  <2>2. Idle.pc = "idle"
    BY DEF Idle
  <2> QED
    BY <2>1, <2>2, IdleOK DEF ProcsOK, Procs
<1>4. EnvironmentOK
  BY ConstantsAssumption DEF Init, EnvironmentOK
<1> QED
  BY <1>1, <1>2, <1>3, <1>4 DEF IInv

THEOREM InductiveInvariant == Spec => []IInv
<1>1. IInv /\ [Next]_vars => IInv'
  BY StepKept
<1> QED
  BY InitKept, <1>1, PTL DEF Spec

\* Every document and every handler's record stays well typed, and the statuses
\* escalated and closed are never set.
THEOREM TypeCorrect == Spec => []TypeOK
<1>1. IInv => TypeOK
  BY ConstantsAssumption
  DEF IInv, TypeOK, TicketsOK, RequestsOK, ProcsOK, EnvironmentOK, DocOK, Restored
<1> QED
  BY InductiveInvariant, <1>1, PTL

\* A new ticket belongs to nobody, however many handlers race on it.
THEOREM NewStaysUnassigned == Spec => []NewIsUnassigned
<1>1. IInv => NewIsUnassigned
  BY DEF IInv, NewIsUnassigned, TicketsOK, DocOK
<1> QED
  BY InductiveInvariant, <1>1, PTL

\* A resolved ticket carries its resolution time, however it became resolved.
THEOREM ResolvedStaysStamped == Spec => []ResolvedIsStamped
<1>1. IInv => ResolvedIsStamped
  BY DEF IInv, ResolvedIsStamped, TicketsOK, DocOK
<1> QED
  BY InductiveInvariant, <1>1, PTL

\* No step returns a ticket to new: not the sweep that unassigns it, although the
\* documented state diagram draws that transition, and not the review that restores
\* the status saved when a request was raised.
NeverBackToNew ==
    [][\A t \in Tickets : Exists(t) /\ tickets[t].status # "new"
                             => tickets[t]'.status # "new"]_vars

\* No step of any handler returns a ticket to new.
THEOREM NewIsLeftForGood == Spec => NeverBackToNew
<1>1. IInv /\ [Next]_vars =>
        [\A t \in Tickets : Exists(t) /\ tickets[t].status # "new"
                              => tickets[t]'.status # "new"]_vars
  BY StepKept DEF StoresGrow, Grows, Exists
<1> QED
  BY InductiveInvariant, <1>1, PTL DEF Spec, NeverBackToNew
================================================================================
