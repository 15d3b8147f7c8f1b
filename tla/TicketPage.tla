------------------------------- MODULE TicketPage -------------------------------
(***************************************************************************)
(* TicketDetailPage: it reads its ticket again and again, and keeps the    *)
(* ticket locked for a technician or an admin while it believes it open.   *)
(*                                                                         *)
(* The component stays mounted when the tab goes from one ticket to        *)
(* another, with what it shows and the answers under way about the ticket  *)
(* before.  The backend handles a call in the step that sends it, or does  *)
(* not get it; the answer takes its time.  TicketLock has the steps inside *)
(* a lock call, and the holders of a lock other than the user of this tab: *)
(* here their lock is a call refused.                                      *)
(***************************************************************************)
EXTENDS Routes, Naturals, Sequences, SequencesExt

CONSTANT MaxCalls  \* bound on the answers under way

ASSUME TicketPageAssumption == MaxCalls \in Nat \ {0}

VARIABLES
    shown,   \* the state ticket: the answer shown, None before the first
    failed,  \* the state error, which nothing resets
    beats,   \* the tickets that an interval refreshes the lock of
    calls,   \* the answers under way, in the order they were given
    status,  \* of each ticket in the database: one of the open ones, or not
    held     \* the tickets whose lock the user of this tab holds

pageState == <<shown, failed, beats, calls>>
serverState == <<status, held>>
ticketVars == <<pageState, serverState>>

Statuses == {"open", "closed"}

\* To a get; to an acquire or a refresh; to a resolve, a reject, an escalation, a
\* request to reassign or a forced release, after which the ticket id is read.
CallRecords == [op : {"get", "lock", "act"}, id : Tickets, status : Statuses]

TicketTypeOK ==
    /\ shown \in [id : Tickets, status : Statuses] \cup {None}
    /\ failed \in BOOLEAN
    /\ beats \subseteq Tickets
    /\ calls \in Seq(CallRecords) /\ Len(calls) <= MaxCalls
    /\ status \in [Tickets -> Statuses]
    /\ held \subseteq Tickets

TicketInit ==
    /\ shown = None
    /\ failed = FALSE
    /\ beats = {}
    /\ calls = <<>>
    /\ status = [t \in Tickets |-> "open"]
    /\ held = {}

\* What the backend answers about t now.
Answered(op, t) == [op |-> op, id |-> t, status |-> status[t]]

\* One answer for each member of S, which has at most one.
Each(op, S) == [i \in 1..(IF S = {} THEN 0 ELSE 1) |-> Answered(op, CHOOSE t \in S : TRUE)]

\* A timer or a click sends a call.
Send(c) ==
    /\ Len(calls) + 1 < MaxCalls
    /\ calls' = Append(calls, c)
    /\ UNCHANGED <<shown, failed, beats>>

--------------------------------------------------------------------------------
(* Effects.                                                                *)

\* The tickets to keep locked: that of the address, if the ticket shown, be it
\* another one, is open.
Keep(id, staff, ticket) ==
    {t \in {id} : staff /\ ticket # None /\ ticket.status = "open"}

\* A release sent for each of S arrives, or some do not.
Released(S) == {held \ gone : gone \in SUBSET S}

LockEffect_KeepsTimer(keep, answers) ==
    /\ beats' = beats \cup keep
    /\ \E left \in Released(beats \ keep), granted \in SUBSET (keep \ beats) :
        /\ held' = left \cup granted
        /\ calls' = answers \o Each("lock", granted)

\* The effect of [id, isTechnicianOrAdmin, isOpen]: if one of them changes, the old
\* interval is cleared and its lock released, and the new lock acquired, unless the
\* call is lost or somebody else holds the lock.
LockEffect(keep, answers) ==
    /\ beats' = keep
    /\ \E left \in Released(beats \ keep), granted \in SUBSET (keep \ beats) :
        /\ held' = left \cup granted
        /\ calls' = answers \o Each("lock", granted)

Appears(id) ==
    /\ calls' = <<Answered("get", id)>>
    /\ shown' = None
    /\ failed' = FALSE
    /\ UNCHANGED <<beats, serverState>>

\* The address changes to another ticket.
AnotherTicket(id, staff) ==
    /\ LockEffect(Keep(id, staff, shown), Append(calls, Answered("get", id)))
    /\ Len(calls') <= MaxCalls
    /\ UNCHANGED <<shown, failed, status>>

\* Answers to a component that is gone change nothing.  The cleanup releases the
\* lock, unless the user is gone and the call refused for want of a token, or the
\* whole page.
Disappears(signedIn) ==
    /\ calls' = <<>>
    /\ held' \in Released(IF signedIn THEN beats ELSE {})
    /\ beats' = {}
    /\ shown' = None
    /\ failed' = FALSE
    /\ UNCHANGED status

ReadTicket_OfTheOneShown(id) ==
    /\ Send(Answered("get", IF shown = None THEN id ELSE shown.id))
    /\ UNCHANGED serverState

\* The interval of load, or a notification about the ticket.
ReadTicket(id) ==
    /\ Send(Answered("get", id))
    /\ UNCHANGED serverState

\* The interval of the lock; the refresh of a lock that is not held is refused.
Beat(t) ==
    /\ t \in beats \cap held
    /\ Send(Answered("lock", t))
    /\ UNCHANGED serverState

\* An action on the ticket shown, if it is still open: it is closed, or not.  runAction
\* reads the ticket of the address next.
RunAction(id, staff) ==
    /\ staff /\ ~failed /\ shown # None /\ shown.status = "open"
    /\ status[shown.id] = "open"
    /\ Send([op |-> "act", id |-> id, status |-> "open"])
    /\ \E s \in Statuses : status' = [status EXCEPT ![shown.id] = s]
    /\ UNCHANGED held

--------------------------------------------------------------------------------
(* The backend.                                                            *)

\* Somebody else changes the ticket.
ChangedByOthers(t) ==
    /\ status' = [status EXCEPT ![t] = IF @ = "open" THEN "closed" ELSE "open"]
    /\ UNCHANGED <<held, pageState>>

\* The lock of this tab runs out, or is forced open.
Lapses(t) ==
    /\ t \in held
    /\ held' = held \ {t}
    /\ UNCHANGED <<status, pageState>>

--------------------------------------------------------------------------------
(* Answers arrive, in any order, or do not.                                *)

\* A get, an acquire or a refresh brings the ticket to show.
Delivered(i, id, staff) ==
    /\ IF calls[i].op = "act"
       THEN /\ calls' = Append(RemoveAt(calls, i), Answered("get", calls[i].id))
            /\ UNCHANGED <<shown, beats, held>>
       ELSE /\ shown' = [id |-> calls[i].id, status |-> calls[i].status]
            /\ LockEffect(Keep(id, staff, shown'), RemoveAt(calls, i))
    /\ UNCHANGED <<failed, status>>

\* Only the error of a get shows, for good.
Lost(i) ==
    /\ calls' = RemoveAt(calls, i)
    /\ failed' = (failed \/ calls[i].op = "get")
    /\ UNCHANGED <<shown, beats, serverState>>
================================================================================
