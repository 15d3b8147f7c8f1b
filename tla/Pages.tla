---------------------------------- MODULE Pages ----------------------------------
(***************************************************************************)
(* What the components of the tab have in common: each reads from the      *)
(* server when it is mounted and again when its filters, its page or a     *)
(* timer say so, shows the rows of whichever answer arrives last, and      *)
(* sends writes, after which it may read again.                            *)
(*                                                                         *)
(* A component is described by a record, and one component of the tab is   *)
(* watched: components share nothing but the server.  The reads that one   *)
(* of them sends together (Promise.all) count as one, and so do its        *)
(* filters.  Rows are abstracted to the query they answer and to how much  *)
(* of what happened on the server they show.                               *)
(***************************************************************************)
EXTENDS Naturals, Sequences, SequencesExt

CONSTANT MaxNet  \* bound on the requests of the watched component in flight

ASSUME PagesAssumption == MaxNet \in Nat

VARIABLES
    watched,  \* the component watched
    mounted,  \* is it on the screen; for TimelinePage, is its event log
    query,    \* its filters and page
    rows,     \* what it shows
    loading,  \* does a spinner stand in for the rows
    net       \* its requests in flight, in the order they were sent

viewVars == <<mounted, query, rows, loading>>
pageVars == <<watched, viewVars, net>>

\* What a write of a component makes it do once answered:
\*   reload  read again, with the filters and page of when it was clicked
\*   show    show the answer
\*   stay    nothing
\*   go      navigate
\* guarded: the button is disabled until the handler ends.  Writes of a component
\* that agree in both count as one.
Write(guarded, then) ==
    [op |-> IF guarded THEN "form" ELSE "click", guarded |-> guarded, then |-> then]

\* A component that reads once, when it is mounted.
\*   refine, turn, search  it has filters, a pager, a search button
\*   poll, told            it reads again on a timer, when something outside changes
\*   spin                  when the spinner shows: "never"; until the "first" answer; from
\*                         "each" read on until an answer; "each-or-all" too, and it
\*                         is all of the page while there are no rows
Once == [reads |-> TRUE, refine |-> FALSE, turn |-> FALSE, search |-> FALSE,
         poll |-> FALSE, told |-> FALSE, spin |-> "first", writes |-> {}]

\* A component that only writes.
Form(w) == [Once EXCEPT !.reads = FALSE, !.spin = "never", !.writes = {w}]

--------------------------------------------------------------------------------
(* The components.                                                         *)

TicketListPage == [Once EXCEPT !.refine = TRUE, !.spin = "each-or-all"]

QueuePage == [Once EXCEPT !.refine = TRUE, !.poll = TRUE, !.spin = "each-or-all"]

MyEscalationsPage == Once

KanbanPage == [Once EXCEPT !.poll = TRUE]

MonitorPage == [Once EXCEPT !.poll = TRUE, !.writes = {Write(FALSE, "reload")}]

\* The raw event log of TimelinePage, on the screen while its mode says so.
TimelinePage == [Once EXCEPT !.poll = TRUE]

\* The filters stand for the week shown, too.
TimelineCalendar == [Once EXCEPT !.refine = TRUE, !.spin = "each"]

AllTicketsPage == [Once EXCEPT !.refine = TRUE, !.turn = TRUE, !.search = TRUE, !.spin = "each"]

UsersPage ==
    [Once EXCEPT !.refine = TRUE, !.turn = TRUE, !.search = TRUE,
                 !.writes = {Write(FALSE, "reload"), Write(TRUE, "reload")}]

\* Create and delete.
TagsPage == [Once EXCEPT !.writes = {Write(FALSE, "reload")}]

AdminCsatPage == [Once EXCEPT !.refine = TRUE, !.turn = TRUE, !.spin = "each"]

MyCsatPage == [Once EXCEPT !.refine = TRUE, !.turn = TRUE, !.spin = "each"]

\* The ticket is its filter: the component stays when the address gets another one.
CsatPage == [Once EXCEPT !.refine = TRUE, !.writes = {Write(TRUE, "show")}]

\* Its sections are saved one by one; one section is watched.
ConfigPage == [Once EXCEPT !.writes = {Write(FALSE, "show")}]

\* Composer sends a text on Enter even while it is sending one.
Composer == Write(FALSE, "reload")

AttachmentUploader == Write(TRUE, "reload")

\* Edit and delete.
MessageBubble == Write(FALSE, "reload")

\* The ticket is its filter, as for CsatPage.
ChatRoom ==
    [Once EXCEPT !.refine = TRUE, !.told = TRUE,
                 !.writes = {Composer, AttachmentUploader, MessageBubble}]

\* The badge of the navigation bar, read again for every new user object.
AppShell == [Once EXCEPT !.poll = TRUE, !.told = TRUE, !.spin = "never"]

NewTicketPage == Form(Write(TRUE, "go"))

RegisterPage == Form(Write(TRUE, "go"))

NotificationBell == Form(Write(FALSE, "go"))

AccountSettingsPage == Form(Write(FALSE, "stay"))

\* Its reads and writes are in TicketPage.
TicketDetailPage == [Once EXCEPT !.reads = FALSE, !.spin = "never"]

Catalog == [
    TicketListPage |-> TicketListPage, QueuePage |-> QueuePage,
    MyEscalationsPage |-> MyEscalationsPage, KanbanPage |-> KanbanPage,
    MonitorPage |-> MonitorPage, TimelinePage |-> TimelinePage,
    TimelineCalendar |-> TimelineCalendar, AllTicketsPage |-> AllTicketsPage,
    UsersPage |-> UsersPage, TagsPage |-> TagsPage, AdminCsatPage |-> AdminCsatPage,
    MyCsatPage |-> MyCsatPage, CsatPage |-> CsatPage, ConfigPage |-> ConfigPage,
    ChatRoom |-> ChatRoom, AppShell |-> AppShell, NewTicketPage |-> NewTicketPage,
    RegisterPage |-> RegisterPage, NotificationBell |-> NotificationBell,
    AccountSettingsPage |-> AccountSettingsPage, TicketDetailPage |-> TicketDetailPage]

--------------------------------------------------------------------------------
(* State.                                                                  *)

C == Catalog[watched]

\* TimelinePage stays while its event log is off the screen, with the events it has and
\* the reads that are on their way.
KeepsRows == watched = "TimelinePage"

Queries == [filter : {0, 1}, page : {1, 2}]

First == [filter |-> 0, page |-> 1]

\* How much of what was done on the server is shown: all of it; not what others did
\* since (kept for the components with a timer); or not even all that this component
\* did.
Sights == {"all", "others-missed", "own-missed"}

\* Why rows may differ from what the controls say: nothing; a later answer came
\* first; the read used the controls of an earlier moment; an answer got lost.
Slips == {"none", "overtaken", "old-controls", "lost"}

\* "reread" is a read that a guarded handler awaits.
ReadOps == {"read", "reread"}

\* A write of a component that is gone, and that navigates when it is answered.
Ops == ReadOps \cup {"form", "click", "orphan"}

Requests == [op : Ops, query : Queries, sees : Sights \cup {"unanswered"}, slip : Slips]

NoQuery == [filter |-> 0, page |-> 0]

Blank == [query |-> NoQuery, sees |-> "all", slip |-> "none"]

PagesTypeOK ==
    /\ mounted \in BOOLEAN
    /\ query \in Queries
    /\ rows \in [query : Queries \cup {NoQuery}, sees : Sights, slip : Slips]
    /\ loading \in BOOLEAN
    /\ net \in Seq(Requests) /\ Len(net) <= MaxNet

PagesInit ==
    /\ watched \in DOMAIN Catalog
    /\ mounted = FALSE
    /\ query = First
    /\ rows = Blank
    /\ loading = FALSE
    /\ net = <<>>

Reads == {i \in DOMAIN net : net[i].op \in ReadOps}

WriteOf(op) == CHOOSE w \in C.writes : w.op = op

Navigates(op) == op = "orphan" \/ \E w \in C.writes : w.op = op /\ w.then = "go"

Request(op, q) == [op |-> op, query |-> q, sees |-> "unanswered", slip |-> "none"]

SpinsAgain == C.spin \in {"each", "each-or-all"}

\* load(): one read for each query of qs.
Load(qs) ==
    /\ Len(net) + Len(qs) <= MaxNet
    /\ net' = net \o [i \in DOMAIN qs |-> Request("read", qs[i])]
    /\ loading' = (loading \/ SpinsAgain)

--------------------------------------------------------------------------------
(* On the screen and off it.                                               *)

\* Mounted, with the state of a new component unless it has kept it; its effects send
\* the first read.
Appear ==
    /\ ~mounted
    /\ mounted' = TRUE
    /\ query' = First
    /\ rows' = IF KeepsRows THEN rows ELSE Blank
    /\ IF C.reads
       THEN /\ Len(net) < MaxNet
            /\ net' = Append(net, Request("read", First))
       ELSE UNCHANGED net
    /\ loading' = (C.spin # "never")
    /\ UNCHANGED watched

\* A write that navigates does so even after its component is gone, and a component
\* with such a write sends nothing else; other answers change nothing any more.
Orphaned ==
    IF \E w \in C.writes : w.then = "go"
    THEN [i \in DOMAIN net |-> [net[i] EXCEPT !.op = "orphan"]]
    ELSE <<>>

Disappear ==
    /\ mounted' = FALSE
    /\ query' = First
    /\ rows' = Blank
    /\ loading' = FALSE
    /\ net' = Orphaned
    /\ UNCHANGED watched

\* Off the screen, and its timer stopped, but not gone.
StepBack ==
    /\ KeepsRows
    /\ mounted
    /\ mounted' = FALSE
    /\ UNCHANGED <<watched, query, rows, loading, net>>

--------------------------------------------------------------------------------
(* What makes a component read.                                            *)

\* The controls are on the screen, and not behind a spinner.
Usable ==
    /\ mounted
    /\ loading => C.spin = "each" \/ (C.spin = "each-or-all" /\ rows.query # NoQuery)

\* A pager shows with the rows only.
Pager == Usable /\ C.turn /\ ~loading /\ rows.query # NoQuery

RefineRows_ReadsOnce ==
    /\ Usable
    /\ C.refine
    /\ query' = [filter |-> 1 - query.filter, page |-> 1]
    /\ Load(<<[query EXCEPT !.filter = 1 - @]>>)
    /\ UNCHANGED <<watched, mounted, rows>>

\* A filter is changed: the effect reads, and a second one goes back to page 1,
\* which reads again if that is another page.
RefineRows ==
    /\ Usable
    /\ C.refine
    /\ query' = [filter |-> 1 - query.filter, page |-> 1]
    /\ LET early == [query EXCEPT !.filter = 1 - @]
       IN  Load(IF early = query' THEN <<query'>> ELSE <<early, query'>>)
    /\ UNCHANGED <<watched, mounted, rows>>

TurnPage_PastEnd ==
    /\ Pager
    /\ query' = [query EXCEPT !.page = @ + 1]
    /\ Load(<<query'>>)
    /\ UNCHANGED <<watched, mounted, rows>>

\* onPageChange of the pager.
TurnPage ==
    /\ Pager
    /\ query' = [query EXCEPT !.page = 3 - @]
    /\ Load(<<query'>>)
    /\ UNCHANGED <<watched, mounted, rows>>

\* setPage(1); load(): this load still has the page of before.
SearchRows ==
    /\ Usable
    /\ C.search
    /\ query' = [query EXCEPT !.page = 1]
    /\ Load(IF query' = query THEN <<query>> ELSE <<query, query'>>)
    /\ UNCHANGED <<watched, mounted, rows>>

ReadAgain ==
    /\ Load(<<query>>)
    /\ UNCHANGED <<watched, mounted, query, rows>>

PollTick_OldClosure ==
    /\ mounted /\ C.poll
    /\ Load(<<First>>)
    /\ UNCHANGED <<watched, mounted, query, rows>>

PollTick == mounted /\ C.poll /\ ReadAgain

\* A notification arrived, or there is a new user object.
Told == mounted /\ C.told /\ ReadAgain

--------------------------------------------------------------------------------
(* Writes.                                                                 *)

\* The handler of w runs: its call is in flight, or the read it awaits.
Handling(w) ==
    \E i \in DOMAIN net : net[i].op = w.op \/ (w.then = "reload" /\ net[i].op = "reread")

Submit(w) ==
    /\ Usable
    /\ w.guarded => ~Handling(w)
    /\ Len(net) < MaxNet
    /\ net' = Append(net, Request(w.op, query))
    /\ UNCHANGED <<watched, viewVars>>

--------------------------------------------------------------------------------
(* The server.                                                             *)

Missing(sight, loss) ==
    IF sight = "unanswered" \/ sight = "own-missed" THEN sight ELSE loss

\* The rows and the answers on their way miss what happens now.
RowsMiss(loss) == [rows EXCEPT !.sees = Missing(@, loss)]

NetMisses(loss) == [i \in DOMAIN net |-> [net[i] EXCEPT !.sees = Missing(@, loss)]]

\* Request r, which another has passed if this one was handled or shown already.
Passed(r, sure) ==
    IF sure /\ r.sees # "unanswered" THEN [r EXCEPT !.slip = "overtaken"] ELSE r

\* Request i is handled; a write makes the rest miss it.
Answer(i) ==
    /\ net[i].sees = "unanswered"
    /\ IF net[i].op \in ReadOps
       THEN /\ net' = [net EXCEPT ![i].sees = "all"]
            /\ UNCHANGED rows
       ELSE /\ net' = [j \in DOMAIN net |->
                         IF j = i THEN [net[i] EXCEPT !.sees = "all"]
                         ELSE Passed(NetMisses("own-missed")[j], j > i)]
            /\ rows' = RowsMiss("own-missed")
    /\ UNCHANGED <<watched, mounted, query, loading>>

OthersWrite ==
    /\ C.poll
    /\ mounted \/ KeepsRows
    /\ net' = NetMisses("others-missed")
    /\ rows' = RowsMiss("others-missed")
    /\ UNCHANGED <<watched, mounted, query, loading>>

--------------------------------------------------------------------------------
(* Answers arrive, in any order, or do not.                                *)

\* The requests left when i has ended; those sent before it are overtaken.
Rest(i) ==
    RemoveAt([j \in DOMAIN net |-> IF j < i THEN [net[j] EXCEPT !.slip = "overtaken"]
                                   ELSE net[j]], i)

Shown(r) == [query |-> r.query, sees |-> r.sees, slip |-> r.slip]

ReadAnswered(i) ==
    /\ net[i].op \in ReadOps
    /\ net[i].sees # "unanswered"
    /\ rows' = Shown(net[i])
    /\ loading' = FALSE
    /\ net' = Rest(i)
    /\ UNCHANGED <<watched, mounted, query>>

ReadFails_KeepsSpinning(i) ==
    /\ net[i].op \in ReadOps
    /\ rows' = [rows EXCEPT !.slip = "lost"]
    /\ net' = Rest(i)
    /\ UNCHANGED <<watched, mounted, query, loading>>

\* The rows stay; the spinner goes, whatever the error.
ReadFails(i) ==
    /\ net[i].op \in ReadOps
    /\ rows' = [rows EXCEPT !.slip = "lost"]
    /\ loading' = FALSE
    /\ net' = Rest(i)
    /\ UNCHANGED <<watched, mounted, query>>

\* An answer to the controls of an earlier moment.
Late(r) == [r EXCEPT !.slip = IF r.query = query THEN @ ELSE "old-controls"]

\* await load(), with the closure of the click.
ThenReload(w, i) ==
    LET r == Request(IF w.guarded THEN "reread" ELSE "read", net[i].query)
    IN  /\ net' = Append(RemoveAt(net, i), Late(r))
        /\ loading' = (loading \/ SpinsAgain)
        /\ UNCHANGED rows

\* A write that does not navigate is answered.
WriteAnswered(i) ==
    /\ net[i].op \notin ReadOps \cup {"orphan"}
    /\ net[i].sees # "unanswered"
    /\ LET w == WriteOf(net[i].op)
       IN  \/ w.then = "reload" /\ ThenReload(w, i)
           \/ /\ w.then = "show"
              /\ rows' = Late(Shown(net[i]))
              /\ net' = Rest(i)
              /\ UNCHANGED loading
           \/ /\ w.then = "stay"
              /\ net' = RemoveAt(net, i)
              /\ UNCHANGED <<rows, loading>>
    /\ UNCHANGED <<watched, mounted, query>>

\* A write that navigates is answered; Frontend says where it goes.
Goes(i) ==
    /\ Navigates(net[i].op)
    /\ net[i].sees # "unanswered"

\* If the server did the write i, nobody tells whoever misses it.
Slipped(r, i) ==
    IF net[i].sees # "unanswered" /\ r.sees = "own-missed" THEN [r EXCEPT !.slip = "lost"]
    ELSE r

\* The error is shown or dropped, and nothing is read again, whether the server
\* did the write or not.
WriteFails(i) ==
    /\ net[i].op \notin ReadOps
    /\ rows' = Slipped(rows, i)
    /\ net' = RemoveAt([j \in DOMAIN net |-> Slipped(net[j], i)], i)
    /\ UNCHANGED <<watched, mounted, query, loading>>
================================================================================
