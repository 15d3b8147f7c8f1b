-------------------------------- MODULE Frontend --------------------------------
(***************************************************************************)
(* The pages of one browser tab: where the tab is decides which components *)
(* are on the screen; leaving a place takes them off it with their calls   *)
(* still in flight, and answered calls move the tab.  One component is     *)
(* watched in each behaviour, any of them.                                 *)
(***************************************************************************)
EXTENDS Routes, Pages, TicketPage

VARIABLE calm  \* from now on nobody does anything and nothing goes wrong

vars == <<routeVars, pageVars, ticketVars, calm>>

Init == RoutesInit /\ PagesInit /\ TicketInit /\ calm = FALSE

--------------------------------------------------------------------------------
(* What is on the screen.                                                  *)

\* The components inside the shell stay while the page inside it is redirected.
ShellParts == {"AppShell", "NotificationBell"}

\* Those that a page shows some time after it is there itself.
Inside(page) ==
    IF page = "TimelinePage" THEN {"TimelinePage", "TimelineCalendar"}
    ELSE IF page = "TicketDetailPage" THEN {"TicketDetailPage", "ChatRoom"}
    ELSE {page}

OnScreen == [s \in Sessions |-> [p \in Places |->
    (IF Protected(p) /\ s \in Roles THEN ShellParts ELSE {})
    \cup (IF Onward(s, p) = p /\ (s # "loading" \/ ~Protected(p)) THEN Inside(Page(p)) ELSE {})]]

\* The places with a component.
PlacesOf == [c \in DOMAIN Catalog |-> {p \in Places : \E s \in Sessions : c \in OnScreen[s][p]}]

OnTicket == watched = "TicketDetailPage" /\ mounted

Staff(s) == s \in Technicians \cup {"admin"}

\* What a step to another place or session does to the watched component.
Rerender ==
    IF watched \in OnScreen[session'][place']
    THEN /\ UNCHANGED pageVars
         /\ IF OnTicket /\ place'.id # place.id
            THEN AnotherTicket(place'.id, Staff(session'))
            ELSE UNCHANGED ticketVars
    ELSE /\ Disappear
         /\ IF OnTicket THEN Disappears(session' # "nobody") ELSE UNCHANGED ticketVars

--------------------------------------------------------------------------------
(* Steps of the tab to another place, or of its session.                   *)

FollowLink == Follow /\ Rerender

\* Back and forward, to a page with the watched component; the home page stands for
\* the others.
GoBack(p) ==
    /\ p # place
    /\ GoTo(p)
    /\ Rerender

Redirected == Redirect /\ Rerender

Login(role) == SignedIn(role) /\ Rerender

Logout == LoggedOut /\ Rerender

UserLost == SignedOff /\ Rerender

UserKnown == \E s \in Sessions : Known(s) /\ Rerender

\* The whole page goes: no cleanup, and no answer reaches it.
Reload ==
    /\ Reloaded
    /\ mounted' = FALSE /\ query' = First /\ rows' = Blank /\ loading' = FALSE
    /\ net' = <<>>
    /\ Disappears(FALSE)
    /\ UNCHANGED watched

\* Where the handlers that navigate go.
Targets ==
    IF watched = "RegisterPage" THEN {At("/pending")} ELSE {TicketAt(t) : t \in Tickets}

\* The answer of a call that navigates arrives.  Its component, if it is still
\* there, may go with the place it was at.
Gone(i) ==
    /\ Goes(i)
    /\ \E p \in Targets :
        /\ GoTo(p)
        /\ mounted' = (mounted /\ watched \in OnScreen[session][p])
        /\ net' = RemoveAt(IF mounted /\ ~mounted' THEN Orphaned ELSE net, i)
    /\ UNCHANGED <<watched, query, rows, loading, ticketVars>>

--------------------------------------------------------------------------------
(* Steps of the watched component.                                         *)

Enter ==
    /\ watched \in OnScreen[session][place]
    /\ Appear
    /\ IF watched = "TicketDetailPage" THEN Appears(place.id) ELSE UNCHANGED ticketVars
    /\ UNCHANGED routeVars

Mount == ~KeepsRows /\ Enter

\* "Raw Event Log": TimelinePage comes with its calendar.
ShowEvents == KeepsRows /\ Enter

\* The mode of the timeline is switched; the chat goes with the error of its page.
Hide ==
    /\ \/ StepBack
       \/ watched \in {"TimelineCalendar", "ChatRoom"} /\ mounted /\ Disappear
    /\ UNCHANGED <<routeVars, ticketVars>>

OnPage(A) == A /\ UNCHANGED <<routeVars, ticketVars>>

ClickControl == OnPage(RefineRows \/ TurnPage \/ SearchRows)

ClickWrite == OnPage(\E w \in C.writes : Submit(w))

Poll == OnPage(PollTick)

Tell == OnPage(Told)

ServerAnswers(i) == OnPage(Answer(i))

ServerChanges == OnPage(OthersWrite)

Arrives(i) == OnPage(ReadAnswered(i) \/ WriteAnswered(i)) \/ Gone(i)

Fails(i) == OnPage(ReadFails(i) \/ WriteFails(i))

OnTicketPage(A) == A /\ UNCHANGED <<routeVars, pageVars>>

ReadTicketAgain == OnTicket /\ OnTicketPage(ReadTicket(place.id))

KeepLock == OnTicketPage(\E t \in beats : Beat(t))

ClickAction == OnTicket /\ OnTicketPage(RunAction(place.id, Staff(session)))

CallAnswered(i) == OnTicketPage(Delivered(i, place.id, Staff(session)))

CallFails(i) == OnTicketPage(Lost(i))

TicketChanges == watched = "TicketDetailPage" /\ OnTicketPage(\E t \in Tickets : ChangedByOthers(t))

\* Beats come in time, or they do not.
LockLapses(t) == OnTicketPage(Lapses(t))

--------------------------------------------------------------------------------
(* Specification.                                                          *)

Disturbance ==
    \/ FollowLink
    \/ \E p \in PlacesOf[watched] \cup {At("/")} : GoBack(p)
    \/ \E role \in Roles : Login(role)
    \/ Reload \/ Logout \/ UserLost \/ ShowEvents \/ Hide
    \/ ClickControl \/ ClickWrite \/ Tell \/ ServerChanges
    \/ ClickAction \/ TicketChanges
    \/ \E i \in DOMAIN net : Fails(i)
    \/ \E i \in DOMAIN calls : CallFails(i)
    \/ \E t \in beats : LockLapses(t)

CalmDown == ~calm /\ calm' = TRUE /\ UNCHANGED <<routeVars, pageVars, ticketVars>>

Step ==
    \/ ~calm /\ Disturbance
    \/ Redirected \/ UserKnown \/ Mount \/ Poll \/ ReadTicketAgain \/ KeepLock
    \/ \E i \in DOMAIN net : ServerAnswers(i) \/ Arrives(i)
    \/ \E i \in DOMAIN calls : CallAnswered(i)
    \/ \E t \in Tickets \ beats : LockLapses(t)

Next == (Step /\ UNCHANGED calm) \/ CalmDown

Calmly(A) == calm /\ A /\ UNCHANGED calm

\* The call sent first is answered in the end, if it is not lost; timers go on; a
\* lock that nobody refreshes runs out.  All the properties ask about the time
\* after things have calmed down.
Fairness ==
    /\ WF_vars(Calmly(Redirected)) /\ WF_vars(Calmly(Mount))
    /\ WF_vars(Calmly(Poll)) /\ WF_vars(Calmly(ReadTicketAgain))
    /\ WF_vars(Calmly(net # <<>> /\ ServerAnswers(1)))
    /\ WF_vars(Calmly(net # <<>> /\ Arrives(1)))
    /\ WF_vars(Calmly(calls # <<>> /\ CallAnswered(1)))
    /\ \A t \in Tickets : WF_vars(Calmly(t \notin beats /\ LockLapses(t)))

Spec == Init /\ [][Next]_vars

FairSpec == Spec /\ Fairness

--------------------------------------------------------------------------------
(* Properties.                                                             *)

\* Typing.
TypeOK ==
    RoutesTypeOK /\ PagesTypeOK /\ TicketTypeOK /\ watched \in DOMAIN Catalog

\* Every link and every page that a handler goes to leads where it says: no role is
\* offered a place that sends it somewhere else.
LinksLead ==
    session \in Roles =>
        \A p \in Links(session, place)
                \cup {p \in Targets : ~Redirecting /\ \E i \in DOMAIN net : Goes(i)} :
            Onward(session, p) = p

\* A component with nothing in flight shows the rows of the filters and the page it
\* shows, and what it wrote itself, unless an answer was overtaken or lost, or the
\* page was read again after a write with the controls of when that was clicked.
ShowsWhatItSays ==
    mounted /\ C.reads /\ net = <<>>
        => (rows.query = query /\ rows.sees # "own-missed") \/ rows.slip # "none"

\* A spinner has an answer to wait for.
SpinnerEnds == loading => Reads # {}

\* Once things are calm, the redirects come to an end on a page.
RedirectsEnd == <>[](calm => ~Redirecting)

\* A component with a timer shows its rows as they are on the server, once things
\* are calm, whatever it has missed or mixed up.
PolledCatchesUp ==
    <>[](calm /\ mounted /\ C.poll => rows.query = query /\ rows.sees = "all")

\* So does the ticket page, about the ticket of its address; but one read that fails
\* puts an error in place of the ticket for good.
TicketCatchesUp ==
    <>[](calm /\ OnTicket =>
            failed \/ (shown # None /\ shown = [id |-> place.id, status |-> status[place.id]]))

\* A ticket that the tab has left comes free again.
LeftLockReturns ==
    <>[](calm => \A t \in held : OnTicket /\ place.id = t)
================================================================================
