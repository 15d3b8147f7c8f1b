--------------------------------- MODULE Routes ---------------------------------
(***************************************************************************)
(* Where a tab is: the route table of App.tsx, the redirects of            *)
(* ProtectedRoute and HomeRedirect, and the links that the navigation bar  *)
(* and the pages offer to each role.                                       *)
(*                                                                         *)
(* A place is a route and, for the routes that have one, a ticket id.      *)
(***************************************************************************)
CONSTANTS
    Tickets,  \* ids of tickets
    Roles,    \* the roles of those who use the tab
    None

Technicians == {"technician_human", "technician_virtual"}

ASSUME RoutesAssumption ==
    /\ Roles \subseteq Technicians \cup {"employee", "admin"}
    /\ None \notin Tickets /\ Tickets # {}

VARIABLES
    session,  \* is the user known yet, is there one, and with which role
    place     \* the location of the browser

routeVars == <<session, place>>

Sessions == {"loading", "nobody"} \cup Roles

Public == Sessions

\* Route, page, and the sessions that see the page.
RouteTable == {
    <<"/login", "LoginPage", Public>>,
    <<"/register", "RegisterPage", Public>>,
    <<"/pending", "PendingActivationPage", Public>>,
    <<"/", "HomeRedirect", Roles>>,
    <<"/tickets", "TicketListPage", {"employee"}>>,
    <<"/tickets/new", "NewTicketPage", {"employee"}>>,
    <<"/tickets/:id", "TicketDetailPage", Roles>>,
    <<"/csat/:id", "CsatPage", {"employee"}>>,
    <<"/csat", "MyCsatPage", {"employee"}>>,
    <<"/queue", "QueuePage", Technicians>>,
    <<"/my-escalations", "MyEscalationsPage", Technicians>>,
    <<"/settings", "AccountSettingsPage", Roles>>,
    <<"/admin/kanban", "KanbanPage", {"admin"}>>,
    <<"/admin/timeline", "TimelinePage", {"admin"}>>,
    <<"/admin/tickets", "AllTicketsPage", {"admin"}>>,
    <<"/admin/tickets/new", "NewTicketPage", {"admin"}>>,
    <<"/admin/users", "UsersPage", {"admin"}>>,
    <<"/admin/tags", "TagsPage", {"admin"}>>,
    <<"/admin/monitor", "MonitorPage", {"admin"}>>,
    <<"/admin/config", "ConfigPage", {"admin"}>>,
    <<"/admin/csat", "AdminCsatPage", {"admin"}>>,
    <<"*", "Navigate", Public>>}

Entry(route) == CHOOSE e \in RouteTable : e[1] = route

Page(p) == Entry(p.route)[2]

Allowed(p) == Entry(p.route)[3]

At(route) == [route |-> route, id |-> None]

TicketAt(t) == [route |-> "/tickets/:id", id |-> t]

CsatAt(t) == [route |-> "/csat/:id", id |-> t]

WithId == {"/tickets/:id", "/csat/:id"}

Places == {At(e[1]) : e \in {r \in RouteTable : r[1] \notin WithId}}
          \cup {TicketAt(t) : t \in Tickets} \cup {CsatAt(t) : t \in Tickets}

RoutesTypeOK ==
    /\ session \in Sessions
    /\ place \in Places

RoutesInit ==
    /\ session = "loading"
    /\ place \in Places

--------------------------------------------------------------------------------
(* Redirects.                                                              *)

HomeOf_Swapped(role) ==
    IF role = "employee" THEN "/queue"
    ELSE IF role \in Technicians THEN "/tickets"
    ELSE "/admin/monitor"

\* HomeRedirect
HomeOf(role) ==
    IF role = "employee" THEN "/tickets"
    ELSE IF role \in Technicians THEN "/queue"
    ELSE "/admin/monitor"

\* Inside the shell, whatever the page: every place that is not public.
Protected(p) == Allowed(p) # Public

\* Where the page at p sends a session on to; p itself if it shows something.
Onward(s, p) ==
    IF p.route = "*" THEN At("/")
    ELSE IF ~Protected(p) \/ s = "loading" THEN p
    ELSE IF s = "nobody" THEN At("/login")
    ELSE IF s \notin Allowed(p) THEN At("/")
    ELSE IF p.route = "/" THEN At(HomeOf(s))
    ELSE p

Redirecting == Onward(session, place) # place

Redirect ==
    /\ Redirecting
    /\ place' = Onward(session, place)
    /\ UNCHANGED session

--------------------------------------------------------------------------------
(* Links.                                                                  *)

\* The navigation bar of AppShell.
NavItems(role) ==
    {At("/settings")} \cup
    {At(r) : r \in
        IF role = "employee" THEN {"/tickets", "/tickets/new", "/csat"}
        ELSE IF role \in Technicians THEN {"/queue", "/my-escalations"}
        ELSE {"/admin/monitor", "/admin/kanban", "/admin/timeline", "/admin/tickets",
              "/admin/tickets/new", "/admin/users", "/admin/tags", "/admin/csat",
              "/admin/config"}}

\* Pages with rows that lead to tickets.
TicketTables == {"TicketListPage", "QueuePage", "MyEscalationsPage", "KanbanPage",
                 "TimelinePage", "AllTicketsPage", "AdminCsatPage", "MyCsatPage"}

NewTicketLink == At("/tickets/new")

\* Login itself leads to /pending if the account waits for an admin.
LoginLinks == {At("/register"), At("/pending")}

RegisterLinks == {At("/login")}

PendingLinks == {At("/login")}

SurveyLinks_ForAll(role, id) == {CsatAt(id)}

\* The employee rates a resolved ticket.
SurveyLinks(role, id) == {p \in {CsatAt(id)} : role = "employee"}

BackToTicket(id) == {TicketAt(id)}

\* The links of a page itself.
PageLinks(page, role, id) ==
    IF page \in TicketTables
    THEN {TicketAt(t) : t \in Tickets} \cup {p \in {NewTicketLink} : page = "TicketListPage"}
    ELSE IF page = "LoginPage" THEN LoginLinks
    ELSE IF page = "RegisterPage" THEN RegisterLinks
    ELSE IF page = "PendingActivationPage" THEN PendingLinks
    ELSE IF page = "TicketDetailPage" THEN SurveyLinks(role, id)
    ELSE IF page = "CsatPage" THEN BackToTicket(id)
    ELSE {}

\* What there is to click in the place p; nothing while the user is not known.
Links(s, p) ==
    IF ~Protected(p) THEN PageLinks(Page(p), s, p.id)
    ELSE IF s \in Allowed(p) THEN NavItems(s) \cup PageLinks(Page(p), s, p.id)
    ELSE {}

Follow ==
    /\ ~Redirecting
    /\ place' \in Links(session, place)
    /\ UNCHANGED session

\* navigate(p), called by a handler when its call is answered, wherever the tab
\* is by then; also back and forward.
GoTo(p) ==
    /\ place' = p
    /\ UNCHANGED session


--------------------------------------------------------------------------------
(* The session, as the pages see it.                                       *)

\* The page is loaded again.
Reloaded ==
    /\ session' = "loading"
    /\ UNCHANGED place

\* refreshUser has asked who is signed in.
Known(s) ==
    /\ session = "loading"
    /\ s # "loading"
    /\ session' = s
    /\ UNCHANGED place

\* login, then navigate("/"): wherever the tab is by the time it is answered.
SignedIn(role) ==
    /\ session # "loading"
    /\ session' = role
    /\ place' = At("/")

\* The user is gone: refreshUser without a token, or its /auth/me fails.
SignedOff ==
    /\ session \in Roles
    /\ session' = "nobody"
    /\ UNCHANGED place

\* handleLogout: logout, then navigate("/login"), wherever the tab is by then.
LoggedOut ==
    /\ session \in Roles
    /\ session' = "nobody"
    /\ place' = At("/login")
================================================================================
