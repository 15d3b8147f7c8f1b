# Verification of the helpdesk

TLA+ models of the helpdesk / ITSM system of this repository, backend and
frontend, the TLC configurations that check them on small instances, and TLAPS
proofs of the properties that hold for every instance. The code is the reference;
file names below are relative to `src/backend/` unless they start with `src/`.

    tlc -workers 2 -config LifecycleSerial.cfg MCTicketLifecycle.tla
    tlapm TicketLifecycleProofs.tla

## 1. The system

A FastAPI backend keeps tickets in MongoDB, locks and presence in Redis, and
announces every change on a RabbitMQ topic exchange. A React frontend and an
SDK for virtual technicians (bots) are its clients. Several instances of the
backend may share the stores; each runs its own consumers, background loops and
WebSocket registry. Handlers are coroutines: at every `await` on a store or on
the bus, any other handler may run.

| Component | State | Operations | Talks to |
|---|---|---|---|
| tickets (`modules/tickets`) | `db.tickets` | create, assign, unassign, first response, resolve, reject | events, locks (read), calendar |
| requests (`modules/escalation`) | `db.requests`, three fields of the ticket | escalate, request reassignment, approve, reject, return | tickets, presence |
| assignment (`modules/assignment`) | `db.assignment_config` | TICKET_CREATED consumer, sweep of offline technicians' tickets | tickets, presence |
| locks (`modules/locks`) | Redis hashes `lock:{id}` with a TTL | acquire, refresh, release, force-release, janitor | events |
| SLA job (`modules/sla/job.py`) | four flags of the ticket | periodic pass | tickets, events |
| calendar (`common/business_calendar.py`) | one document | `add_business_minutes` | ticket creation |
| event bus (`common/events.py`, `common/event_bus`) | `db.events`, durable queues | emit, publish, subscribe | all |
| notifications (`modules/notifications`) | `db.notifications` | build targets, persist, push, mark dispatched | bus, WebSockets |
| presence (`common/presence.py`) | Redis keys `presence:{id}`, TTL 45 s | touch, mark offline, list | heartbeats, login, sockets |
| WebSocket registry (`common/ws/manager.py`) | dictionaries of one process | connect, disconnect, push, broadcast | notifications, presence janitor |
| background jobs (`modules/jobs/scheduler.py`) | last presence snapshot | four loops | the above |
| messages, CSAT, tags | `db.messages`, `db.csat_surveys`, `db.tags` | send, edit, delete; create, submit; attach, remove | tickets, events |
| accounts (`modules/auth`, `modules/users`) | `db.users` | register, login, refresh, logout, status | presence, events |
| SDK (`src/helpdesk-vtech-sdk`) | tokens, listener | heartbeat, 401 retry, reconnect | backend |
| session of a tab (`src/frontend/src/api/client.ts`, `context/AuthContext.tsx`) | tokens in localStorage, the shared refresh, the user object | login, logout, refresh and retry, heartbeat | backend |
| notification socket of a tab (`context/NotificationContext.tsx`) | the socket, its generation, timers, a banner | connect, reconnect, close on a new user | `gateway/main.py`, presence |
| pages (`App.tsx`, `pages`, `components`) | the place, filters and rows of each component, calls in flight | links, redirects, reads, writes, polling | backend |
| ticket page (`pages/tickets/TicketDetailPage.tsx`) | the ticket shown, the interval of the lock | read, act, acquire, refresh, release | tickets, locks |
| read-only views, seed, gateway | | queries and wiring | |

### What is hard

* **Check, then write.** No update of MongoDB or Redis is conditional on what
  was read. Every handler reads, awaits, and writes from the copy.
* **Two documents, two writes.** A request and its ticket change one after the
  other, an event is published after the change it reports.
* **Time.** Locks and presence end by TTL; the janitor rounds; the SLA job takes
  the time once per pass.
* **Deliveries.** A consumer that fails acknowledges all the same; one that
  crashes is delivered the event again.
* **Several instances** run the same loops at the same time.
* **In the browser**, closures hold the state of the moment they were made in;
  answers come in any order, to a component that has moved on or is gone; close
  events of old sockets run after new sockets were opened.

`PROJECT.json` lists each hazard at its line with the properties that cover it.

### What makes the parts correct

* *tickets*: a ticket leaves `new` for good and is assigned while somebody can
  take it; a resolved one is stamped; a closed one is opened again only where
  the code means to.
* *requests*: one pending request per ticket; flag and saved status of the ticket
  agree with the requests; a review is final.
* *assignment*: no open ticket stays with a technician who is gone.
* *locks*: an exclusive lease that a silent holder loses.
* *SLA*: no false breach, no endless alerts, no overlooked breach; the calendar
  counts business time.
* *notifications*: every target of a delivered event is told; *presence*: a user
  with a live session is online, one without is not, in the end.
* *messages, CSAT, tags*: a deleted message stays deleted; one survey per ticket,
  submitted once; no ticket carries an unregistered tag.
* *session and socket*: one chain of reconnections per tab, none without a user;
  a tab that listens goes on listening; the banner is down while the tab is connected.
* *pages*: links lead where they say; what is shown answers the controls, or an
  answer was overtaken or lost; spinners end; what has a timer catches up.
* *ticket page*: it shows the ticket of its address, and a lock it does not need
  comes free.
* *SDK*: one refresh at a time, a retry that is sent once.

## 2. Modules

| Module | Models | Checked by | Proofs |
|---|---|---|---|
| `TicketLifecycle` | tickets, requests, assignment, sweep | `MCTicketLifecycle` | `TicketLifecycleProofs`, `SerialProofs` |
| `TicketLock` | locks and their janitor | `MCTicketLock` | `TicketLockProofs`, `LeaseProofs` |
| `Lease` | abstract specification of a lock | through `TicketLock` | `LeaseProofs` |
| `SlaChecker` | the SLA job | `MCSlaChecker` | `SlaProofs` |
| `BusinessCalendar` | `add_business_minutes` | `MCBusinessCalendar` | `CalendarProofs` |
| `Session` | tokens, interceptors and user object of a tab | through `Tab` | through `Tab` |
| `Socket` | notification socket of a tab, registries, presence key | through `Tab` | through `Tab` |
| `Tab` | both together, and the backend they talk to | through `TabLive` | `TabProofs` |
| `TabLive` | the same once things are calm: fairness and liveness | `MCTab` | |
| `Routes` | routes, redirects and links | through `Frontend` | through `Frontend` |
| `Pages` | what the components with rows, filters and forms do | through `Frontend` | through `Frontend` |
| `TicketPage` | the ticket page, its calls and its lock | through `Frontend` | through `Frontend` |
| `Frontend` | one component of the pages in its tab | `MCFrontend` | `FrontendProofs` |

### TicketLifecycle

Variables: `tickets` and `requests` (the collections), `created` (deliveries of
TICKET_CREATED that wait in `assignment.queue`), `online` (live presence keys),
`proc` (one record per worker: program point and what the handler has read),
`crashes`. An action is one access to a store, together with the checks and
computations up to the next one; events that no handler of the module consumes
are left out, and so is the lock that `resolve_ticket` reads, whose refusal is a
free choice in `CloseCheck`.

| Handler | Actions |
|---|---|
| `create_ticket` | `CreateTicket`, `EmitCreated` |
| TICKET_CREATED consumer, `assign_ticket_automatically` | `DeliverCreated`, `AssignChoose`, `AssignSet` |
| `reassign_offline_tickets` | `SweepStart`, `SweepScan`, then `SweepNext`, `SweepMove` per ticket |
| `record_first_response` | `RespondRead`, `RespondWrite` |
| `resolve_ticket`, `reject_ticket` | `CloseRead`, `CloseCheck`, `CloseWrite` |
| `_create_request` | `RequestRead`, `RequestInsert`, (`RequestPick`), `RequestMark`, (`RequestApprove`) |
| `approve_request` | `ReviewRead`, `ApproveAssign`, `ApproveClear`, `ReviewStamp` |
| `_finalize_without_reassign` | `ReviewRead`, `FinalizeRead`, `FinalizeWrite`, `ReviewStamp` |
| exception or crash | `Crash`, with and without redelivery |

What a write makes of a document is an operator of its own (`Assigned`,
`Answered`, `ClosedAs`, `Marked`, ...). An operator with a name such as
`Cleared_FlagLeft` is the same with one plausible mistake: the property that
should notice the mistake is checked to be violated with it in place.

The status `escalated` is in the enum and in `src/doc/BAO_CAO_PROJECT.md`, but no
code path sets it: an escalation keeps the status and saves it in
`previous_status`. Likewise `unassign_ticket` leaves the status, so an `assigned`
ticket may have no assignee, where the document draws an arrow back to `new`: run
`unassign_keeps_status` shows it, and `NewIsLeftForGood` proves that the arrow is taken
in no schedule.

### TicketLock and Lease

Time is counted in units; `Ttl` units are `lock_ttl_seconds` and `Half` of them
half a second, the error of Redis's rounded TTL. A key is kept as its owner, the
time left to `expires_at` and the time left to the key (-2 for no key), so that
the states stay finite; `Tick` counts everything down, the `expires_at` that a
handler computed and has not written yet included. Redis drops a key at the end
of its TTL. Acquire, refresh and release are a read action and a write action
each; the janitor asks for TTL, reads and deletes in three. `said` keeps the
last lock event of each ticket.

`Lease` says what a lock promises: at most one holder, a known end, no direct
passage from one to another. `TicketLock!LeaseSpec` maps an active key to a
running lease and anything else (no key, no owner, past `expires_at`) to none.

### SlaChecker

One ticket with its two deadlines, a clock, and one pass per instance. `Start`
takes the time, `Read` gets the document when the cursor reaches it and decides
both checks on that copy, `Flag` and `Emit` do one alert at a time. Between any two
of these steps technicians work on the ticket, several at once. Their handlers,
`record_first_response`, `resolve_ticket` and `reject_ticket`, read the ticket
(`Begin`), take the time (`TakeTime`) and write (`Answer`, `Resolve`, `Reject`), in
three steps: the time stamp may meet the deadline and come to the ticket after it. Of
a stamp the model keeps whether it meets its deadline. `Reopen` is what an assignment
does to a closed ticket.

### BusinessCalendar

One step is one round of the loop of `add_business_minutes`. The reference
definition, `BusinessTime`, counts the units in which the desk is open.

### Session, Socket and Tab

`Session` has the operations of `api/client.ts` and `AuthContext.tsx` on the
tokens (`token`; both tokens are written together), the three calls that matter
to the session (`calls`), the one shared refresh (`refreshing`) and whether there
is a `user`. `Socket` has the tab's end of each WebSocket (`client`), whether it
belongs to the generation of now (`current`), what `wsRef` points at, the pending
reconnect `timers`, the `banner`; the server's end (`server`) and the presence key
(`online`). `Tab` joins each step of the session with what it makes the socket and
the backend do: `setUser` with a new object runs the cleanup and the effect of
`NotificationContext`, a login touches presence, a logout marks the user offline.

| Code | Actions |
|---|---|
| `AuthContext` login, logout, `refreshUser` | `Login`, `Logout`, `LogoutAnswered`, `LogoutLost`, `SaveProfile`, `MeAnswered`, `MeFails` |
| response interceptor | `Denied`, `Refreshed`, `NotRefreshed` |
| heartbeat of `AppShell` | `Heartbeat`, `HeartbeatAnswered`, `HeartbeatLost` |
| `connect`, `onopen`, `onclose`, "Try Again" | `TimerFires`, `Opened`, `Closed`, `BannerShown`, `TryAgain` |
| `ws_endpoint` and `ConnectionManager` | `TokenGood`, `TokenBad`, `Opened`, `ServerSeesClose`, `ServerMarks`, `HandshakeFails` |
| the rest | `Expiry`, `ConnectionBreaks`, `Unreachable`, `Restart`, `Lapse`, `Reload` |

A socket id is used again when both ends have done with it, so two ids are two
sockets that exist at once. The delay of a reconnect is left out: it fires at some
time. Sockets of one user may be on different instances; "is another one
registered here" is therefore free where it could be either (`MayStay`).

`common/presence.py` says that somebody is online who was "heard from within the
TTL"; `gateway/main.py` marks a user offline when the last socket of an instance
closes, whatever was heard. The model does what the code does, and `OnlineAgain`
asks that the heartbeats repair it.

### Routes, Pages, TicketPage and Frontend

`Routes` has the route table of `App.tsx`, the redirects of `ProtectedRoute` and
`HomeRedirect`, and the links of the navigation bar and the pages, as sets of
places. `Pages` describes each of twenty-one components by a record: does it
read, has it filters, a pager, a search button, a timer, when does its spinner
show, which writes does it send, is their button disabled meanwhile, and what
does the answer of each make it do. The actions are those of a component with a
given record. One component is watched in each behaviour, any of them.

Data of the pages is abstracted to what the properties tell apart: a row set is
the query it answers (`query`), how much of what happened on the server it shows
(`sees`) and whether it slipped in some way (`slip`: overtaken by a later answer,
read with old controls, lost). Reads that a component sends together
(`Promise.all`) count as one, and so do its filters; local drafts (the search
text, the fields of a form, the sections of `ConfigPage` beside the one watched)
are left out. What the answer to a read does when its component is gone is nothing, but
for `TimelinePage`: its event log goes off the screen when the mode is switched, while
the page that holds the rows stays, and reads under way still change them
(`KeepsRows`, `StepBack`, `ShowEvents`).

A session ends in two ways: `handleLogout` navigates to `/login` itself
(`LoggedOut`), while a `refreshUser` that finds nobody leaves the place to the
redirects (`SignedOff`).

`TicketPage` has the three kinds of answers the page waits for, the ticket shown,
the interval that refreshes the lock (`beats`), and the backend's tickets and
locks. The component stays mounted when the address gets another ticket id. A call
is handled by the backend when it is sent, its answer arrives later and in any
order; what happens inside a lock call is in `TicketLock`. A lock held by somebody
else is a call that is refused.

Met while modelling: one failed read of the ticket puts the error in place of the
ticket for good, also when the address changes to another ticket (`failed`); the
release sent by the cleanup at a logout may be refused for want of a token, so
that lock waits for its TTL; `Composer` sends on Enter while it is still sending;
a read after a write uses the filters of the click. The properties say so where
they make exceptions.

## 3. Runs

| Run | Question | Bounds |
|---|---|---|
| `lifecycle_serial` | Do ticket and requests agree when handlers do not overlap? | one ticket, two requests, a human and a virtual technician, `MaxInFlight` 1 |
| `lifecycle_concurrent` | What survives handlers that overlap? Is a new ticket assigned, and taken from an offline technician? | one ticket, one request, two humans; an HTTP worker, a consumer and a sweep, all three at once; one crash |
| `lock_concurrent` | What is left of the lock when everything overlaps? | three users, one of them admin, two workers and a janitor |
| `lock_lease` | Does a lock implement a lease when nothing overlaps? Does a silent holder lose it? | two tickets, a technician and an admin, one crash |
| `sla` | False, repeated or missing breaches? | two instances, one technician at a time, one crash |
| `calendar` | Is the due date right? | every calendar of a week of three days of four units, with holidays |
| `frontend_session` | Does a tab keep to one live chain of reconnections, when does it go deaf, is its user online? | two sockets, `MaxCalls` 2 besides the heartbeat |
| `frontend_pages` | Do links, rows, spinners and the ticket page's lock come out right, in any order of clicks and answers? | two tickets, four roles, `MaxNet` 2 and `MaxCalls` 2 |
| `closed_stays_closed`, `one_pending_request`, `unassign_keeps_status`, `lock_conflict` | Statements of the documentation that the code does not keep | as above or smaller |

What they show:

* **`lifecycle_serial`**: one pending request per ticket; `request_pending` and
  `previous_status` of the ticket agree with the requests, where a virtual
  technician's escalation that found no human counts as waiting although its
  request is approved; `in_progress` implies an answer, also when it was
  restored; a review is final; a closed ticket is opened again only by a review
  of a request on it, by a virtual technician's escalation or by the assignment
  of a ticket closed while it had no assignee. These are proved too.
* **`lifecycle_concurrent`**: `new` belongs to nobody, and a resolved ticket is
  stamped, whatever overlaps and also after a crash. These are proved too, for any
  number of handlers of each kind. An open ticket does not stay with a technician who
  is offline for good, also after a crash; a new ticket leaves `new` if
  somebody is always available and no handler is cut short. Without that
  assumption it may not: an event lost to a crash is not repeated, and a ticket
  that found nobody is not tried again.
* **`lock_concurrent`**: the key never dies before the lock in it (also proved),
  and an active lock is lost only to the janitor, its holder, an admin, or a
  handler whose read is older than the holder.
* **`lock_lease`**: serial operations implement `Lease`; the janitor is at most
  half a second early; the last event names the holder (all three proved too); who
  falls silent loses the lock.
* **`sla`**: no breach is flagged when the time stamp was on the ticket before the
  deadline, however stale the pass; an alert is announced at most once per instance
  (both proved too). An overdue ticket does not stay overlooked: it is flagged, stamped
  or closed in the end.
* **`calendar`**: at every round, time passed and time left make up the amount;
  the due date ends an open unit; an ill-formed calendar still only moves
  ahead (all proved too). Deadlock is not checked: the function returns.

* **`frontend_session`**: at most one socket or timer of the generation is there,
  none without a user, and the banner is down while the socket of the generation is
  open; a tab goes deaf, with a user and a token and nothing that will ever connect,
  only at the answer of a refresh that was under way when a logout dropped the tokens
  (all proved too), and in this run it does. Once things are calm a tab with a token gets its
  socket open and keeps it, and the user is online again and again.
* **`frontend_pages`**: no link leads to a place that sends its role elsewhere,
  redirects end; with nothing in flight a component shows the rows of its controls
  and what it wrote, unless an answer was overtaken or lost or was read with old
  controls; a spinner waits for something (all proved too, of the redirects that two
  are enough); what has a timer catches up, the ticket page too unless a read failed;
  a lock left behind comes free.

The runs that end in a violation. Each checks one sentence of the repository; the
"report" is `src/doc/BAO_CAO_PROJECT.md`:

* `closed_stays_closed`: a ticket closed before its TICKET_CREATED is delivered is
  opened again by `set_assignee`; the report says that a terminal state is not
  opened again.
* `one_pending_request`: two requests raised at the same time are both
  inserted; the report promises one, with 409 for the second.
* `unassign_keeps_status`: the sweep takes a ticket from an offline technician and
  leaves it `assigned`; the report draws an arrow to `new`.
* `lock_conflict`: two acquires at the same time both succeed; the report
  promises 409 for the second.

Met while modelling, and left out of the runs:

* The write of a resolve or a reject is as unconditional as that of an acquire: of two
  at the same time both are accepted and the later decides the verdict. A first response
  that read the ticket before it was closed opens it again. Of two reviews at the same
  time the second replaces the first. A handler cut short between a request and the mark
  on its ticket leaves room for a second request.
* A time stamp taken before the deadline and written after it: a pass of the SLA job in
  between flags a breach. `NoFalseBreach` speaks of stamps that are on the ticket in
  time, and cannot say more.
* A ticket that was resolved and opened again keeps its `resolved_at`, so the job passes
  over its resolve deadline.
* The close event of an old socket drops the reference to the current one
  (`NotificationContext.tsx:101`); the next cleanup then leaves that one open, and it
  goes on delivering notifications while a later one fails and the banner says that
  they are unavailable. `BannerDownWhileConnected` speaks of the socket that the tab
  reconnects for.
* The report says that the client does not reconnect a lost socket; it does.

### Why the bounds are enough

Handlers touch one ticket (the sweep several, one after the other), so the
hazards between handlers show on one ticket; `lock_lease` has two because the
janitor goes through a batch. A handler has one stale copy, and a second
handler in flight is what makes it stale; `lifecycle_concurrent` has room for a
third, each of another kind. Two HTTP requests at once are in `one_pending_request`
and in the proofs. Two requests on a ticket are the least that can disagree. `Ttl` = 4 with
`Half` = 2 leaves room for a janitor that is early, on time and late. Symmetry
(interchangeable ids, workers and users) is used in runs that check safety only.
Two sockets are what a new generation needs: the one that closes and the one that
opens. `frontend_session` needs `MaxCalls` 2: a tab goes deaf only when an
`/auth/me`, a logout and a refresh are under way together, and with one call besides
the heartbeat that state is not reached. Calm begins (`CalmDown`) when a user and a
token are there and one call at most is left besides the heartbeat: the liveness
properties ask about tabs that have user and token for good, and calls are answered in
the end. Two requests in flight are the least
that can overtake each other, and two tickets the least an address can change
between. Named bounds: `MaxInFlight`, `MaxCrashes`, `MaxTime`,
`MaxNet`, `MaxCalls`; request and ticket ids are finite sets of ids used at most
once.

Deadlock is checked where the system must go on; it is not in the frontend runs
and the calendar, where everything may have come to rest.

### Fairness

Weak fairness of `Continue`: asyncio runs every ready coroutine, and the stores
answer. Of `DeliverCreated`: the queue is durable and the consumer subscribed.
Of `SweepStart`, `SweepScan` and `Start`: the loops of `modules/jobs/scheduler.py`
log an exception and go on after their sleep. Of `Tick`: time passes. Clients
and users owe nothing: no request, heartbeat or answer is fair, and no handler of a
technician in `SlaChecker`, so that the pass waits for none of them.

In the tab, calls are answered or fail, timers fire and the events of a socket
reach both ends: weak fairness of `CallStep`, `Refreshed`, `TimerFires` and
`SocketStep`, each by itself; the heartbeat is an interval (`AppShell.tsx`). What the
user does, token expiry, failures and the lapse of the presence key are free. The
liveness properties ask about the time after which disturbances have stopped: `TabLive`
and `Frontend` have a flag, `calm`, and ask for fairness once it is set. In `Frontend`
that is fairness of answers (those of the call sent first), timers and TTLs.

## 4. Proofs

`tlapm` checks each module to the last leaf. The assumptions are those named in
the modules (`ConstantsAssumption`): roles and workers are disjoint where they
need to be, `None` is no id, the bounds are naturals.

**`TicketLifecycleProofs`**: `TypeCorrect`, `NewStaysUnassigned`,
`ResolvedStaysStamped` and `NewIsLeftForGood` (no step returns a ticket to `new`,
which the documented state diagram has it do), for any number of tickets,
requests, users, handlers and instances. None of the properties is inductive: a
handler may write back a status it read long ago. `IInv` adds what each program
point still knows about the ticket it read. A status that is saved or restored
was read from an assigned ticket, so it is not `new`; if it is `resolved`, the
ticket is stamped. Such facts stay true because a ticket only *grows*
(`Grows`): it stays in the collection, leaves `new` for good, keeps its stamp.
Each of the operators that a write applies is shown once to make it grow
(`AssignedKept`, `FinalizedKept`, ...), two lemmas lift this to a step
(`ReadKept`, `WriteKept`), and then there is one lemma per action.

**`SerialProofs`**: the six properties of `lifecycle_serial`, from the assumption
`Serial` (`MaxInFlight = 1` and no handler is cut short): `OneRequestAtATime`,
`FlagTellsOfRequests`, `SavedForEscalations`, `InProgressMeansAnswered`,
`VerdictsAreFinal` and `ReopenedOnlyByThese`. Without it they are false
(`one_pending_request`). A handler that is alone finds its ticket and its request
as it read them (`Knows`). A ticket is `Settled` when its flag and its saved status
agree with the requests that wait on it, and a saved terminal status is still its
status; `AllSettled` says so of every ticket but the one on which a handler stands
between the write of the request and that of the ticket, and `Knows` says what
those two look like there. A cardinality argument turns the bound on handlers in
flight into `OthersIdle` when one starts. One lemma per access.

**`TicketLockProofs`**: `LockTypeCorrect` and `KeyOutlivesItsLease`, for every
TTL and any overlap. Each write gives the key at least the time of the lock, and
`Tick` takes the same from both (`HeldOK`, `RefreshedOK`, `OlderOK`); the janitor
needs to be known to hold the ticket it chose.

The second layer of that module (`AllJustified`) keeps, for each write still to
come, what its handler read: an acquire saw the key free or its own, a refresh its
own, a release its own or is an admin's, and only janitors sweep. So when an active lock is lost, the
step is one of those that `LostOnlyBy` names (`LostOnlyByThese`), and when it gets
more time, its holder asked for it, or a refresh read the key before this holder was
in it (`LengthenedOnlyByThese`): nobody else goes on keeping a silent holder's lock.

**`LeaseProofs`**: `LocksAreLeases` (the refinement `LeaseSpec`),
`JanitorIsNotEarly` and `EventsNameTheHolder`, for any TTL and any number of
tickets and users, when operations do not overlap (`MaxInFlight = 1`; otherwise
`lock_conflict` shows the lease broken). Operations may be cut short. Between its
read and its write an operation may find the lock run out, but not taken by
somebody else, and the deadline in its hand has come nearer as fast as the one in
the key, so a write grants or lengthens a lease, or writes a dead key and ends it.

**`CalendarProofs`**: `RoundsAreBounded`, `NoTimeIsLost` and `DueInOpenHours`, for
every length of day and week, every calendar, creation time and amount. A round
starts inside a business window, so the units up to closing are open and are
counted one by one (`PassedAll`), and those from closing to the next opening are
closed (`ClosedUntilNext`), because that opening is on the least business day ahead
(`MinIsLeast`, from the well-foundedness of the naturals). Sane calendars are those
that open before they close and have a business day within the reach of
`_next_business_day_start`; for the others only the bounds on the rounds hold.

**`SlaProofs`**: `SlaTypeCorrect`, `NobodyBlamed` (`NoFalseBreach`) and
`AlertsStop` (`AlertsBounded`), for any number of instances, crashes and
reopenings, and of technicians whose time stamp is taken in one step and written in
another. A pass that is about to flag a breach began after the deadline. If the stamp
is on the ticket before the deadline, every later pass reads it there, for a stamp is
replaced but never taken away, and the passes under way began before the deadline and
have no breach in hand (`Safe`). Nothing follows about a stamp that is written after
the deadline. Each
instance contributes at most one announcement of an alert: an announcement in hand
was decided on a copy without the flag, and the flag is set before anything is
announced, so that those in hand and those announced together never exceed the
instances that have not yet looked (a cardinality argument over the set of
passes). Two theorems are what `OverdueIsFlagged` rests on besides fairness: a pass
that starts when a deadline is over stays `Bound` to flag the breach until that is done
or there is no need any more (`DutyIsDoneAlways`), and its accesses become fewer
(`PassesEndAlways`).

**`TabProofs`**: `TabTypeCorrect`, `OneChainAlways`, `SignedOutIsQuiet`,
`BannerIsRight` and `HearsOnAlways`, for any number of sockets and calls. The
invariant: either one timer or one socket belongs to the generation of now, or
neither; without a user, neither; the banner's timer does not run while the socket
of the generation is open. `BannerIsRight` is about that socket; sockets that an
earlier generation left open are not in the invariant. Each step is also shown to leave no tab deaf that was not, but for the
answer of a refresh that finds the token dropped (`HearsOn`). Each operator of `Socket` is shown once to keep it, and
then each action of `Tab`.

**`FrontendProofs`**: `TypesHold` (`TypeOK`), `LinksLeadAlways`,
`ShowsWhatItSaysAlways`, `SpinnersEnd` and `RedirectsSettle`, for any tickets, any of
the four roles, every component of the catalog, and any number of requests
(`PagesAssumption`) and calls (`TicketPageAssumption`) under way. Three invariants,
one built on the other:

* `PagesInv`: types, and who sent what is in flight. A component that reads has no
  write that navigates, and the other way round (`Kinds`, a case analysis of the
  catalog; it is also why `Orphaned` may keep the whole queue of a form that navigates
  and nothing of any other). A spinner goes with the first answer to a read, whichever
  it is, and comes with a read, so it has one to wait for.
* `ShowInv`: `ShowsWhatItSays` speaks of the moment when nothing is in flight, and
  what makes it true is a statement about the queue at every moment. The rows, or an
  answer on its way, may miss a write of the component, or answer controls of before,
  and not say so; then a request behind them in the queue sets that right: a read, or
  a write that the server has done and whose handler reads again or shows its answer.
  Requests end in any order, so each step that takes one out of the queue has to show
  that those before it are marked as overtaken and those behind it still mend what
  they mended (`RestOf`, `Renumbered`).
* `TabInv`: the place is one of the table, a component on the screen is one that its
  place shows, calls are under way only while the ticket page is on the screen, and
  the timer refreshes the lock of no ticket but the one of the address.

Links are followed through the table (`WhoSees`, `NavItemsLead`, `PageLinksLead`):
a link is offered on a page that its reader may see, and leads to a page with readers
enough. `RedirectsSettle` says that two redirects at most end on a page, and
`TakesOnlyItsOwnAlways` that an answer about the ticket of before takes no lock.

Only model-checked: liveness (fairness and ENABLED are beyond the prover), which is
`OfflineLosesTicket`, `NewIsAssigned`, `SilentHolderLoses`, `OverdueIsFlagged`,
`Reconnects`, `OnlineAgain`, `RedirectsEnd`, `PolledCatchesUp`, `TicketCatchesUp` and
`LeftLockReturns`. Every invariant and action property of the runs that pass is
proved, and so is `NoFalseBreach`.

## 5. Not modelled, and next

Left out for good: texts and layout, the vendored widgets of `components/ui`, the
build plugins, rendering, read-only views and dashboards (they change nothing),
password hashing and token encoding (libraries), seed data, uploads.

Not modelled yet, with what makes them worth it:

1. Delivery of events and notifications: an exception that acknowledges, a crash
   that redelivers (those already notified are notified twice), consumers that are
   subscribed before Redis is ready (`gateway/main.py`), the push that reaches only
   sockets of the instance that consumed the event, publication after the flag of
   the SLA job. Abstract specification: every target of a published event is
   notified at least once. The TICKET_CREATED consumer alone is in
   `TicketLifecycle`, with loss and redelivery.
2. The presence janitor, which compares with the snapshot of its own process; the
   key itself, heartbeats, sockets and lapse are in `Tab`. `TicketLifecycle` leaves
   `online` free, which covers whatever presence does.
3. Messages, surveys and tags, whose handlers have the same check-then-write shape
   (`modules/csat/service.py` looks for a survey and inserts it in two accesses).
4. The assignment algorithms: the round-robin cursor and the counts of
   least_busy. `TicketLifecycle` leaves the choice free.
5. The SDK for virtual technicians: its refresh, retry and reconnection.
6. Proofs: the safety behind the other liveness properties, that is, what each fair
   step achieves and that no other step undoes it, as it is done for redirects, passes
   of the SLA job and silent holders.

The hazards in `PROJECT.json` are those of the parts that are modelled, and the
one of redelivery that waits for item 1.
