--------------------------------- MODULE Socket ---------------------------------
(***************************************************************************)
(* The notification socket of one tab (NotificationContext), the registry  *)
(* of sockets of each backend instance, and the presence key in Redis.     *)
(*                                                                         *)
(* An effect of the tab runs for every new user object: it opens a socket, *)
(* whose onclose starts a timer that opens the next one, and so on for as  *)
(* long as the generation stays the one the socket was opened in.          *)
(*                                                                         *)
(* The delay of the timer, min(1 s * 2^attempts, 30 s), is left out: it    *)
(* fires at some time.  A socket id is used again when both ends have done *)
(* with it.                                                                *)
(***************************************************************************)
EXTENDS Naturals, FiniteSets

CONSTANTS
    Sockets,  \* ids of WebSockets: bounds how many exist at once
    None      \* null

ASSUME SocketAssumption == None \notin Sockets /\ IsFiniteSet(Sockets)

VARIABLES
    client,       \* the tab's end of each socket
    current,      \* was the socket opened in the generation of now
    server,       \* the server's end of each socket
    wsRef,        \* the socket to close when the user changes
    timers,       \* reconnect timers of this generation that are pending
    banner,       \* wsError: not set, its timer pending, or set
    online        \* does the key presence:{user_id} exist

tabVars == <<client, current, wsRef, timers, banner>>
serverVars == <<server, online>>
socketVars == <<tabVars, serverVars>>

\* "stale": connecting with an expired token; "closing": the socket is closed but
\* its onclose event has not run.
ClientStates == {"none", "connecting", "stale", "open", "closing"}

Usable == {"connecting", "stale", "open"}

\* "touched": the token was good and presence touched; "leaving": out of the
\* registry, and found to be the last socket of the user on its instance.
ServerStates == {"none", "touched", "registered", "leaving"}

SocketTypeOK ==
    /\ client \in [Sockets -> ClientStates]
    /\ current \in [Sockets -> BOOLEAN]
    /\ server \in [Sockets -> ServerStates]
    /\ wsRef \in Sockets \cup {None}
    /\ timers \in Nat
    /\ banner \in {"off", "pending", "shown"}
    /\ online \in BOOLEAN

SocketInit ==
    /\ client = [s \in Sockets |-> "none"]
    /\ current = [s \in Sockets |-> FALSE]
    /\ server = [s \in Sockets |-> "none"]
    /\ wsRef = None
    /\ timers = 0
    /\ banner = "off"
    /\ online \in BOOLEAN

Free == {s \in Sockets : client[s] = "none" /\ server[s] = "none"}

\* An id for a new socket.  Ids are interchangeable, so it need not be chosen.
NewSocket == CHOOSE s \in Free : TRUE

\* The sockets that keep the chain of this generation going.
Chain == {s \in Sockets : current[s]}

--------------------------------------------------------------------------------
(* The tab: these change tabVars only.                                     *)

\* The cleanup of the effect: timers cleared, a new generation, the socket the
\* reference still points at closed.  Other sockets are left as they are.
ClosedBy(ends) ==
    IF wsRef # None /\ ends[wsRef] \in Usable
    THEN [ends EXCEPT ![wsRef] = "closing"]
    ELSE ends

NextGeneration_Same == current

NextGeneration == [s \in Sockets |-> FALSE]

\* The user is gone: cleanup, and the banner is taken down.
StopListening ==
    /\ client' = ClosedBy(client)
    /\ current' = NextGeneration
    /\ wsRef' = None
    /\ timers' = 0
    /\ banner' = "off"

\* new WebSocket with the token stored.
Dialing(stored) == IF stored = "live" THEN "connecting" ELSE "stale"

\* A new user object: cleanup of the effect before, if there was one, and
\* connect(), which gives up when no token is stored.
ListenAgain(stored) ==
    /\ timers' = 0
    /\ banner' = IF banner = "pending" THEN "off" ELSE banner
    /\ \/ /\ stored = "none"
          /\ client' = ClosedBy(client)
          /\ current' = NextGeneration
          /\ wsRef' = None
       \/ /\ stored # "none"
          /\ Free # {}
          /\ client' = [ClosedBy(client) EXCEPT ![NewSocket] = Dialing(stored)]
          /\ current' = [NextGeneration EXCEPT ![NewSocket] = TRUE]
          /\ wsRef' = NewSocket

Reconnect_FreshTokenOnly(stored) ==
    /\ timers > 0
    /\ timers' = timers - 1
    /\ UNCHANGED banner
    /\ \/ /\ stored # "live"
          /\ UNCHANGED <<client, current, wsRef>>
       \/ /\ stored = "live" /\ Free # {}
          /\ client' = [client EXCEPT ![NewSocket] = "connecting"]
          /\ current' = [current EXCEPT ![NewSocket] = TRUE]
          /\ wsRef' = NewSocket

\* The reconnect timer fires: connect().
Reconnect(stored) ==
    /\ timers > 0
    /\ timers' = timers - 1
    /\ UNCHANGED banner
    /\ \/ /\ stored = "none"
          /\ UNCHANGED <<client, current, wsRef>>
       \/ /\ stored # "none"
          /\ Free # {}
          /\ client' = [client EXCEPT ![NewSocket] = Dialing(stored)]
          /\ current' = [current EXCEPT ![NewSocket] = TRUE]
          /\ wsRef' = NewSocket

\* onclose: the reference is dropped, whichever socket it points at; a socket of
\* this generation starts the reconnect timer and, unless one is set, the timer
\* of the banner.
OnClose(s) ==
    /\ client[s] = "closing"
    /\ client' = [client EXCEPT ![s] = "none"]
    /\ wsRef' = None
    /\ current' = [current EXCEPT ![s] = FALSE]
    /\ timers' = IF current[s] THEN timers + 1 ELSE timers
    /\ banner' = IF current[s] /\ banner = "off" THEN "pending" ELSE banner

BannerTimerFires ==
    /\ banner = "pending"
    /\ banner' = "shown"
    /\ UNCHANGED <<client, current, wsRef, timers>>

\* "Try Again" of the banner: it closes the socket the reference points at, if
\* any; it connects nothing itself.
RetryConnection ==
    /\ banner = "shown"
    /\ banner' = "off"
    /\ client' = ClosedBy(client)
    /\ wsRef' = None
    /\ UNCHANGED <<current, timers>>

\* The page goes away with its sockets and timers; no event of theirs runs.
TabGone ==
    /\ client' = [s \in Sockets |-> "none"]
    /\ current' = [s \in Sockets |-> FALSE]
    /\ wsRef' = None
    /\ timers' = 0
    /\ banner' = "off"

--------------------------------------------------------------------------------
(* The server, and the network in between.                                 *)

\* A bad token, or nobody there: closed before it is accepted.
Refuse(s) ==
    /\ client[s] \in {"connecting", "stale"}
    /\ server[s] = "none"
    /\ client' = [client EXCEPT ![s] = "closing"]
    /\ UNCHANGED <<current, wsRef, timers, banner, serverVars>>

\* ws_endpoint with a good token: presence.touch.
Touch(s) ==
    /\ client[s] = "connecting"
    /\ server[s] = "none"
    /\ server' = [server EXCEPT ![s] = "touched"]
    /\ online' = TRUE
    /\ UNCHANGED tabVars

Register_KeepsBanner(s) ==
    /\ server[s] = "touched"
    /\ server' = [server EXCEPT ![s] = "registered"]
    /\ client' = IF client[s] = "connecting" THEN [client EXCEPT ![s] = "open"] ELSE client
    /\ UNCHANGED <<current, wsRef, timers, banner, online>>

\* ConnectionManager.connect, and onopen in the tab if it still waits for it.
\* onopen does not ask which generation its socket is of.
Register(s) ==
    /\ server[s] = "touched"
    /\ server' = [server EXCEPT ![s] = "registered"]
    /\ IF client[s] = "connecting"
       THEN /\ client' = [client EXCEPT ![s] = "open"]
            /\ banner' = "off"
       ELSE UNCHANGED <<client, banner>>
    /\ UNCHANGED <<current, wsRef, timers, online>>

\* The handshake fails after presence was touched.
Abandon(s) ==
    /\ server[s] = "touched"
    /\ server' = [server EXCEPT ![s] = "none"]
    /\ client' = IF client[s] = "connecting" THEN [client EXCEPT ![s] = "closing"] ELSE client
    /\ UNCHANGED <<current, wsRef, timers, banner, online>>

\* The tab's end finds the connection broken.
Break(s) ==
    /\ client[s] = "open"
    /\ client' = [client EXCEPT ![s] = "closing"]
    /\ UNCHANGED <<current, wsRef, timers, banner, serverVars>>

\* Do other sockets of the user remain in the registry of the same instance?
\* Those there are may be on other instances.
MayStay(s) == \E o \in Sockets \ {s} : server[o] = "registered"

\* The server's end finds the socket closed: out of the registry of its instance,
\* and a look whether this instance, this one only, has another of the user.
Unregister(s) ==
    /\ server[s] = "registered"
    /\ client[s] \notin Usable
    /\ \/ MayStay(s) /\ server' = [server EXCEPT ![s] = "none"]
       \/ server' = [server EXCEPT ![s] = "leaving"]
    /\ UNCHANGED <<tabVars, online>>

\* presence.mark_offline, after the look.
MarkOffline(s) ==
    /\ server[s] = "leaving"
    /\ server' = [server EXCEPT ![s] = "none"]
    /\ online' = FALSE
    /\ UNCHANGED tabVars

\* An instance goes down: its registry is lost, nobody is marked offline.
InstanceStops(lost) ==
    /\ server' = [s \in Sockets |-> IF s \in lost THEN "none" ELSE server[s]]
    /\ client' = [s \in Sockets |-> IF s \in lost /\ client[s] \in Usable
                                    THEN "closing" ELSE client[s]]
    /\ UNCHANGED <<current, wsRef, timers, banner, online>>

\* Redis drops the key 45 seconds after the last touch.
PresenceLapses ==
    /\ online
    /\ online' = FALSE
    /\ UNCHANGED <<tabVars, server>>
================================================================================
