-------------------------------- MODULE TabProofs --------------------------------
(***************************************************************************)
(* One reconnection chain per tab, for any number of sockets and of calls: *)
(* proofs of the safety properties of Tab.                                 *)
(*                                                                         *)
(* OneChain counts, and is not inductive: that a pending timer excludes a  *)
(* socket of this generation, that there is no second such socket, and     *)
(* that there is neither without a user, have to be known together.  The   *)
(* banner needs its timer in the invariant: it must not be pending either  *)
(* while the socket is open.                                               *)
(***************************************************************************)
EXTENDS Tab, FiniteSetTheorems, TLAPS

\* A timer or one socket of this generation, not both.
SingleChain ==
    /\ timers \in {0, 1}
    /\ timers = 1 => \A s \in Sockets : ~current[s]
    /\ \A s, t \in Sockets : current[s] /\ current[t] => s = t

\* No banner, and no timer to show it, while this generation is connected.
BannerHeld == banner # "off" => \A s \in Sockets : current[s] => client[s] # "open"

TabTypes ==
    /\ client \in [Sockets -> ClientStates]
    /\ current \in [Sockets -> BOOLEAN]
    /\ wsRef \in Sockets \cup {None}
    /\ banner \in {"off", "pending", "shown"}

ServerTypes == server \in [Sockets -> ServerStates] /\ online \in BOOLEAN

TabInv == TabTypes /\ SingleChain /\ BannerHeld

NoChain == timers = 0 /\ \A s \in Sockets : ~current[s]

SignedOutInv == ~user => NoChain

IInv == SessionTypeOK /\ TabInv /\ ServerTypes /\ SignedOutInv

--------------------------------------------------------------------------------
(* What the operators of Socket do to the tab.                             *)

\* Free ids are ids.
LEMMA NewSocketIsFree == ASSUME Free # {} PROVE NewSocket \in Sockets
BY DEF NewSocket, Free

\* Closing the socket of the reference opens none.
LEMMA ClosedByTypes ==
    ASSUME TabTypes, NEW ends \in [Sockets -> ClientStates]
    PROVE  /\ ClosedBy(ends) \in [Sockets -> ClientStates]
           /\ \A s \in Sockets : ClosedBy(ends)[s] = "open" => ends[s] = "open"
BY SocketAssumption DEF ClosedBy, ClientStates, Usable, TabTypes

\* No user, no chain.
LEMMA StopListeningInv ==
    ASSUME TabInv, StopListening PROVE TabInv' /\ NoChain'
<1>1. ClosedBy(client) \in [Sockets -> ClientStates]
    BY ClosedByTypes DEF TabInv, TabTypes
<1> QED
    BY <1>1 DEF TabInv, TabTypes, SingleChain, BannerHeld, NoChain, StopListening, NextGeneration

\* A new user object starts one chain, if there is a token to connect with.
LEMMA ListenAgainInv ==
    ASSUME TabInv, NEW stored \in Tokens, ListenAgain(stored)
    PROVE  /\ TabInv'
           /\ stored # "none" => \E s \in Sockets : current'[s]
<1>1. ClosedBy(client) \in [Sockets -> ClientStates]
    BY ClosedByTypes DEF TabInv, TabTypes
<1>2. CASE stored = "none"
    BY <1>1, <1>2 DEF ListenAgain, TabInv, TabTypes, SingleChain, BannerHeld, NextGeneration
<1>3. CASE stored # "none"
    <2>1. NewSocket \in Sockets
        BY <1>3, NewSocketIsFree DEF ListenAgain
    <2>2. /\ client' = [ClosedBy(client) EXCEPT ![NewSocket] = Dialing(stored)]
          /\ current' = [[s \in Sockets |-> FALSE] EXCEPT ![NewSocket] = TRUE]
          /\ wsRef' = NewSocket /\ timers' = 0
          /\ banner' = IF banner = "pending" THEN "off" ELSE banner
        BY <1>3 DEF ListenAgain, NextGeneration
    <2>3. Dialing(stored) \in {"connecting", "stale"}
        BY DEF Dialing
    <2>4. TabTypes'
        BY <1>1, <2>1, <2>2, <2>3 DEF TabInv, TabTypes, ClientStates
    <2>5. \A s \in Sockets : current'[s] <=> s = NewSocket
        BY <2>1, <2>2
    <2>6. client'[NewSocket] # "open"
        BY <1>1, <2>1, <2>2, <2>3
    <2> QED
        BY <2>1, <2>2, <2>4, <2>5, <2>6 DEF TabInv, SingleChain, BannerHeld
<1> QED
    BY <1>2, <1>3

\* The timer hands the chain over to the socket it opens.
LEMMA ReconnectInv ==
    ASSUME TabInv, NEW stored \in Tokens, Reconnect(stored)
    PROVE  /\ TabInv'
           /\ stored # "none" => \E s \in Sockets : current'[s]
<1>1. timers = 1 /\ timers' = 0 /\ \A s \in Sockets : ~current[s]
    BY DEF TabInv, SingleChain, Reconnect
<1>2. CASE stored = "none"
    BY <1>1, <1>2 DEF Reconnect, TabInv, TabTypes, SingleChain, BannerHeld
<1>3. CASE stored # "none"
    <2>1. NewSocket \in Sockets
        BY <1>3, NewSocketIsFree DEF Reconnect
    <2>2. /\ client' = [client EXCEPT ![NewSocket] = Dialing(stored)]
          /\ current' = [current EXCEPT ![NewSocket] = TRUE]
          /\ wsRef' = NewSocket /\ banner' = banner
        BY <1>3 DEF Reconnect
    <2>3. Dialing(stored) \in {"connecting", "stale"}
        BY DEF Dialing
    <2>4. TabTypes'
        BY <2>1, <2>2, <2>3 DEF TabInv, TabTypes, ClientStates
    <2>5. \A s \in Sockets : current'[s] <=> s = NewSocket
        BY <1>1, <2>1, <2>2 DEF TabInv, TabTypes
    <2>6. client'[NewSocket] # "open"
        BY <2>1, <2>2, <2>3 DEF TabInv, TabTypes
    <2> QED
        BY <1>1, <2>1, <2>2, <2>4, <2>5, <2>6 DEF TabInv, SingleChain, BannerHeld
<1> QED
    BY <1>2, <1>3

\* The event of a closed socket hands the chain over to a timer; that of a socket
\* of an earlier generation leaves it alone.
LEMMA OnCloseInv ==
    ASSUME TabInv, NEW s \in Sockets, OnClose(s)
    PROVE  /\ TabInv'
           /\ current[s] => timers' = 1
           /\ ~current[s] => timers' = timers /\ current' = current
<1>1. /\ client' = [client EXCEPT ![s] = "none"]
      /\ current' = [current EXCEPT ![s] = FALSE]
      /\ wsRef' = None
    BY DEF OnClose
<1>2. TabTypes'
    BY <1>1 DEF OnClose, TabInv, TabTypes, ClientStates
<1>3. \A t \in Sockets : (current'[t] <=> current[t] /\ t # s)
                         /\ (t # s => client'[t] = client[t])
    BY <1>1 DEF TabInv, TabTypes
<1>4. CASE current[s]
    <2>1. timers = 0 /\ timers' = 1 /\ \A t \in Sockets : ~current'[t]
        BY <1>3, <1>4 DEF OnClose, TabInv, SingleChain
    <2> QED
        BY <1>2, <1>4, <2>1 DEF TabInv, SingleChain, BannerHeld
<1>5. CASE ~current[s]
    <2>1. timers' = timers /\ banner' = banner
        BY <1>5 DEF OnClose
    <2>2. current' = current
        BY <1>1, <1>5 DEF TabInv, TabTypes
    <2> QED
        BY <1>2, <1>3, <1>5, <2>1, <2>2 DEF TabInv, SingleChain, BannerHeld
<1> QED
    BY <1>4, <1>5

\* The steps that move neither the generation nor the timers.
TabIdle == UNCHANGED <<current, wsRef, timers>>

\* A socket that closes, or breaks, opens nothing.
LEMMA OthersInv ==
    ASSUME TabInv, TabIdle,
           client' \in [Sockets -> ClientStates],
           \A s \in Sockets : client'[s] = "open" => client[s] = "open",
           banner' \in {"off", "pending", "shown"}, banner' # "off" => banner # "off"
    PROVE  TabInv'
BY DEF TabIdle, TabInv, TabTypes, SingleChain, BannerHeld

\* onopen takes the banner down, so whichever socket opens is no harm.
LEMMA RegisterInv ==
    ASSUME TabInv, NEW s \in Sockets, Register(s) PROVE TabInv' /\ TabIdle
<1>1. CASE client[s] = "connecting"
    <2>1. client' = [client EXCEPT ![s] = "open"] /\ banner' = "off"
        BY <1>1 DEF Register
    <2> QED
        BY <2>1 DEF Register, TabIdle, TabInv, TabTypes, SingleChain, BannerHeld, ClientStates
<1>2. CASE client[s] # "connecting"
    BY <1>2 DEF Register, TabIdle, TabInv, TabTypes, SingleChain, BannerHeld
<1> QED
    BY <1>1, <1>2

--------------------------------------------------------------------------------
(* Types of the session and of the server's ends.                          *)

LEMMA SentTypes ==
    ASSUME SessionTypeOK, NEW c \in Calls, Send(c) PROVE calls' \in [Calls -> Phases]
BY DEF SessionTypeOK, Send, Phases, Tokens

LEMMA SettledTypes ==
    ASSUME SessionTypeOK, NEW c \in Calls PROVE Settled(c) \in [Calls -> Phases]
BY DEF SessionTypeOK, Settled, Phases

LEMMA LoadedTypes ==
    ASSUME NEW t \in Tokens
    PROVE  /\ SessionLoaded(t).user = FALSE /\ SessionLoaded(t).token = t
           /\ SessionLoaded(t).calls \in [Calls -> Phases]
           /\ SessionLoaded(t).refreshing = FALSE
BY DEF SessionLoaded, Calls, Phases, Tokens

LEMMA RefreshTypes ==
    ASSUME SessionTypeOK, RefreshSucceeds \/ RefreshFails PROVE SessionTypeOK'
BY DEF SessionTypeOK, RefreshSucceeds, RefreshGiven, RefreshFails, Waiting, Calls, Phases, Tokens

LEMMA AwaitTypes ==
    ASSUME SessionTypeOK, NEW c \in Calls, AwaitRefresh(c) PROVE SessionTypeOK'
BY DEF SessionTypeOK, AwaitRefresh, Phases

\* What only sends, settles or denies a call.
LEMMA CallTypes ==
    ASSUME SessionTypeOK,
           \/ AskWhoAmI \/ ClickLogout \/ SendHeartbeat
           \/ HeartbeatHeard \/ HeartbeatFails \/ TokenExpires
    PROVE  SessionTypeOK' /\ user' = user /\ (token' = token \/ (token # "none" /\ token' # "none"))
<1>1. CASE AskWhoAmI \/ ClickLogout \/ SendHeartbeat
    <2>1. calls' \in [Calls -> Phases]
        BY <1>1, SentTypes DEF AskWhoAmI, ClickLogout, SendHeartbeat, Calls
    <2> QED
        BY <1>1, <2>1 DEF AskWhoAmI, ClickLogout, SendHeartbeat, SessionTypeOK
<1>2. CASE HeartbeatHeard \/ HeartbeatFails
    BY <1>2, SettledTypes DEF HeartbeatHeard, HeartbeatFails, SessionTypeOK, Calls
<1>3. CASE TokenExpires
    BY <1>3 DEF TokenExpires, SessionTypeOK, Tokens
<1> QED
    BY <1>1, <1>2, <1>3

\* What ends the session, other than a refresh.
LEMMA EndTypes ==
    ASSUME SessionTypeOK, NotToldWhoIAm \/ LogoutHeard \/ LogoutFails
    PROVE  SessionTypeOK' /\ user' = FALSE
BY SettledTypes DEF NotToldWhoIAm, LogoutHeard, LogoutFails, SignedOut, SessionTypeOK, Calls, Tokens

LEMMA ToldTypes ==
    ASSUME SessionTypeOK, ToldWhoIAm PROVE SessionTypeOK' /\ token' = token
BY SettledTypes DEF ToldWhoIAm, SessionTypeOK, Calls

--------------------------------------------------------------------------------
(* The steps of the tab.                                                   *)

\* Deaf only by a refresh that ends after the tokens are gone.
HearsOn == ~Deaf /\ Deaf' => token = "none" /\ refreshing /\ ~refreshing'

LEMMA ChainEmpty == Chain = {} <=> \A s \in Sockets : ~current[s]
BY DEF Chain

LEMMA InitInv == ASSUME Init PROVE IInv
<1>1. PICK t \in Tokens : /\ user = SessionLoaded(t).user
                         /\ token = SessionLoaded(t).token
                         /\ calls = SessionLoaded(t).calls
                         /\ refreshing = SessionLoaded(t).refreshing
    BY DEF Init, SessionInit
<1>2. SessionTypeOK
    BY <1>1, LoadedTypes DEF SessionTypeOK
<1>3. TabInv /\ ServerTypes /\ NoChain
    BY DEF Init, SocketInit, TabInv, TabTypes, SingleChain, BannerHeld, ServerTypes, NoChain,
           ClientStates, ServerStates
<1> QED
    BY <1>2, <1>3 DEF IInv, SignedOutInv

LEMMA SameTab ==
    ASSUME UNCHANGED tabVars
    PROVE  /\ TabInv => TabInv'
           /\ NoChain => NoChain'
           /\ Chain' = Chain /\ timers' = timers
BY DEF tabVars, TabInv, TabTypes, SingleChain, BannerHeld, NoChain, Chain

LEMMA SameServer ==
    ASSUME ServerTypes, UNCHANGED server, online' \in BOOLEAN PROVE ServerTypes'
BY DEF ServerTypes

\* The session alone moves.
LEMMA SessionStepInv ==
    ASSUME IInv, UNCHANGED socketVars, SessionTypeOK', user' = user,
           \/ token' = token
           \/ (token # "none" /\ token' # "none")
           \/ (refreshing /\ ~refreshing')
    PROVE  IInv' /\ HearsOn
<1>1. UNCHANGED tabVars /\ UNCHANGED serverVars
    BY DEF socketVars, tabVars, serverVars
<1>2. IInv'
    BY <1>1, SameTab, SameServer DEF IInv, SignedOutInv, ServerTypes, serverVars
<1>3. HearsOn
    BY <1>1, SameTab DEF HearsOn, Deaf
<1> QED
    BY <1>2, <1>3

\* The user goes, or there was none.
LEMMA NoUserInv ==
    ASSUME IInv, NoUserNow, SessionTypeOK', user' = FALSE, ServerTypes'
    PROVE  IInv' /\ HearsOn
<1>1. TabInv' /\ NoChain'
    BY StopListeningInv, SameTab DEF IInv, SignedOutInv, NoUserNow
<1> QED
    BY <1>1 DEF IInv, SignedOutInv, HearsOn, Deaf

\* A new user object.
LEMMA NewUserInv ==
    ASSUME IInv, NEW stored \in Tokens, ListenAgain(stored), SessionTypeOK', token' = stored,
           user' = TRUE, ServerTypes'
    PROVE  IInv' /\ HearsOn
<1>1. TabInv' /\ (stored # "none" => \E s \in Sockets : current'[s])
    BY ListenAgainInv DEF IInv
<1>2. Chain' # {} \/ stored = "none"
    BY <1>1 DEF Chain
<1> QED
    BY <1>1, <1>2 DEF IInv, SignedOutInv, HearsOn, Deaf

\* The socket or the server alone moves, and the chain stays.
LEMMA SocketStepInv ==
    ASSUME IInv, UNCHANGED sessionVars, TabInv', ServerTypes', TabIdle
    PROVE  IInv' /\ HearsOn
<1>1. SessionTypeOK' /\ Chain' = Chain /\ timers' = timers
    BY DEF sessionVars, SessionTypeOK, TabIdle, Chain, IInv
<1>2. NoChain => NoChain'
    BY DEF TabIdle, NoChain
<1> QED
    BY <1>1, <1>2 DEF IInv, SignedOutInv, HearsOn, Deaf, sessionVars

\* What the user does.
LEMMA UserStepInv ==
    ASSUME IInv, Login \/ SaveProfile \/ Logout \/ TryAgain \/ Reload
    PROVE  IInv' /\ HearsOn
<1>1. CASE Login
    <2>1. SessionTypeOK' /\ token' = "live" /\ user' = TRUE
        BY <1>1 DEF Login, LoggedIn, IInv, SessionTypeOK, Tokens
    <2>2. ServerTypes'
        BY <1>1, SameServer DEF Login, Present, IInv
    <2> QED
        BY <1>1, <2>1, <2>2, NewUserInv DEF Login, Tokens
<1>2. CASE AskWhoAmI /\ UNCHANGED socketVars
    BY <1>2, CallTypes, SessionStepInv DEF IInv
<1>3. CASE FindNoToken /\ NoUserNow /\ UNCHANGED serverVars
    <2>1. SessionTypeOK' /\ user' = FALSE
        BY <1>3 DEF FindNoToken, IInv, SessionTypeOK
    <2>2. ServerTypes'
        BY <1>3 DEF serverVars, ServerTypes, IInv
    <2> QED
        BY <1>3, <2>1, <2>2, NoUserInv
<1>4. CASE Logout
    BY <1>4, CallTypes, SessionStepInv DEF Logout, IInv
<1>5. CASE TryAgain
    <2>1. client' = ClosedBy(client) /\ banner' = "off" /\ wsRef' = None
          /\ UNCHANGED <<current, timers>> /\ UNCHANGED sessionVars /\ UNCHANGED serverVars
        BY <1>5 DEF TryAgain, RetryConnection
    <2>2. ClosedBy(client) \in [Sockets -> ClientStates]
        BY ClosedByTypes DEF IInv, TabInv, TabTypes
    <2>3. TabInv'
        BY <2>1, <2>2 DEF IInv, TabInv, TabTypes, SingleChain, BannerHeld
    <2>4. SessionTypeOK' /\ ServerTypes' /\ Chain' = Chain /\ NoChain' = NoChain
        BY <2>1 DEF IInv, sessionVars, SessionTypeOK, serverVars, ServerTypes, Chain, NoChain
    <2> QED
        BY <2>1, <2>3, <2>4 DEF IInv, SignedOutInv, HearsOn, Deaf, sessionVars
<1>6. CASE Reload
    <2>1. SessionTypeOK' /\ user' = FALSE
        BY <1>6, LoadedTypes DEF Reload, SessionReload, IInv, SessionTypeOK
    <2>2. TabInv' /\ NoChain'
        BY <1>6 DEF Reload, TabGone, IInv, TabInv, TabTypes, SingleChain, BannerHeld, NoChain, ClientStates
    <2>3. ServerTypes'
        BY <1>6 DEF Reload, serverVars, ServerTypes, IInv
    <2> QED
        BY <2>1, <2>2, <2>3 DEF IInv, SignedOutInv, HearsOn, Deaf
<1> QED
    BY <1>1, <1>2, <1>3, <1>4, <1>5, <1>6 DEF SaveProfile

\* The calls and their answers.
LEMMA AnswerStepInv ==
    ASSUME IInv,
           \/ MeFails \/ HeartbeatLost \/ LogoutLost \/ NotRefreshed \/ Expiry \/ Refreshed
           \/ \E c \in Calls : CallStep(c)
    PROVE  IInv' /\ HearsOn
<1>1. CASE MeFails \/ LogoutLost
    <2>1. SessionTypeOK' /\ user' = FALSE
        BY <1>1, EndTypes DEF MeFails, LogoutLost, IInv
    <2>2. ServerTypes'
        BY <1>1 DEF MeFails, LogoutLost, serverVars, ServerTypes, IInv
    <2> QED
        BY <1>1, <2>1, <2>2, NoUserInv DEF MeFails, LogoutLost
<1>2. CASE HeartbeatLost \/ Expiry \/ Heartbeat
    BY <1>2, CallTypes, SessionStepInv DEF HeartbeatLost, Expiry, Heartbeat, IInv
<1>3. CASE NotRefreshed
    <2>1. SessionTypeOK' /\ token' = "none" /\ ServerTypes'
        BY <1>3, RefreshTypes DEF NotRefreshed, RefreshFails, serverVars, ServerTypes, IInv
    <2>2. CASE user'
        <3>1. user /\ UNCHANGED tabVars
            BY <1>3, <2>2 DEF NotRefreshed, RefreshFails
        <3> QED
            BY <2>1, <2>2, <3>1, SameTab DEF IInv, SignedOutInv, HearsOn, Deaf
    <2>3. CASE ~user'
        <3>1. user' = FALSE /\ NoUserNow
            BY <1>3, <2>1, <2>3 DEF NotRefreshed, SessionTypeOK
        <3> QED
            BY <2>1, <3>1, NoUserInv
    <2> QED
        BY <2>2, <2>3
<1>4. CASE Refreshed
    <2>1. SessionTypeOK' /\ refreshing /\ ~refreshing' /\ user' = user
        BY <1>4, RefreshTypes DEF Refreshed, RefreshSucceeds, IInv
    <2> QED
        BY <1>4, <2>1, SessionStepInv DEF Refreshed
<1>5. ASSUME NEW c \in Calls, Denied(c) PROVE IInv' /\ HearsOn
    <2>1. SessionTypeOK' /\ token' = token /\ user' = user
        BY <1>5, AwaitTypes DEF Denied, AwaitRefresh, IInv
    <2> QED
        BY <1>5, <2>1, SessionStepInv DEF Denied
<1>6. CASE MeAnswered
    <2>1. SessionTypeOK' /\ token' = token /\ user' = TRUE
        BY <1>6, ToldTypes DEF MeAnswered, ToldWhoIAm, IInv
    <2>2. ServerTypes' /\ token \in Tokens
        BY <1>6 DEF MeAnswered, serverVars, ServerTypes, IInv, SessionTypeOK
    <2> QED
        BY <1>6, <2>1, <2>2, NewUserInv DEF MeAnswered
<1>7. CASE HeartbeatAnswered
    <2>1. SessionTypeOK' /\ user' = user /\ token' = token /\ UNCHANGED tabVars
        BY <1>7, CallTypes DEF HeartbeatAnswered, HeartbeatHeard, IInv
    <2>2. ServerTypes'
        BY <1>7, SameServer DEF HeartbeatAnswered, Present, IInv
    <2> QED
        BY <2>1, <2>2, SameTab DEF IInv, SignedOutInv, HearsOn, Deaf
<1>8. CASE LogoutAnswered
    <2>1. SessionTypeOK' /\ user' = FALSE
        BY <1>8, EndTypes DEF LogoutAnswered, IInv
    <2>2. ServerTypes'
        BY <1>8, SameServer DEF LogoutAnswered, Absent, IInv
    <2> QED
        BY <1>8, <2>1, <2>2, NoUserInv DEF LogoutAnswered
<1> QED
    BY <1>1, <1>2, <1>3, <1>4, <1>5, <1>6, <1>7, <1>8 DEF CallStep

\* The server's steps, and the connection's, open no socket of the tab but by
\* onopen.
LEMMA NetworkStepInv ==
    ASSUME IInv, NEW s \in Sockets, UNCHANGED sessionVars,
           \/ Refuse(s) \/ Touch(s) \/ Register(s) \/ Abandon(s) \/ Break(s)
           \/ Unregister(s) \/ MarkOffline(s)
    PROVE  IInv' /\ HearsOn
<1>1. CASE Refuse(s) \/ Break(s)
    <2>1. client' = [client EXCEPT ![s] = "closing"] /\ banner' = banner /\ TabIdle
          /\ UNCHANGED serverVars
        BY <1>1 DEF Refuse, Break, TabIdle
    <2>2. TabInv'
        BY <2>1, OthersInv DEF IInv, TabInv, TabTypes, ClientStates
    <2>3. ServerTypes'
        BY <2>1 DEF IInv, serverVars, ServerTypes
    <2> QED
        BY <2>1, <2>2, <2>3, SocketStepInv
<1>2. CASE Touch(s) \/ Unregister(s) \/ MarkOffline(s)
    <2>1. UNCHANGED tabVars /\ TabIdle
        BY <1>2 DEF Touch, Unregister, MarkOffline, tabVars, TabIdle
    <2>2. ServerTypes'
        BY <1>2 DEF Touch, Unregister, MarkOffline, ServerTypes, ServerStates, IInv
    <2> QED
        BY <2>1, <2>2, SameTab, SocketStepInv DEF IInv
<1>3. CASE Register(s)
    <2>1. ServerTypes'
        BY <1>3 DEF Register, ServerTypes, ServerStates, IInv
    <2> QED
        BY <1>3, <2>1, RegisterInv, SocketStepInv DEF IInv
<1>4. CASE Abandon(s)
    <2>1. TabIdle /\ banner' = banner /\ online' = online
          /\ client' = IF client[s] = "connecting" THEN [client EXCEPT ![s] = "closing"] ELSE client
        BY <1>4 DEF Abandon, TabIdle
    <2>2. TabInv'
        BY <2>1, OthersInv DEF IInv, TabInv, TabTypes, ClientStates
    <2>3. ServerTypes'
        BY <1>4 DEF Abandon, ServerTypes, ServerStates, IInv
    <2> QED
        BY <2>1, <2>2, <2>3, SocketStepInv
<1> QED
    BY <1>1, <1>2, <1>3, <1>4

LEMMA RestartInv ==
    ASSUME IInv, NEW lost, Restart(lost) PROVE IInv' /\ HearsOn
<1>1. TabIdle /\ banner' = banner /\ UNCHANGED sessionVars
    BY DEF Restart, InstanceStops, TabIdle
<1>2. client' = [s \in Sockets |-> IF s \in lost /\ client[s] \in Usable THEN "closing" ELSE client[s]]
    BY DEF Restart, InstanceStops
<1>3. TabInv'
    BY <1>1, <1>2, OthersInv DEF IInv, TabInv, TabTypes, ClientStates
<1>4. ServerTypes'
    BY DEF Restart, InstanceStops, ServerTypes, ServerStates, IInv
<1> QED
    BY <1>1, <1>3, <1>4, SocketStepInv

\* The timers of the tab, and the event of a socket it closed.
LEMMA TabStepInv ==
    ASSUME IInv, TimerFires \/ BannerShown \/ \E s \in Sockets : Closed(s)
    PROVE  IInv' /\ HearsOn
<1>1. ServerTypes' /\ SessionTypeOK' /\ UNCHANGED <<user, token>>
    BY DEF TimerFires, BannerShown, Closed, IInv, sessionVars, SessionTypeOK, serverVars, ServerTypes
<1>2. CASE TimerFires
    <2>1. TabInv' /\ (token # "none" => Chain' # {})
        BY <1>2, ReconnectInv DEF TimerFires, IInv, SessionTypeOK, Chain
    <2>2. timers > 0
        BY <1>2 DEF TimerFires, Reconnect
    <2>3. user
        BY <2>2 DEF IInv, SignedOutInv, NoChain
    <2> QED
        BY <1>1, <2>1, <2>3 DEF IInv, SignedOutInv, HearsOn, Deaf
<1>3. CASE BannerShown
    <2>1. TabIdle /\ client' = client /\ banner = "pending" /\ banner' = "shown"
        BY <1>3 DEF BannerShown, BannerTimerFires, TabIdle
    <2>2. TabInv'
        BY <2>1, OthersInv DEF IInv, TabInv, TabTypes
    <2> QED
        BY <1>1, <1>3, <2>1, <2>2, SocketStepInv DEF BannerShown
<1>4. ASSUME NEW s \in Sockets, Closed(s) PROVE IInv' /\ HearsOn
    <2>1. TabInv' /\ (current[s] => timers' = 1)
          /\ (~current[s] => timers' = timers /\ current' = current)
        BY <1>4, OnCloseInv DEF Closed, IInv
    <2>2. CASE current[s]
        <3>1. user
            BY <2>2 DEF IInv, SignedOutInv, NoChain
        <3> QED
            BY <1>1, <2>1, <2>2, <3>1 DEF IInv, SignedOutInv, HearsOn, Deaf
    <2>3. CASE ~current[s]
        <3>1. Chain' = Chain /\ timers' = timers /\ (NoChain => NoChain')
            BY <2>1, <2>3 DEF Chain, NoChain
        <3> QED
            BY <1>1, <2>1, <3>1 DEF IInv, SignedOutInv, HearsOn, Deaf
    <2> QED
        BY <2>2, <2>3
<1> QED
    BY <1>2, <1>3, <1>4

LEMMA LapseInv == ASSUME IInv, Lapse PROVE IInv' /\ HearsOn
<1>1. UNCHANGED tabVars /\ TabIdle /\ UNCHANGED sessionVars /\ ServerTypes'
    BY DEF Lapse, PresenceLapses, tabVars, TabIdle, ServerTypes, IInv
<1> QED
    BY <1>1, SameTab, SocketStepInv DEF IInv

LEMMA StepInv == ASSUME IInv, [Next]_vars PROVE IInv' /\ HearsOn
<1>1. CASE UNCHANGED vars
    <2>1. UNCHANGED socketVars /\ UNCHANGED sessionVars
        BY <1>1 DEF vars
    <2>2. SessionTypeOK' /\ user' = user /\ token' = token
        BY <2>1 DEF sessionVars, SessionTypeOK, IInv
    <2> QED
        BY <2>1, <2>2, SessionStepInv
<1>2. CASE Disturbance
    <2>1. ASSUME NEW s \in Sockets, Unreachable(s) \/ HandshakeFails(s) \/ ConnectionBreaks(s)
          PROVE IInv' /\ HearsOn
        BY <2>1, NetworkStepInv DEF Unreachable, HandshakeFails, ConnectionBreaks
    <2> QED
        BY <1>2, <2>1, UserStepInv, AnswerStepInv, RestartInv DEF Disturbance
<1>3. ASSUME NEW s \in Sockets, SocketStep(s) PROVE IInv' /\ HearsOn
    <2>1. CASE Closed(s)
        BY <2>1, TabStepInv
    <2>2. CASE ~Closed(s)
        BY <1>3, <2>2, NetworkStepInv
        DEF SocketStep, TokenBad, TokenGood, Opened, ServerSeesClose, ServerMarks
    <2> QED
        BY <2>1, <2>2
<1> QED
    BY <1>1, <1>2, <1>3, AnswerStepInv, TabStepInv, LapseInv DEF Next, Going

--------------------------------------------------------------------------------
(* What follows from the invariant.                                        *)

LEMMA CountedChain == ASSUME IInv PROVE OneChain
<1>1. CASE \A s \in Sockets : ~current[s]
    <2>1. Chain = {}
        BY <1>1, ChainEmpty
    <2> QED
        BY <2>1, FS_EmptySet DEF OneChain, IInv, TabInv, SingleChain
<1>2. ASSUME NEW s \in Sockets, current[s] PROVE OneChain
    <2>1. Chain = {s}
        BY <1>2 DEF Chain, IInv, TabInv, SingleChain
    <2>2. Cardinality({s}) = 1
        BY FS_Singleton
    <2>3. timers = 0
        BY <1>2 DEF IInv, TabInv, SingleChain
    <2> QED
        BY <2>1, <2>2, <2>3 DEF OneChain
<1> QED
    BY <1>1, <1>2

LEMMA Consequences == ASSUME IInv PROVE TypeOK /\ OneChain /\ NoChainSignedOut /\ BannerDownWhileConnected
<1>1. TypeOK
    BY DEF IInv, TypeOK, SocketTypeOK, TabInv, TabTypes, SingleChain, ServerTypes
<1>2. NoChainSignedOut
    BY ChainEmpty DEF IInv, SignedOutInv, NoChain, NoChainSignedOut
<1>3. BannerDownWhileConnected
    BY DEF IInv, TabInv, BannerHeld, BannerDownWhileConnected, Chain
<1> QED
    BY <1>1, <1>2, <1>3, CountedChain

\* The strengthened invariant holds of every state the tab reaches.
THEOREM TabInvariant == Spec => []IInv
<1>1. IInv /\ [Next]_vars => IInv'
    BY StepInv
<1> QED
    BY InitInv, <1>1, PTL DEF Spec

\* Every variable of session, socket, registry and presence keeps its type.
THEOREM TabTypeCorrect == Spec => []TypeOK
BY TabInvariant, Consequences, PTL

\* Effects, close events and timers of any number of sockets, however they
\* interleave with logins, logouts and refreshes, keep one chain of
\* reconnections at most.
THEOREM OneChainAlways == Spec => []OneChain
BY TabInvariant, Consequences, PTL

\* After the user is gone no close event or timer of an old socket reconnects.
THEOREM SignedOutIsQuiet == Spec => []NoChainSignedOut
BY TabInvariant, Consequences, PTL

\* The banner is never up while the socket the tab reconnects for is open.
THEOREM BannerIsRight == Spec => []BannerDownWhileConnected
BY TabInvariant, Consequences, PTL

\* No step of the tab makes it deaf, but the answer of a refresh that brings
\* dropped tokens back.
THEOREM HearsOnAlways == Spec => DeafOnlyByResurrection
<1>1. IInv /\ [Next]_vars => [HearsOn]_vars
    BY StepInv
<1>2. [HearsOn]_vars
        => [~Deaf /\ Deaf' => token = "none" /\ refreshing /\ ~refreshing']_vars
    BY DEF HearsOn
<1> QED
    BY TabInvariant, <1>1, <1>2, PTL DEF Spec, DeafOnlyByResurrection
================================================================================
