---------------------------------- MODULE Tab ----------------------------------
(***************************************************************************)
(* One browser tab against the backend: every step of the session with     *)
(* what it does to the notification socket, to the registries and to the   *)
(* presence of the user.                                                   *)
(***************************************************************************)
EXTENDS Session, Socket

vars == <<sessionVars, socketVars>>

Init == SessionInit /\ SocketInit

\* setUser(null)
NoUserNow == IF user THEN StopListening ELSE UNCHANGED tabVars

Present == online' = TRUE /\ UNCHANGED server

Absent == online' = FALSE /\ UNCHANGED server

--------------------------------------------------------------------------------
(* What the user does.                                                     *)

\* The login touches presence before it answers.
Login == LoggedIn /\ ListenAgain(token') /\ Present

SaveProfile == \/ AskWhoAmI /\ UNCHANGED socketVars
               \/ FindNoToken /\ NoUserNow /\ UNCHANGED serverVars

Logout == ClickLogout /\ UNCHANGED socketVars

TryAgain == RetryConnection /\ UNCHANGED <<sessionVars, serverVars>>

Reload == SessionReload /\ TabGone /\ UNCHANGED serverVars

--------------------------------------------------------------------------------
(* Calls and their answers.                                                *)

MeAnswered == ToldWhoIAm /\ ListenAgain(token) /\ UNCHANGED serverVars

MeFails == NotToldWhoIAm /\ NoUserNow /\ UNCHANGED serverVars

Heartbeat == SendHeartbeat /\ UNCHANGED socketVars

HeartbeatAnswered == HeartbeatHeard /\ Present /\ UNCHANGED tabVars

HeartbeatLost == HeartbeatFails /\ UNCHANGED socketVars

\* logout_user marks the user offline, whatever sockets there are.
LogoutAnswered == LogoutHeard /\ NoUserNow /\ Absent

LogoutLost == LogoutFails /\ NoUserNow /\ UNCHANGED serverVars

Denied(c) == AwaitRefresh(c) /\ UNCHANGED socketVars

Refreshed == RefreshSucceeds /\ UNCHANGED socketVars

NotRefreshed ==
    /\ RefreshFails
    /\ IF user' THEN UNCHANGED tabVars ELSE NoUserNow
    /\ UNCHANGED serverVars

Expiry == TokenExpires /\ UNCHANGED socketVars

--------------------------------------------------------------------------------
(* The socket, its timers, and the server's end.                           *)

Closed(s) == OnClose(s) /\ UNCHANGED <<sessionVars, serverVars>>

TimerFires == Reconnect(token) /\ UNCHANGED <<sessionVars, serverVars>>

BannerShown == BannerTimerFires /\ UNCHANGED <<sessionVars, serverVars>>

TokenBad(s) == client[s] = "stale" /\ Refuse(s) /\ UNCHANGED sessionVars

Unreachable(s) == client[s] = "connecting" /\ Refuse(s) /\ UNCHANGED sessionVars

TokenGood(s) == Touch(s) /\ UNCHANGED sessionVars

Opened(s) == Register(s) /\ UNCHANGED sessionVars

HandshakeFails(s) == Abandon(s) /\ UNCHANGED sessionVars

ConnectionBreaks(s) == Break(s) /\ UNCHANGED sessionVars

ServerSeesClose(s) == Unregister(s) /\ UNCHANGED sessionVars

ServerMarks(s) == MarkOffline(s) /\ UNCHANGED sessionVars

Restart(lost) == InstanceStops(lost) /\ UNCHANGED sessionVars

Lapse == PresenceLapses /\ UNCHANGED sessionVars

--------------------------------------------------------------------------------
(* Specification.                                                          *)

\* What somebody does, and what goes wrong.
Disturbance ==
    \/ Login \/ SaveProfile \/ Logout \/ TryAgain \/ Reload
    \/ MeFails \/ HeartbeatLost \/ LogoutLost \/ NotRefreshed \/ Expiry
    \/ \E s \in Sockets : Unreachable(s) \/ HandshakeFails(s) \/ ConnectionBreaks(s)
    \/ \E lost \in (SUBSET {s \in Sockets : server[s] # "none"}) \ {{}} : Restart(lost)

\* What goes on by itself.
CallStep(c) ==
    \/ Denied(c)
    \/ c = "me" /\ MeAnswered
    \/ c = "heartbeat" /\ (Heartbeat \/ HeartbeatAnswered)
    \/ c = "logout" /\ LogoutAnswered

SocketStep(s) ==
    \/ Closed(s) \/ TokenBad(s) \/ TokenGood(s) \/ Opened(s)
    \/ ServerSeesClose(s) \/ ServerMarks(s)

Going ==
    \/ Refreshed \/ TimerFires \/ BannerShown \/ Lapse
    \/ \E c \in Calls : CallStep(c)
    \/ \E s \in Sockets : SocketStep(s)

Next == Disturbance \/ Going

Spec == Init /\ [][Next]_vars

--------------------------------------------------------------------------------
(* Properties.                                                             *)

\* Typing.
TypeOK == SessionTypeOK /\ SocketTypeOK

\* Reconnection never multiplies: at most one socket or reconnect timer belongs
\* to the generation of now, however the user object is replaced while sockets
\* open, close and time out.
OneChain == timers + Cardinality(Chain) <= 1

\* Nobody signed in, nobody reconnects: what is left of the sockets of the user
\* before cannot open another one.
NoChainSignedOut == ~user => timers = 0 /\ Chain = {}

\* The socket the tab reconnects for is not open while the banner "live
\* notifications are unavailable" is up, however its timer, a failing socket and
\* the one that takes over interleave.  Sockets that an earlier generation left
\* open do not count here.
BannerDownWhileConnected == banner = "shown" => \A s \in Chain : client[s] # "open"

\* Signed in, with a token to connect with, and nothing that will ever connect.
Deaf == user /\ token # "none" /\ Chain = {} /\ timers = 0

\* A tab that listens, or tries to, goes on doing so for as long as it has a
\* token.  The one way to go deaf is a refresh that answers after a logout dropped
\* the tokens and an /auth/me signed the user back in: it stores tokens again, and
\* nothing connects with them.
DeafOnlyByResurrection ==
    [][~Deaf /\ Deaf' => token = "none" /\ refreshing /\ ~refreshing']_vars
================================================================================
