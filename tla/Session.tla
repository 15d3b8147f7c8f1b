-------------------------------- MODULE Session --------------------------------
(***************************************************************************)
(* The session of one browser tab: the tokens in localStorage, the axios   *)
(* interceptors that refresh them, and the user object of AuthContext.     *)
(*                                                                         *)
(* A call is one HTTP request of the tab.  A call denied with 401 while a  *)
(* refresh token is stored waits for the one shared refresh, then is sent  *)
(* again, once.  Three calls matter to the session: GET /auth/me, the      *)
(* heartbeat and the logout.  A login answers in one step: nothing else in *)
(* the tab depends on when it was sent.                                    *)
(*                                                                         *)
(* The operators change the variables of this module only.  Tab joins each *)
(* of them with what it makes the notification socket and the presence of  *)
(* the user do.                                                            *)
(***************************************************************************)
EXTENDS Naturals, FiniteSets

CONSTANT MaxCalls  \* bound on the calls in flight besides the heartbeat

VARIABLES
    user,       \* AuthContext: is there a user object
    token,      \* the access token stored; the refresh token goes with it
    calls,      \* each call: idle, or how it was sent, or waiting
    refreshing  \* is refreshPromise set

sessionVars == <<user, token, calls, refreshing>>

Calls == {"me", "heartbeat", "logout"}

\* setTokens and clearTokens write both tokens, so one value stands for the two.
Tokens == {"none", "live", "expired"}

\* A call in flight is named after the token in its header; "again" is a call
\* sent a second time, with the token the refresh gave.
Phases == {"idle", "waiting", "again"} \cup Tokens

SessionTypeOK ==
    /\ user \in BOOLEAN
    /\ token \in Tokens
    /\ calls \in [Calls -> Phases]
    /\ refreshing \in BOOLEAN

InFlight == {c \in Calls : calls[c] # "idle"}

Waiting == {c \in Calls : calls[c] = "waiting"}

\* The page loads: refreshUser asks who the token belongs to, if there is one.
SessionLoaded(t) ==
    [user |-> FALSE, token |-> t, refreshing |-> FALSE,
     calls |-> [c \in Calls |-> IF c = "me" /\ t # "none" THEN t ELSE "idle"]]

SessionInit ==
    \E t \in Tokens :
        /\ user = SessionLoaded(t).user
        /\ token = SessionLoaded(t).token
        /\ calls = SessionLoaded(t).calls
        /\ refreshing = SessionLoaded(t).refreshing

SessionReload ==
    /\ user' = SessionLoaded(token).user
    /\ token' = SessionLoaded(token).token
    /\ calls' = SessionLoaded(token).calls
    /\ refreshing' = SessionLoaded(token).refreshing

--------------------------------------------------------------------------------
(* Calls and the interceptors.                                             *)

\* The request interceptor puts the stored token in the header.
Send(c) ==
    /\ calls[c] = "idle"
    /\ c = "heartbeat" \/ Cardinality(InFlight \ {"heartbeat"}) < MaxCalls
    /\ calls' = [calls EXCEPT ![c] = token]

Settled(c) == [calls EXCEPT ![c] = "idle"]

Accepted(c) == calls[c] \in {"live", "again"}

Unauthorized(c) == calls[c] \in {"none", "expired"}

\* The error reaches the caller: no answer, a status but 401, or a 401 that the
\* interceptor does not retry.
Rejected(c) == calls[c] \in Tokens \cup {"again"}

AwaitRefresh_NeverRetries(c) == FALSE

\* 401, not retried yet, and a refresh token is stored: the call joins the
\* refresh under way or starts it.
AwaitRefresh(c) ==
    /\ Unauthorized(c)
    /\ token # "none"
    /\ calls' = [calls EXCEPT ![c] = "waiting"]
    /\ refreshing' = TRUE
    /\ UNCHANGED <<user, token>>

RefreshGiven_StoresNothing ==
    /\ token' = token
    /\ calls' = [c \in Calls |-> IF c \in Waiting THEN "again" ELSE calls[c]]

\* POST /auth/refresh answers: new tokens are stored, whoever is signed in by
\* then, and the calls that waited are sent again.
RefreshGiven ==
    /\ token' = "live"
    /\ calls' = [c \in Calls |-> IF c \in Waiting THEN "again" ELSE calls[c]]

RefreshSucceeds ==
    /\ refreshing
    /\ RefreshGiven
    /\ refreshing' = FALSE
    /\ UNCHANGED user

\* Any failure of the refresh drops the tokens; each call that waited fails with
\* the error it had.  Of these, /auth/me and the logout end the session.
RefreshFails ==
    /\ refreshing
    /\ token' = "none"
    /\ calls' = [c \in Calls |-> IF c \in Waiting THEN "idle" ELSE calls[c]]
    /\ refreshing' = FALSE
    /\ user' = (user /\ Waiting \cap {"me", "logout"} = {})

TokenExpires ==
    /\ token = "live"
    /\ token' = "expired"
    /\ UNCHANGED <<user, calls, refreshing>>

--------------------------------------------------------------------------------
(* AuthContext.                                                            *)

\* login: POST /auth/login accepted, tokens stored, user set.
LoggedIn ==
    /\ user' = TRUE
    /\ token' = "live"
    /\ UNCHANGED <<calls, refreshing>>

\* refreshUser, after the profile was saved, with a token stored.
AskWhoAmI ==
    /\ user
    /\ token # "none"
    /\ Send("me")
    /\ UNCHANGED <<user, token, refreshing>>

\* refreshUser without a token.
FindNoToken ==
    /\ user
    /\ token = "none"
    /\ user' = FALSE
    /\ UNCHANGED <<token, calls, refreshing>>

\* setUser(data): a new object even for the same user.
ToldWhoIAm ==
    /\ Accepted("me")
    /\ user' = TRUE
    /\ calls' = Settled("me")
    /\ UNCHANGED <<token, refreshing>>

\* clearTokens, setUser(null).
SignedOut(c) ==
    /\ user' = FALSE
    /\ token' = "none"
    /\ calls' = Settled(c)
    /\ UNCHANGED refreshing

NotToldWhoIAm == Rejected("me") /\ SignedOut("me")

\* The interval of the heartbeat runs while there is a user.
SendHeartbeat ==
    /\ user
    /\ Send("heartbeat")
    /\ UNCHANGED <<user, token, refreshing>>

HeartbeatHeard ==
    /\ Accepted("heartbeat")
    /\ calls' = Settled("heartbeat")
    /\ UNCHANGED <<user, token, refreshing>>

HeartbeatFails ==
    /\ Rejected("heartbeat")
    /\ calls' = Settled("heartbeat")
    /\ UNCHANGED <<user, token, refreshing>>

ClickLogout ==
    /\ user
    /\ Send("logout")
    /\ UNCHANGED <<user, token, refreshing>>

LogoutHeard == Accepted("logout") /\ SignedOut("logout")

\* The error is ignored: the tab signs out all the same.
LogoutFails == Rejected("logout") /\ SignedOut("logout")
================================================================================
