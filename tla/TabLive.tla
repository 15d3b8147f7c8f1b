-------------------------------- MODULE TabLive --------------------------------
(***************************************************************************)
(* The tab once things are calm: from some time on nobody does anything    *)
(* and nothing goes wrong, and answers, timers and the events of sockets   *)
(* come, each in its time.  Until then everything may happen as in Tab.    *)
(***************************************************************************)
EXTENDS Tab

VARIABLE calm

liveVars == <<vars, calm>>

LiveInit == Init /\ calm = FALSE

\* The properties speak of what holds in the end for a tab that has a user and a token
\* for good, and with a token every call is answered in the end: it makes no difference
\* to wait for the two, and until one call at most is left besides the heartbeat.
CalmDown ==
    /\ ~calm
    /\ user /\ token # "none"
    /\ Cardinality(InFlight \ {"heartbeat"}) <= 1
    /\ calm' = TRUE
    /\ UNCHANGED vars

LiveStep ==
    \/ ~calm /\ Disturbance
    \/ Going

LiveNext == (LiveStep /\ UNCHANGED calm) \/ CalmDown

Calmly(A) == calm /\ A /\ UNCHANGED calm

\* No order is promised among calls, sockets and timers, and no disturbance has to
\* happen.
Fairness ==
    /\ \A c \in Calls : WF_liveVars(Calmly(CallStep(c)))
    /\ \A s \in Sockets : WF_liveVars(Calmly(SocketStep(s)))
    /\ WF_liveVars(Calmly(Refreshed))
    /\ WF_liveVars(Calmly(TimerFires))

LiveSpec == LiveInit /\ [][LiveNext]_liveVars

FairSpec == LiveSpec /\ Fairness

--------------------------------------------------------------------------------
(* Properties.                                                             *)

Listening == \E s \in Chain : client[s] = "open"

\* Once things are calm, a tab that has a token gets its socket open and keeps
\* it, even if the token has expired: the heartbeat has it refreshed.
Reconnects == <>[](calm /\ user /\ token # "none" /\ ~Deaf) => <>[]Listening

\* Once things are calm, the heartbeats of a tab that is signed in bring its user
\* back online, whichever closing socket marked the user offline.
OnlineAgain == <>[](calm /\ user /\ token # "none") => []<>online
================================================================================
