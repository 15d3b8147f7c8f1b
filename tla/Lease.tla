--------------------------------- MODULE Lease ---------------------------------
(***************************************************************************)
(* What the lock of a ticket promises: a lease.  At any time at most one   *)
(* user holds a ticket, for a time that is known when the lease is         *)
(* granted; while it runs it passes to nobody else directly, and its       *)
(* holder can only lengthen it.  It ends by being given up (by the holder, *)
(* by an admin, or by a janitor) or by running out.                        *)
(***************************************************************************)
EXTENDS Naturals

CONSTANTS Tickets, Users, None, Ttl

VARIABLES
    holder,  \* who holds each ticket, None for nobody
    left     \* the time left to the holder, 0 for nobody

vars == <<holder, left>>

\* Time passes for all leases together, and those that run out end.
Pass ==
    /\ left' = [t \in Tickets |-> IF left[t] = 0 THEN 0 ELSE left[t] - 1]
    /\ holder' = [t \in Tickets |-> IF left[t] > 1 THEN holder[t] ELSE None]

\* A free ticket is leased, or its holder's lease is lengthened.
Grant(t, u, time) ==
    /\ holder[t] \in {u, None}
    /\ time \geq left[t]
    /\ holder' = [holder EXCEPT ![t] = u]
    /\ left' = [left EXCEPT ![t] = time]

End(t) ==
    /\ holder' = [holder EXCEPT ![t] = None]
    /\ left' = [left EXCEPT ![t] = 0]

Init ==
    /\ holder = [t \in Tickets |-> None]
    /\ left = [t \in Tickets |-> 0]

Next ==
    \/ Pass
    \/ \E t \in Tickets : End(t)
    \/ \E t \in Tickets, u \in Users, time \in 1..Ttl : Grant(t, u, time)

Spec == Init /\ [][Next]_vars
================================================================================
