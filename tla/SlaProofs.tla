-------------------------------- MODULE SlaProofs --------------------------------
(***************************************************************************)
(* No false breach and no endless alerts, for any deadlines, any number of *)
(* instances and any overlap of their passes.                              *)
(*                                                                         *)
(* A pass acts on a ticket it read long ago, but a deadline that was over  *)
(* is over, and a ticket that has its time stamp keeps it: a pass that     *)
(* read it later leaves that deadline alone, and one that read it before   *)
(* the deadline had no breach to flag.  An alert is emitted only once      *)
(* it is flagged, and a flagged one is taken up by no further pass: those  *)
(* that have it in hand, and the announcements made, are together no more  *)
(* than the instances.                                                     *)
(***************************************************************************)
EXTENDS SlaChecker, FiniteSetTheorems, TLAPS

AllAlerts == Kinds \X Alerts

Overdue(k) == now >= due[k]

\* No breach is flagged before its time.
InTime == \A k \in Kinds : <<k, "breached">> \in ticket.flags => Overdue(k)

Distinct(q) == \A i, m \in 1..Len(q) : q[i] = q[m] => i = m

Justified(q) == \A i \in 1..Len(q) : q[i][2] = "breached" => Overdue(q[i][1])

JobOK(rec) ==
    /\ rec \in JobRecords
    /\ rec.time <= now
    /\ Distinct(rec.alerts)
    /\ rec.pc \in {"idle", "read"} <=> rec.alerts = <<>>
    /\ Justified(rec.alerts)

JobsOK == job \in [Jobs -> JobRecords] /\ \A j \in Jobs : JobOK(job[j])

\* What is not flagged is not announced, nor about to be.
FlaggedFirst ==
    \A a \in AllAlerts : a \notin ticket.flags =>
        /\ events[a] = 0
        /\ \A j \in Jobs : ~(job[j].pc = "emit" /\ job[j].alerts[1] = a)

\* The passes that have the alert in hand.
Has(q, a) == \E i \in 1..Len(q) : q[i] = a

InHand(a) == {j \in Jobs : Has(job[j].alerts, a)}

Counted(a) == events[a] + Cardinality(InHand(a)) <= Cardinality(Jobs)

AllCounted == \A a \in AllAlerts : Counted(a)

RestOK ==
    /\ now \in 0..MaxTime
    /\ due \in Dues
    /\ ticket \in TicketDocs
    /\ events \in [AllAlerts -> Nat]
    /\ hand \in [Workers -> HandRecords]
    /\ crashes \in 0..MaxCrashes

IInv == RestOK /\ JobsOK /\ InTime /\ FlaggedFirst /\ AllCounted

--------------------------------------------------------------------------------
(* Alerts.                                                                 *)

LEMMA DueTypes == ASSUME RestOK, NEW k \in Kinds PROVE due[k] \in Nat
BY SlaAssumption DEF RestOK

LEMMA NowTypes == ASSUME RestOK PROVE now \in Nat
BY SlaAssumption DEF RestOK

\* A check raises one alert of its kind, or none; one that is new, and true.
LEMMA CheckRaises ==
    ASSUME RestOK, NEW time \in Nat, time <= now, NEW k \in Kinds,
           Check(ticket, time, k) # <<>>
    PROVE  \E a \in Alerts :
              /\ Check(ticket, time, k) = << <<k, a>> >>
              /\ <<k, a>> \notin ticket.flags
              /\ a = "breached" => Overdue(k)
<1>1. ticket.at[k] = None
    BY DEF Check, Done
<1>2. CASE Missed(time, k) /\ ~Flagged(ticket, k, "breached")
    <2>1. Check(ticket, time, k) = << <<k, "breached">> >>
        BY <1>1, <1>2 DEF Check, Done
    <2>2. Overdue(k)
        BY <1>1, <1>2, DueTypes, NowTypes DEF Missed, Overdue
    <2> QED
        BY <1>2, <2>1, <2>2 DEF Flagged, Alerts
<1>3. CASE ~(Missed(time, k) /\ ~Flagged(ticket, k, "breached"))
    <2>1. /\ Check(ticket, time, k) = << <<k, "near_breach">> >>
          /\ ~Flagged(ticket, k, "near_breach")
        BY <1>1, <1>3 DEF Check, Done
    <2> QED
        BY <2>1 DEF Flagged, Alerts
<1> QED
    BY <1>2, <1>3

LEMMA OneElement ==
    ASSUME NEW S, NEW x \in S
    PROVE  /\ <<x>> \in Seq(S) /\ Len(<<x>>) = 1 /\ <<x>>[1] = x
           /\ <<x>> \o <<>> = <<x>> /\ <<>> \o <<x>> = <<x>>
OBVIOUS

LEMMA TwoElements ==
    ASSUME NEW S, NEW x \in S, NEW y \in S, NEW q, q = <<x>> \o <<y>>
    PROVE  q \in Seq(S) /\ Len(q) = 2 /\ q[1] = x /\ q[2] = y
OBVIOUS

AtMostOne(f) == f = <<>> \/ \E x \in AllAlerts : f = <<x>>

Apart(f, r) == \A x, y \in AllAlerts : f = <<x>> /\ r = <<y>> => x # y

\* q has what f and r have, once.
Lists(q, f, r) ==
    /\ q \in Seq(AllAlerts) /\ Distinct(q)
    /\ \A i \in 1..Len(q) : f = <<q[i]>> \/ r = <<q[i]>>

\* Two sequences of at most one element, one after the other.
LEMMA Joined ==
    ASSUME NEW f, NEW r, NEW q, q = f \o r, AtMostOne(f), AtMostOne(r), Apart(f, r)
    PROVE  Lists(q, f, r)
<1>1. CASE f = <<>> /\ r = <<>>
    <2>1. q = <<>> /\ Len(q) = 0 /\ q \in Seq(AllAlerts)
        BY <1>1
    <2> QED
        BY <2>1 DEF Distinct, Lists
<1>2. ASSUME NEW x \in AllAlerts, q = <<x>>, f = <<x>> \/ r = <<x>>
      PROVE  Lists(q, f, r)
    <2>1. q \in Seq(AllAlerts) /\ Len(q) = 1 /\ q[1] = x
        BY <1>2, OneElement
    <2> QED
        BY <1>2, <2>1 DEF Distinct, Lists
<1>3. ASSUME NEW x \in AllAlerts, NEW y \in AllAlerts, f = <<x>>, r = <<y>>
      PROVE  Lists(q, f, r)
    <2>1. q \in Seq(AllAlerts) /\ Len(q) = 2 /\ q[1] = x /\ q[2] = y
        BY <1>3, TwoElements
    <2>2. x # y
        BY <1>3 DEF Apart
    <2>3. \A i \in 1..Len(q) : i = 1 \/ i = 2
        BY <2>1
    <2>4. Distinct(q)
        BY <2>1, <2>2, <2>3 DEF Distinct
    <2>5. \A i \in 1..Len(q) : q[i] = x \/ q[i] = y
        BY <2>1, <2>3
    <2> QED
        BY <1>3, <2>1, <2>4, <2>5 DEF Lists
<1>4. ASSUME NEW x \in AllAlerts, (f = <<x>> /\ r = <<>>) \/ (f = <<>> /\ r = <<x>>) PROVE q = <<x>>
    BY <1>4, OneElement
<1>5. CASE f = <<>> /\ r # <<>>
    BY <1>2, <1>4, <1>5 DEF AtMostOne
<1>6. CASE f # <<>> /\ r = <<>>
    BY <1>2, <1>4, <1>6 DEF AtMostOne
<1>7. CASE f # <<>> /\ r # <<>>
    BY <1>3, <1>7 DEF AtMostOne
<1> QED
    BY <1>1, <1>5, <1>6, <1>7

\* Both checks together raise distinct alerts, new and true.
LEMMA ChecksRaise ==
    ASSUME RestOK, NEW time \in Nat, time <= now, NEW f, NEW r, NEW q,
           f = Check(ticket, time, "first_response"), r = Check(ticket, time, "resolve"),
           q = f \o r
    PROVE  /\ q \in Seq(AllAlerts) /\ Distinct(q) /\ Justified(q)
           /\ \A i \in 1..Len(q) : q[i] \notin ticket.flags
<1> DEFINE True(x) == x \notin ticket.flags /\ (x[2] = "breached" => Overdue(x[1]))
<1>1. ASSUME NEW k \in Kinds, Check(ticket, time, k) # <<>>
      PROVE  \E x \in AllAlerts : Check(ticket, time, k) = <<x>> /\ True(x) /\ x[1] = k
    <2>1. PICK a \in Alerts : /\ Check(ticket, time, k) = << <<k, a>> >>
                              /\ <<k, a>> \notin ticket.flags
                              /\ a = "breached" => Overdue(k)
        BY <1>1, CheckRaises
    <2>2. <<k, a>> \in AllAlerts /\ True(<<k, a>>) /\ <<k, a>>[1] = k
        BY <2>1 DEF AllAlerts
    <2> QED
        BY <2>1, <2>2
<1>2. f = <<>> \/ \E x \in AllAlerts : f = <<x>> /\ True(x) /\ x[1] = "first_response"
    BY <1>1 DEF Kinds
<1>3. r = <<>> \/ \E x \in AllAlerts : r = <<x>> /\ True(x) /\ x[1] = "resolve"
    BY <1>1 DEF Kinds
<1> HIDE DEF True
<1>5. \A x, y : <<x>> = <<y>> => x = y
    OBVIOUS
<1>6. \A x : <<x>> # <<>>
    OBVIOUS
<1>7. Lists(q, f, r)
    <2>1. Apart(f, r)
        BY <1>2, <1>3, <1>5, <1>6 DEF Apart
    <2>2. AtMostOne(f) /\ AtMostOne(r)
        BY <1>2, <1>3 DEF AtMostOne
    <2> QED
        BY <2>1, <2>2, Joined
<1>8. \A i \in 1..Len(q) : True(q[i])
    BY <1>2, <1>3, <1>5, <1>6, <1>7 DEF Lists
<1> QED
    BY <1>7, <1>8 DEF True, Justified, Lists

\* What is left after the first alert.
LEMMA RestOfAlerts ==
    ASSUME NEW q \in Seq(AllAlerts), q # <<>>
    PROVE  /\ Tail(q) \in Seq(AllAlerts) /\ Len(Tail(q)) = Len(q) - 1 /\ Len(q) \in Nat \ {0}
           /\ \A i \in 1..Len(Tail(q)) : Tail(q)[i] = q[i + 1]
           /\ Head(q) = q[1] /\ q[1] \in AllAlerts
OBVIOUS

--------------------------------------------------------------------------------
(* What stays true of the ticket.                                          *)

\* The deadlines stay, and the time does not run backwards.
Kept == UNCHANGED due /\ now' \in Nat /\ now' >= now

LEMMA OverdueKept ==
    ASSUME RestOK, Kept, NEW k \in Kinds, Overdue(k) PROVE Overdue(k)'
BY DueTypes, NowTypes DEF Kept, Overdue

LEMMA KindsOfAlerts ==
    ASSUME NEW rec \in JobRecords, NEW i \in 1..Len(rec.alerts)
    PROVE  rec.alerts[i] \in AllAlerts /\ rec.alerts[i][1] \in Kinds
BY DEF JobRecords, AllAlerts

LEMMA JobKept == ASSUME RestOK, Kept, NEW rec, JobOK(rec) PROVE JobOK(rec)'
<1>1. rec.time <= now'
    BY NowTypes DEF Kept, JobOK, JobRecords
<1>2. Justified(rec.alerts)'
    BY KindsOfAlerts, OverdueKept DEF Justified, JobOK
<1> QED
    BY <1>1, <1>2 DEF JobOK

LEMMA BreachesKept ==
    ASSUME RestOK, Kept, ticket'.flags = ticket.flags, InTime PROVE InTime'
BY OverdueKept DEF InTime

\* A step of somebody else than the passes.
LEMMA OtherStepInv ==
    ASSUME IInv, Kept, ticket'.flags = ticket.flags, UNCHANGED <<events, job>>, RestOK'
    PROVE  IInv'
<1>1. JobsOK'
    BY JobKept DEF JobsOK, IInv
<1>2. InTime'
    BY BreachesKept DEF IInv
<1>3. FlaggedFirst'
    BY DEF IInv, FlaggedFirst
<1>4. AllCounted'
    BY DEF IInv, AllCounted, Counted, InHand, Has
<1> QED
    BY <1>1, <1>2, <1>3, <1>4 DEF IInv

\* Whatever a technician does, flags and passes stay as they are.
LEMMA WorkKeeps ==
    ASSUME RestOK, NEW w \in Workers, Work(w)
    PROVE  /\ hand' \in [Workers -> HandRecords] /\ ticket' \in TicketDocs
           /\ ticket'.flags = ticket.flags
           /\ \A k \in Kinds : ticket.at[k] # None => ticket'.at[k] # None
           /\ UNCHANGED <<now, due, events, job, crashes>>
<1>1. /\ hand \in [Workers -> HandRecords] /\ ticket \in TicketDocs
      /\ Resting \in HandRecords /\ None \notin Stamps
    BY SlaAssumption DEF RestOK, HandRecords, Resting, Stamps
<1>2. CASE Begin(w) \/ GiveUp(w)
    BY <1>1, <1>2 DEF Begin, GiveUp, HandRecords
<1>3. CASE TakeTime(w)
    BY <1>1, <1>3 DEF TakeTime, HandRecords, Stamps
<1>4. CASE Answer(w) \/ Resolve(w) \/ Reject(w)
    <2>1. hand[w].stamp \in Stamps /\ hand[w].starts \in BOOLEAN
        BY <1>1, <1>4 DEF Answer, Resolve, Reject, Writing, HandRecords
    <2>2. hand' \in [Workers -> HandRecords]
        BY <1>1, <1>4 DEF Answer, Resolve, Reject, Writing
    <2>3. UNCHANGED <<now, due, events, job, crashes>>
        BY <1>4 DEF Answer, Resolve, Reject, Writing
    <2>4. CASE Answer(w)
        BY <1>1, <2>1, <2>2, <2>3, <2>4 DEF Answer, TicketDocs, Kinds
    <2>5. CASE Resolve(w)
        BY <1>1, <2>1, <2>2, <2>3, <2>5 DEF Resolve, TicketDocs, Kinds
    <2>6. CASE Reject(w)
        BY <1>1, <2>2, <2>3, <2>6 DEF Reject, TicketDocs
    <2> QED
        BY <1>4, <2>4, <2>5, <2>6
<1> QED
    BY <1>2, <1>3, <1>4 DEF Work

\* Technicians, and the clock.
LEMMA TechnicianInv ==
    ASSUME IInv, (\E w \in Workers : Work(w)) \/ Reopen \/ Tick PROVE IInv'
<1>1. now \in Nat /\ RestOK
    BY NowTypes DEF IInv
<1>2. CASE \E w \in Workers : Work(w)
    <2>1. RestOK' /\ Kept /\ ticket'.flags = ticket.flags /\ UNCHANGED <<events, job>>
        BY <1>1, <1>2, WorkKeeps DEF RestOK, Kept
    <2> QED
        BY <2>1, OtherStepInv
<1>3. CASE Reopen
    <2>1. ticket' \in TicketDocs /\ ticket'.flags = ticket.flags
        BY <1>1, <1>3 DEF Reopen, RestOK, TicketDocs
    <2>2. RestOK' /\ Kept
        BY <1>1, <1>3, <2>1 DEF Reopen, RestOK, Kept
    <2> QED
        BY <1>3, <2>1, <2>2, OtherStepInv DEF Reopen
<1>4. CASE Tick
    <2>1. RestOK' /\ now' = now + 1
        BY <1>1, <1>4, SlaAssumption DEF Tick, RestOK
    <2>2. Kept /\ ticket'.flags = ticket.flags
        BY <1>1, <1>4, <2>1 DEF Tick, Kept
    <2> QED
        BY <1>4, <2>1, <2>2, OtherStepInv DEF Tick
<1> QED
    BY <1>2, <1>3, <1>4

--------------------------------------------------------------------------------
(* Counting.                                                               *)

LEMMA InHandFinite ==
    \A a : IsFiniteSet(InHand(a)) /\ Cardinality(InHand(a)) \in Nat
           /\ Cardinality(InHand(a)) <= Cardinality(Jobs) /\ Cardinality(Jobs) \in Nat
BY SlaAssumption, FS_Subset, FS_CardinalityType DEF InHand

\* Fewer in hand, and nothing announced.
LEMMA CountedKept ==
    ASSUME IInv, NEW a \in AllAlerts, InHand(a)' \subseteq InHand(a), events'[a] = events[a]
    PROVE  Counted(a)'
<1>1. Cardinality(InHand(a)') <= Cardinality(InHand(a)) /\ Cardinality(InHand(a)') \in Nat
    BY InHandFinite, FS_Subset, FS_CardinalityType
<1>2. Counted(a) /\ events[a] \in Nat
    BY DEF IInv, AllCounted, RestOK
<1> QED
    BY <1>1, <1>2, InHandFinite DEF Counted

\* Nothing announced yet: as many may have it in hand as there are.
LEMMA CountedAtFirst ==
    ASSUME IInv, NEW a \in AllAlerts, events'[a] = 0, InHand(a)' \subseteq Jobs
    PROVE  Counted(a)'
<1>1. Cardinality(InHand(a)') <= Cardinality(Jobs) /\ Cardinality(InHand(a)') \in Nat
    BY SlaAssumption, FS_Subset, FS_CardinalityType
<1> QED
    BY <1>1 DEF Counted

\* Announced once more by one who had it in hand.
LEMMA CountedMoves ==
    ASSUME IInv, NEW a \in AllAlerts, NEW j \in InHand(a), events'[a] = events[a] + 1,
           InHand(a)' = InHand(a) \ {j}
    PROVE  Counted(a)'
<1>1. Cardinality(InHand(a)') = Cardinality(InHand(a)) - 1
    BY InHandFinite, FS_RemoveElement
<1>2. Counted(a) /\ events[a] \in Nat
    BY DEF IInv, AllCounted, RestOK
<1> QED
    BY <1>1, <1>2, InHandFinite DEF Counted

--------------------------------------------------------------------------------
(* The pass.                                                               *)

\* What GoOn makes of a pass.
Going(alerts) ==
    IF alerts = <<>> THEN Idle ELSE [Idle EXCEPT !.pc = "flag", !.alerts = alerts]

LEMMA IdleOK == ASSUME RestOK PROVE JobOK(Idle) /\ Idle.alerts = <<>> /\ \A a : ~Has(<<>>, a)
<1>1. Idle \in JobRecords /\ Len(<<>>) = 0
    BY DEF Idle, JobRecords
<1>2. Idle.time <= now
    BY NowTypes DEF Idle
<1> QED
    BY <1>1, <1>2 DEF JobOK, Idle, Distinct, Justified, Has

LEMMA GoingOK ==
    ASSUME RestOK, NEW q \in Seq(AllAlerts), Distinct(q), Justified(q)
    PROVE  /\ JobOK(Going(q)) /\ Going(q).pc # "emit"
           /\ Going(q).alerts = q
<1>1. CASE q = <<>>
    <2>1. Going(q) = Idle
        BY <1>1 DEF Going
    <2> QED
        BY <1>1, <2>1, IdleOK DEF Idle
<1>2. CASE q # <<>>
    <2>1. Going(q) = [pc |-> "flag", time |-> 0, alerts |-> q]
        BY <1>2 DEF Going, Idle
    <2>2. Going(q) \in JobRecords
        BY <2>1 DEF JobRecords, AllAlerts
    <2>3. 0 <= now
        BY NowTypes
    <2> QED
        BY <1>2, <2>1, <2>2, <2>3 DEF JobOK
<1> QED
    BY <1>1, <1>2

\* One pass moves.
LEMMA JobsMove ==
    ASSUME IInv, NEW j \in Jobs, NEW rec, job' = [job EXCEPT ![j] = rec], JobOK(rec),
           UNCHANGED <<now, due>>
    PROVE  JobsOK'
<1>1. \A k : Overdue(k)' <=> Overdue(k)
    BY DEF Overdue
<1>2. rec \in JobRecords
    BY DEF JobOK
<1>3. /\ job' \in [Jobs -> JobRecords]
      /\ \A o \in Jobs : job'[o] = IF o = j THEN rec ELSE job[o]
    BY <1>2 DEF IInv, JobsOK
<1>4. ASSUME NEW o \in Jobs PROVE JobOK(job[o])'
    <2>1. CASE o = j
        BY <1>1, <1>3, <2>1 DEF JobOK, Justified
    <2>2. CASE o # j
        <3>1. JobOK(job[o]) /\ job'[o] = job[o]
            BY <1>3, <2>2 DEF IInv, JobsOK
        <3> QED
            BY <1>1, <3>1 DEF JobOK, Justified
    <2> QED
        BY <2>1, <2>2
<1> QED
    BY <1>3, <1>4 DEF JobsOK

LEMMA InHandMoves ==
    ASSUME IInv, NEW j \in Jobs, NEW rec, job' = [job EXCEPT ![j] = rec], NEW a
    PROVE  /\ \A o \in Jobs \ {j} : o \in InHand(a)' <=> o \in InHand(a)
           /\ j \in InHand(a)' <=> Has(rec.alerts, a)
           /\ InHand(a)' \subseteq Jobs
BY DEF IInv, JobsOK, InHand, Has

\* A pass that takes up no alert, flags none and announces none.
LEMMA QuietMove ==
    ASSUME IInv, NEW j \in Jobs, NEW rec, job' = [job EXCEPT ![j] = rec], JobOK(rec),
           \A a : Has(rec.alerts, a) => j \in InHand(a),
           rec.pc # "emit", RestOK', UNCHANGED <<now, due, ticket, events>>
    PROVE  IInv'
<1>1. JobsOK'
    BY JobsMove
<1>2. InTime'
    BY DEF IInv, InTime, Overdue
<1>3. FlaggedFirst'
    BY DEF IInv, FlaggedFirst, JobsOK
<1>4. ASSUME NEW a \in AllAlerts PROVE Counted(a)'
    <2>1. InHand(a)' \subseteq InHand(a)
        BY InHandMoves
    <2> QED
        BY <2>1, CountedKept
<1> QED
    BY <1>1, <1>2, <1>3, <1>4 DEF IInv, AllCounted

LEMMA StartCrashInv == ASSUME IInv, NEW j \in Jobs, Start(j) \/ Crash(j) PROVE IInv'
<1>1. PICK rec : /\ job' = [job EXCEPT ![j] = rec] /\ rec.alerts = <<>> /\ rec.pc # "emit"
                 /\ JobOK(rec)
    <2>1. CASE Start(j)
        <3> DEFINE r == [Idle EXCEPT !.pc = "read", !.time = now]
        <3>1. job' = [job EXCEPT ![j] = r]
            BY <2>1 DEF Start
        <3>2. now \in Nat /\ JobOK(Idle) /\ Idle \in JobRecords
            BY NowTypes, IdleOK DEF IInv, JobOK
        <3>3. r \in JobRecords /\ r.pc = "read" /\ r.time = now /\ r.alerts = Idle.alerts
            BY <3>2 DEF JobRecords
        <3>4. now <= now /\ Idle.alerts = <<>>
            BY <3>2 DEF Idle
        <3> HIDE DEF r
        <3>5. JobOK(r)
            BY <3>2, <3>3, <3>4 DEF JobOK
        <3> QED
            BY <3>1, <3>3, <3>4, <3>5
    <2>2. CASE Crash(j)
        <3>1. job' = [job EXCEPT ![j] = Idle]
            BY <2>2 DEF Crash
        <3>2. JobOK(Idle) /\ Idle.alerts = <<>> /\ Idle.pc # "emit"
            BY IdleOK DEF IInv, Idle
        <3> QED
            BY <3>1, <3>2
    <2> QED
        BY <2>1, <2>2
<1>2. RestOK'
    BY SlaAssumption DEF Start, Crash, IInv, RestOK
<1>3. \A a : ~Has(rec.alerts, a)
    BY <1>1, IdleOK DEF IInv
<1>4. UNCHANGED <<now, due, ticket, events>>
    BY DEF Start, Crash
<1> QED
    BY <1>1, <1>2, <1>3, <1>4, QuietMove

\* The alerts that a pass takes up are not announced by anybody yet.
LEMMA ReadInv == ASSUME IInv, NEW j \in Jobs, Read(j) PROVE IInv'
<1>1. PICK q : /\ GoOn(j, q)
               /\ q \in Seq(AllAlerts) /\ Distinct(q) /\ Justified(q)
               /\ \A i \in 1..Len(q) : q[i] \notin ticket.flags
    <2>1. CASE ticket.open
        <3>1. job[j].time \in Nat /\ job[j].time <= now
            BY DEF IInv, JobsOK, JobOK, JobRecords
        <3>2. PICK q : q = Check(ticket, job[j].time, "first_response")
                            \o Check(ticket, job[j].time, "resolve")
            OBVIOUS
        <3>3. /\ q \in Seq(AllAlerts) /\ Distinct(q) /\ Justified(q)
              /\ \A i \in 1..Len(q) : q[i] \notin ticket.flags
            BY <3>1, <3>2, ChecksRaise DEF IInv
        <3>4. GoOn(j, q)
            BY <2>1, <3>2 DEF Read
        <3> QED
            BY <3>3, <3>4
    <2>2. CASE ~ticket.open
        <3>1. GoOn(j, <<>>)
            BY <2>2 DEF Read
        <3>2. <<>> \in Seq(AllAlerts) /\ \A i \in 1..Len(<<>>) : FALSE
            OBVIOUS
        <3>3. Distinct(<<>>) /\ Justified(<<>>)
            BY <3>2 DEF Distinct, Justified
        <3>4. \A i \in 1..Len(<<>>) : <<>>[i] \notin ticket.flags
            BY <3>2
        <3> QED
            BY <3>1, <3>2, <3>3, <3>4
    <2> QED
        BY <2>1, <2>2
<1>2. job' = [job EXCEPT ![j] = Going(q)]
    BY <1>1 DEF GoOn, Going
<1>3. JobOK(Going(q)) /\ Going(q).pc # "emit" /\ Going(q).alerts = q
    BY <1>1, GoingOK DEF IInv
<1>4. UNCHANGED <<now, due, ticket, events, hand, crashes>>
    BY DEF Read
<1>5. JobsOK'
    BY <1>2, <1>3, <1>4, JobsMove
<1>6. InTime' /\ RestOK'
    BY <1>4 DEF IInv, InTime, Overdue, RestOK
<1>7. FlaggedFirst'
    BY <1>2, <1>3, <1>4 DEF IInv, FlaggedFirst, JobsOK
<1>8. ASSUME NEW a \in AllAlerts PROVE Counted(a)'
    <2>1. CASE a \in ticket.flags
        <3>1. ~Has(q, a)
            BY <1>1, <2>1 DEF Has
        <3>2. InHand(a)' \subseteq InHand(a)
            BY <1>2, <1>3, <3>1, InHandMoves
        <3> QED
            BY <1>4, <3>2, CountedKept
    <2>2. CASE a \notin ticket.flags
        <3>1. events'[a] = 0
            BY <1>4, <2>2 DEF IInv, FlaggedFirst
        <3>2. InHand(a)' \subseteq Jobs
            BY <1>2, InHandMoves
        <3> QED
            BY <3>1, <3>2, CountedAtFirst
    <2> QED
        BY <2>1, <2>2
<1> QED
    BY <1>5, <1>6, <1>7, <1>8 DEF IInv, AllCounted

\* The first alert in hand is in order, and there is one unless the pass is at rest.
LEMMA FirstInHand ==
    ASSUME IInv, NEW j \in Jobs, job[j].pc \in {"flag", "emit"}
    PROVE  /\ job[j].alerts \in Seq(AllAlerts) /\ job[j].alerts # <<>>
           /\ Len(job[j].alerts) \in Nat \ {0}
           /\ Head(job[j].alerts) = job[j].alerts[1]
           /\ job[j].alerts[1] \in AllAlerts
           /\ job[j].alerts[1][2] = "breached" => Overdue(job[j].alerts[1][1])
<1>1. job[j].alerts \in Seq(AllAlerts) /\ job[j].alerts # <<>>
    BY DEF IInv, JobsOK, JobOK, JobRecords, AllAlerts
<1>2. Len(job[j].alerts) \in Nat \ {0} /\ Head(job[j].alerts) = job[j].alerts[1]
      /\ job[j].alerts[1] \in AllAlerts
    BY <1>1, RestOfAlerts
<1>3. 1 \in 1..Len(job[j].alerts)
    BY <1>2
<1> QED
    BY <1>1, <1>2, <1>3 DEF IInv, JobsOK, JobOK, Justified

LEMMA FlagInv == ASSUME IInv, NEW j \in Jobs, Flag(j) PROVE IInv'
<1> DEFINE a0 == job[j].alerts[1]
           rec == [job[j] EXCEPT !.pc = "emit"]
<1>1. /\ a0 \in AllAlerts /\ Head(job[j].alerts) = a0 /\ job[j].alerts # <<>>
      /\ a0[2] = "breached" => Overdue(a0[1])
    BY FirstInHand DEF Flag
<1>2. /\ ticket' = [ticket EXCEPT !.flags = @ \cup {a0}]
      /\ job' = [job EXCEPT ![j] = rec]
      /\ UNCHANGED <<now, due, events, hand, crashes>>
    BY <1>1 DEF Flag
<1>3. /\ ticket' \in TicketDocs /\ ticket'.at = ticket.at
      /\ ticket'.flags = ticket.flags \cup {a0}
    BY <1>1, <1>2 DEF IInv, RestOK, TicketDocs, AllAlerts
<1>4. /\ JobOK(rec) /\ rec.alerts = job[j].alerts /\ rec.pc = "emit"
    BY <1>1 DEF IInv, JobsOK, JobOK, JobRecords
<1>5. JobsOK'
    BY <1>2, <1>3, <1>4, JobsMove
<1>6. RestOK'
    BY <1>2, <1>3 DEF IInv, RestOK
<1>7. InTime'
    <2>1. \A k \in Kinds : <<k, "breached">> \in ticket'.flags => Overdue(k)
        BY <1>1, <1>3 DEF IInv, InTime
    <2>2. \A k \in Kinds : Overdue(k) => Overdue(k)'
        BY <1>2 DEF Overdue
    <2> QED
        BY <2>1, <2>2 DEF InTime
<1> HIDE DEF a0, rec
<1>8. FlaggedFirst'
    <2>1. \A o \in Jobs : job'[o] = IF o = j THEN rec ELSE job[o]
        BY <1>2 DEF IInv, JobsOK
    <2> QED
        BY <1>2, <1>3, <1>4, <2>1 DEF IInv, FlaggedFirst, a0
<1>9. ASSUME NEW a \in AllAlerts PROVE Counted(a)'
    <2>1. InHand(a)' \subseteq InHand(a)
        BY <1>2, <1>4, InHandMoves DEF InHand
    <2> QED
        BY <1>2, <2>1, CountedKept
<1> QED
    BY <1>5, <1>6, <1>7, <1>8, <1>9 DEF IInv, AllCounted

LEMMA EmitInv == ASSUME IInv, NEW j \in Jobs, Emit(j) PROVE IInv'
<1> DEFINE q == job[j].alerts
<1>1. /\ q \in Seq(AllAlerts) /\ q # <<>> /\ Len(q) \in Nat \ {0}
      /\ Head(q) = q[1] /\ q[1] \in AllAlerts /\ Distinct(q) /\ Justified(q)
    BY FirstInHand DEF Emit, IInv, JobsOK, JobOK
<1>2. /\ events' = [events EXCEPT ![q[1]] = @ + 1]
      /\ job' = [job EXCEPT ![j] = Going(Tail(q))]
      /\ UNCHANGED <<now, due, ticket, hand, crashes>>
    BY <1>1 DEF Emit, GoOn, Going
<1>3. q[1] \in ticket.flags
    BY <1>1 DEF Emit, IInv, FlaggedFirst
<1>4. j \in InHand(q[1])
    <2>1. 1 \in 1..Len(q)
        BY <1>1
    <2> QED
        BY <2>1 DEF InHand, Has
<1> HIDE DEF q
<1>5. /\ Tail(q) \in Seq(AllAlerts) /\ Len(Tail(q)) = Len(q) - 1
      /\ \A i \in 1..Len(Tail(q)) : Tail(q)[i] = q[i + 1]
    BY <1>1, RestOfAlerts
<1>6. \A i \in 1..Len(Tail(q)) : i + 1 \in 1..Len(q) /\ i + 1 # 1 /\ 1 \in 1..Len(q)
    BY <1>1, <1>5
<1>7. Distinct(Tail(q)) /\ Justified(Tail(q)) /\ ~Has(Tail(q), q[1])
    <2>1. ASSUME NEW i \in 1..Len(Tail(q)), NEW m \in 1..Len(Tail(q)), Tail(q)[i] = Tail(q)[m]
          PROVE  i = m
        <3>1. i + 1 = m + 1
            BY <1>1, <1>5, <1>6, <2>1 DEF Distinct
        <3> QED
            BY <3>1
    <2>2. Justified(Tail(q))
        BY <1>1, <1>5, <1>6 DEF Justified
    <2>3. ~Has(Tail(q), q[1])
        BY <1>1, <1>5, <1>6 DEF Distinct, Has
    <2> QED
        BY <2>1, <2>2, <2>3 DEF Distinct
<1>8. /\ JobOK(Going(Tail(q))) /\ Going(Tail(q)).pc # "emit"
      /\ Going(Tail(q)).alerts = Tail(q)
    BY <1>5, <1>7, GoingOK DEF IInv
<1>9. JobsOK'
    BY <1>2, <1>8, JobsMove
<1>10. RestOK' /\ InTime'
    <2>1. events' \in [AllAlerts -> Nat]
        BY <1>1, <1>2 DEF IInv, RestOK
    <2> QED
        BY <1>2, <2>1 DEF IInv, RestOK, InTime, Overdue
<1>11. FlaggedFirst'
    <2>1. \A o \in Jobs : job'[o] = IF o = j THEN Going(Tail(q)) ELSE job[o]
        BY <1>2 DEF IInv, JobsOK
    <2>2. \A a \in AllAlerts : a # q[1] => events'[a] = events[a]
        BY <1>2 DEF IInv, RestOK
    <2> QED
        BY <1>2, <1>3, <1>8, <2>1, <2>2 DEF IInv, FlaggedFirst
<1>12. ASSUME NEW a \in AllAlerts PROVE Counted(a)'
    <2>1. CASE a = q[1]
        <3>1. InHand(a)' = InHand(a) \ {j}
            <4>1. j \notin InHand(a)'
                BY <1>2, <1>7, <1>8, <2>1, InHandMoves
            <4>2. \A o \in Jobs \ {j} : o \in InHand(a)' <=> o \in InHand(a)
                BY <1>2, InHandMoves
            <4>3. InHand(a)' \subseteq Jobs /\ InHand(a) \subseteq Jobs
                BY DEF InHand
            <4> QED
                BY <4>1, <4>2, <4>3
        <3>2. events'[a] = events[a] + 1
            BY <1>1, <1>2, <2>1 DEF IInv, RestOK
        <3> QED
            BY <1>4, <2>1, <3>1, <3>2, CountedMoves
    <2>2. CASE a # q[1]
        <3>1. Has(Tail(q), a) => j \in InHand(a)
            BY <1>5, <1>6 DEF Has, InHand, q
        <3>2. InHand(a)' \subseteq InHand(a)
            BY <1>2, <1>8, <3>1, InHandMoves
        <3>3. events'[a] = events[a]
            BY <1>2, <2>2 DEF IInv, RestOK
        <3> QED
            BY <3>2, <3>3, CountedKept
    <2> QED
        BY <2>1, <2>2
<1> QED
    BY <1>9, <1>10, <1>11, <1>12 DEF IInv, AllCounted

--------------------------------------------------------------------------------
(* The invariant, and what follows from it.                                *)

LEMMA InitInv == ASSUME Init PROVE IInv
<1>1. RestOK
    BY SlaAssumption DEF Init, RestOK, TicketDocs, FreshTicket, AllAlerts, HandRecords, Resting
<1>2. \A j \in Jobs : job[j] = Idle
    BY DEF Init
<1>3. JobsOK
    BY <1>1, <1>2, IdleOK DEF Init, JobsOK, JobOK
<1>4. InTime
    BY DEF Init, InTime, FreshTicket
<1>5. FlaggedFirst
    BY <1>2 DEF Init, FlaggedFirst, AllAlerts, Idle
<1>6. ASSUME NEW a \in AllAlerts PROVE Counted(a)
    <2>1. events[a] = 0
        BY DEF Init, AllAlerts
    <2> QED
        BY <2>1, InHandFinite DEF Counted
<1> QED
    BY <1>1, <1>3, <1>4, <1>5, <1>6 DEF IInv, AllCounted

LEMMA StepInv == ASSUME IInv, [Next]_vars PROVE IInv'
<1>1. CASE UNCHANGED vars
    <2>1. Kept
        BY <1>1, NowTypes DEF Kept, vars, IInv
    <2>2. RestOK'
        BY <1>1 DEF vars, RestOK, IInv
    <2> QED
        BY <1>1, <2>1, <2>2, OtherStepInv DEF vars
<1>2. CASE Next
    BY <1>2, TechnicianInv, StartCrashInv, ReadInv, FlagInv, EmitInv DEF Next, Continue
<1> QED
    BY <1>1, <1>2

LEMMA Consequences == ASSUME IInv PROVE TypeOK /\ AlertsBounded
<1>1. TypeOK
    BY DEF IInv, RestOK, JobsOK, TypeOK, AllAlerts
<1>2. AlertsBounded
    <2>1. ASSUME NEW a \in AllAlerts PROVE events[a] <= Cardinality(Jobs)
        <3>1. Counted(a) /\ events[a] \in Nat
            BY DEF IInv, AllCounted, RestOK
        <3> QED
            BY <3>1, InHandFinite DEF Counted
    <2> QED
        BY <2>1 DEF AlertsBounded, AllAlerts
<1> QED
    BY <1>1, <1>2 DEF IInv

\* The strengthened invariant holds of every state of the job.
THEOREM SlaInvariant == Spec => []IInv
BY InitInv, StepInv, PTL DEF Spec

\* The ticket, the passes and the counters keep their types.
THEOREM SlaTypeCorrect == Spec => []TypeOK
BY SlaInvariant, Consequences, PTL

\* Each alert is announced at most once per instance, whatever overlaps, reopens
\* or crashes.
THEOREM AlertsStop == Spec => []AlertsBounded
BY SlaInvariant, Consequences, PTL

--------------------------------------------------------------------------------
(* A pass does what it set out to do: the safety behind OverdueIsFlagged.  *)

\* Nothing is overdue, or it is flagged.
Settled(k) == <<k, "breached">> \in ticket.flags \/ ticket.at[k] # None \/ ~ticket.open

\* The pass is on its way to flag the breach, if the ticket is still the same.
Bound(j, k) ==
    \/ job[j].pc = "read" /\ Missed(job[j].time, k)
    \/ job[j].pc \in {"flag", "emit"} /\ Has(job[j].alerts, <<k, "breached">>)

\* A pass that starts when a deadline is over stays on its way, whatever happens
\* meanwhile, until the breach is flagged, the deadline done with, or the ticket closed,
\* unless the pass is cut short.
DutyIsDone ==
    [][\A j \in Jobs, k \in Kinds :
         Bound(j, k) \/ (Start(j) /\ Missed(now, k)) => Bound(j, k)' \/ Settled(k)' \/ Crash(j)]_vars

\* The accesses that are left to a pass, at most.
StepsLeft(rec) ==
    IF rec.pc = "read" THEN 5
    ELSE IF rec.pc = "flag" THEN 2 * Len(rec.alerts)
    ELSE IF rec.pc = "emit" THEN 2 * Len(rec.alerts) - 1
    ELSE 0

\* Each access of a pass leaves it fewer, and nobody else makes them more.
PassesEnd ==
    [][\A j \in Jobs :
         /\ Continue(j) => StepsLeft(job'[j]) < StepsLeft(job[j])
         /\ ~Start(j) => StepsLeft(job'[j]) <= StepsLeft(job[j])]_vars

\* What both checks raise.
LEMMA JoinedHas ==
    ASSUME NEW f, NEW r, AtMostOne(f), AtMostOne(r)
    PROVE  /\ Len(f \o r) \in 0..2
           /\ \A x \in AllAlerts : f = <<x>> \/ r = <<x>> => Has(f \o r, x)
<1>1. CASE f = <<>> /\ r = <<>>
    BY <1>1
<1>2. ASSUME NEW y \in AllAlerts, (f = <<y>> /\ r = <<>>) \/ (f = <<>> /\ r = <<y>>)
      PROVE  /\ Len(f \o r) \in 0..2
             /\ \A x \in AllAlerts : f = <<x>> \/ r = <<x>> => Has(f \o r, x)
    <2>1. f \o r = <<y>> /\ Len(f \o r) = 1 /\ (f \o r)[1] = y
        BY <1>2, OneElement
    <2>2. \A x : f = <<x>> \/ r = <<x>> => x = y
        BY <1>2
    <2>3. 1 \in 1..Len(f \o r) /\ Len(f \o r) \in 0..2
        BY <2>1
    <2>4. Has(f \o r, y)
        BY <2>1, <2>3 DEF Has
    <2> QED
        BY <2>2, <2>3, <2>4
<1>3. ASSUME NEW y \in AllAlerts, NEW z \in AllAlerts, f = <<y>>, r = <<z>>
      PROVE  /\ Len(f \o r) \in 0..2
             /\ \A x \in AllAlerts : f = <<x>> \/ r = <<x>> => Has(f \o r, x)
    <2>1. Len(f \o r) = 2 /\ (f \o r)[1] = y /\ (f \o r)[2] = z
        BY <1>3, TwoElements
    <2>2. \A x : f = <<x>> \/ r = <<x>> => x = y \/ x = z
        BY <1>3
    <2>3. {1, 2} \subseteq 1..Len(f \o r) /\ Len(f \o r) \in 0..2
        BY <2>1
    <2>4. Has(f \o r, y) /\ Has(f \o r, z)
        BY <2>1, <2>3 DEF Has
    <2> QED
        BY <2>2, <2>3, <2>4
<1> QED
    BY <1>1, <1>2, <1>3 DEF AtMostOne

\* The alerts that a pass takes up when it reads the ticket.
LEMMA ReadTakes ==
    ASSUME IInv, NEW j \in Jobs, Read(j)
    PROVE  \E q \in Seq(AllAlerts) :
              /\ job'[j] = Going(q) /\ Len(q) \in 0..2
              /\ \A k \in Kinds : Missed(job[j].time, k) /\ ~Settled(k) => Has(q, <<k, "breached">>)
<1> DEFINE f == Check(ticket, job[j].time, "first_response")
           r == Check(ticket, job[j].time, "resolve")
           q == IF ticket.open THEN f \o r ELSE <<>>
<1>1. job[j].time \in Nat /\ job[j].time <= now
    BY DEF IInv, JobsOK, JobOK, JobRecords
<1>2. job'[j] = Going(q)
    BY DEF Read, GoOn, Going, IInv, JobsOK
<1>3. AtMostOne(f) /\ AtMostOne(r)
    <2>1. ASSUME NEW k \in Kinds PROVE AtMostOne(Check(ticket, job[j].time, k))
        BY <1>1, CheckRaises DEF IInv, AtMostOne, AllAlerts
    <2> QED
        BY <2>1 DEF Kinds
<1>4. f \o r \in Seq(AllAlerts)
    BY <1>1, ChecksRaise DEF IInv
<1>5. \A k \in Kinds : Missed(job[j].time, k) /\ ~Settled(k) =>
            ticket.open /\ Check(ticket, job[j].time, k) = << <<k, "breached">> >>
    BY DEF Settled, Check, Done, Flagged
<1> HIDE DEF f, r
<1>6. Len(f \o r) \in 0..2 /\ \A x \in AllAlerts : f = <<x>> \/ r = <<x>> => Has(f \o r, x)
    BY <1>3, JoinedHas
<1>7. ASSUME NEW k \in Kinds, Missed(job[j].time, k), ~Settled(k)
      PROVE  Has(q, <<k, "breached">>)
    <2>1. ticket.open /\ (f = << <<k, "breached">> >> \/ r = << <<k, "breached">> >>)
        BY <1>5, <1>7 DEF Kinds, f, r
    <2>2. <<k, "breached">> \in AllAlerts
        BY DEF AllAlerts, Alerts
    <2> QED
        BY <1>6, <2>1, <2>2
<1>8. q \in Seq(AllAlerts) /\ Len(q) \in 0..2
    BY <1>4, <1>6
<1> QED
    BY <1>2, <1>7, <1>8

\* The pass goes on with the alerts that are left.
LEMMA EmitGoesOn ==
    ASSUME IInv, NEW j \in Jobs, Emit(j)
    PROVE  /\ job'[j] = Going(Tail(job[j].alerts))
           /\ job[j].alerts[1] \in ticket.flags /\ UNCHANGED ticket
           /\ Tail(job[j].alerts) \in Seq(AllAlerts)
           /\ Len(Tail(job[j].alerts)) = Len(job[j].alerts) - 1
           /\ \A a : Has(job[j].alerts, a) =>
                  a = job[j].alerts[1] \/ Has(Tail(job[j].alerts), a)
<1> DEFINE q == job[j].alerts
<1>1. /\ q \in Seq(AllAlerts) /\ q # <<>> /\ Len(q) \in Nat \ {0} /\ q[1] \in AllAlerts
    BY FirstInHand DEF Emit
<1>2. job'[j] = Going(Tail(q))
    BY DEF Emit, GoOn, Going, IInv, JobsOK
<1>3. q[1] \in ticket.flags /\ UNCHANGED ticket
    BY <1>1 DEF Emit, IInv, FlaggedFirst
<1> HIDE DEF q
<1>4. /\ Tail(q) \in Seq(AllAlerts) /\ Len(Tail(q)) = Len(q) - 1
      /\ \A i \in 1..Len(Tail(q)) : Tail(q)[i] = q[i + 1]
    BY <1>1, RestOfAlerts
<1>5. ASSUME NEW a, Has(q, a), a # q[1] PROVE Has(Tail(q), a)
    <2>1. PICK i \in 1..Len(q) : q[i] = a
        BY <1>5 DEF Has
    <2>2. i - 1 \in 1..Len(Tail(q)) /\ Tail(q)[i - 1] = q[(i - 1) + 1]
        BY <1>1, <1>4, <1>5, <2>1
    <2>3. (i - 1) + 1 = i
        BY <2>1
    <2> QED
        BY <2>1, <2>2, <2>3 DEF Has
<1> QED
    BY <1>2, <1>3, <1>4, <1>5 DEF q

\* What a step of the pass j, or of somebody else, is for the pass j.
LEMMA StepsOfPass ==
    ASSUME IInv, [Next]_vars, NEW j \in Jobs
    PROVE  /\ UNCHANGED due
           /\ \/ job'[j] = job[j]
              \/ Start(j) /\ job'[j].pc = "read" /\ job'[j].time = now
              \/ Read(j) \/ Emit(j)
              \/ Flag(j) /\ job'[j].pc = "emit" /\ job'[j].alerts = job[j].alerts
              \/ Crash(j) /\ job'[j] = Idle
<1>1. job \in [Jobs -> JobRecords]
    BY DEF IInv, JobsOK
<1>2. ASSUME NEW o \in Jobs, NEW rec, job' = [job EXCEPT ![o] = rec], o # j
      PROVE  job'[j] = job[j]
    BY <1>1, <1>2
<1>3. CASE \E o \in Jobs \ {j} : Start(o) \/ Continue(o) \/ Crash(o)
    BY <1>2, <1>3 DEF Start, Continue, Read, Flag, Emit, GoOn, Crash
<1>4. CASE Start(j) \/ Crash(j)
    BY <1>1, <1>4 DEF Start, Crash, Idle
<1>5. CASE Read(j) \/ Emit(j)
    BY <1>5 DEF Read, Emit
<1>6. CASE Flag(j)
    BY <1>1, <1>6 DEF Flag, JobRecords
<1>7. CASE (\E w \in Workers : Work(w)) \/ Reopen \/ Tick \/ UNCHANGED vars
    BY <1>7, WorkKeeps DEF IInv, Reopen, Tick, vars
<1> QED
    BY <1>3, <1>4, <1>5, <1>6, <1>7 DEF Next, Continue

LEMMA DutyStep ==
    ASSUME IInv, [Next]_vars, NEW j \in Jobs, NEW k \in Kinds,
           Bound(j, k) \/ (Start(j) /\ Missed(now, k))
    PROVE  Bound(j, k)' \/ Settled(k)' \/ Crash(j)
<1>1. UNCHANGED due /\ \A time : Missed(time, k)' <=> Missed(time, k)
    BY StepsOfPass DEF Missed
<1>2. CASE job'[j] = job[j] /\ ~Start(j)
    <2>1. Bound(j, k)
        BY <1>2
    <2>2. \A a : Has(job[j].alerts, a)' <=> Has(job[j].alerts, a)
        BY <1>2 DEF Has
    <2> QED
        BY <1>1, <1>2, <2>1, <2>2 DEF Bound, Missed
<1>3. CASE Start(j)
    <2>1. job[j].pc = "idle"
        BY <1>3 DEF Start
    <2>2. Missed(now, k)
        BY <2>1 DEF Bound
    <2>3. job'[j].pc = "read" /\ job'[j].time = now
        <3>1. job' = [job EXCEPT ![j] = [Idle EXCEPT !.pc = "read", !.time = now]]
            BY <1>3 DEF Start
        <3> QED
            BY <3>1 DEF IInv, JobsOK, Idle
    <2> QED
        BY <1>1, <2>2, <2>3 DEF Bound, Missed
<1>4. CASE Read(j)
    <2>1. Missed(job[j].time, k)
        BY <1>4 DEF Bound, Read, Start
    <2>2. PICK q \in Seq(AllAlerts) :
            /\ job'[j] = Going(q) /\ Len(q) \in 0..2
            /\ ~Settled(k) => Has(q, <<k, "breached">>)
        BY <1>4, <2>1, ReadTakes
    <2>3. Settled(k)' <=> Settled(k)
        BY <1>4 DEF Settled, Read
    <2>4. ~Settled(k) => Going(q) = [Idle EXCEPT !.pc = "flag", !.alerts = q]
        BY <2>2, IdleOK DEF Going, IInv
    <2>5. ~Settled(k) => job'[j].pc = "flag" /\ job'[j].alerts = q
        BY <2>2, <2>4 DEF Idle
    <2> QED
        BY <2>2, <2>3, <2>5 DEF Bound, Has
<1>5. CASE Emit(j)
    <2>1. Has(job[j].alerts, <<k, "breached">>)
        BY <1>5 DEF Bound, Emit, Start
    <2>2. CASE <<k, "breached">> = job[j].alerts[1]
        BY <1>5, <2>2, EmitGoesOn DEF Settled
    <2>3. CASE Has(Tail(job[j].alerts), <<k, "breached">>)
        <3> DEFINE q == Tail(job[j].alerts)
        <3>1. job'[j] = Going(q)
            BY <1>5, EmitGoesOn
        <3> HIDE DEF q
        <3>2. Going(q) = [Idle EXCEPT !.pc = "flag", !.alerts = q]
            BY <2>3, IdleOK DEF Going, IInv, q
        <3>3. job'[j].pc = "flag" /\ job'[j].alerts = q
            BY <3>1, <3>2 DEF Idle
        <3> QED
            BY <2>3, <3>3 DEF Bound, Has, q
    <2> QED
        BY <1>5, <2>1, <2>2, <2>3, EmitGoesOn
<1>6. CASE Flag(j)
    BY <1>6, StepsOfPass DEF Bound, Has, Flag, Start, Read, Emit, Crash
<1> QED
    BY <1>2, <1>3, <1>4, <1>5, <1>6, StepsOfPass

LEMMA EndStep ==
    ASSUME IInv, [Next]_vars, NEW j \in Jobs
    PROVE  /\ Continue(j) => StepsLeft(job'[j]) < StepsLeft(job[j])
           /\ ~Start(j) => StepsLeft(job'[j]) <= StepsLeft(job[j])
<1> DEFINE Fewer == StepsLeft(job'[j]) \in Nat /\ StepsLeft(job'[j]) < StepsLeft(job[j])
<1> HIDE DEF Fewer
<1>1. ASSUME NEW q \in Seq(AllAlerts)
      PROVE  StepsLeft(Going(q)) \in Nat /\ StepsLeft(Going(q)) <= 2 * Len(q) /\ Len(q) \in Nat
    <2>1. Len(q) \in Nat
        OBVIOUS
    <2>2. CASE q = <<>>
        BY <2>1, <2>2 DEF Going, Idle, StepsLeft
    <2>3. CASE q # <<>>
        <3>1. Going(q).pc = "flag" /\ Going(q).alerts = q
            BY <2>3 DEF Going, Idle
        <3> QED
            BY <2>1, <3>1 DEF StepsLeft
    <2> QED
        BY <2>1, <2>2, <2>3
<1>2. StepsLeft(job[j]) \in Nat
    <2>1. job[j].pc \in {"idle", "read", "flag", "emit"}
        BY DEF IInv, JobsOK, JobRecords
    <2>2. job[j].pc \in {"flag", "emit"} => Len(job[j].alerts) \in Nat \ {0}
        BY FirstInHand
    <2> QED
        BY <2>1, <2>2 DEF StepsLeft
<1>3. Read(j) => Fewer
    <2> SUFFICES ASSUME Read(j) PROVE Fewer
        OBVIOUS
    <2>1. PICK q \in Seq(AllAlerts) : job'[j] = Going(q) /\ Len(q) \in 0..2
        BY ReadTakes
    <2>2. StepsLeft(job[j]) = 5 /\ StepsLeft(job'[j]) = StepsLeft(Going(q))
        BY <2>1 DEF Read, StepsLeft
    <2> DEFINE m == StepsLeft(Going(q))
               n == Len(q)
    <2>3. m \in Nat /\ m <= 2 * n /\ n \in 0..2
        BY <1>1, <2>1
    <2> HIDE DEF m, n
    <2>4. m < 5
        BY <2>3
    <2> QED
        BY <2>2, <2>3, <2>4 DEF Fewer, m
<1>4. Flag(j) => Fewer
    <2> SUFFICES ASSUME Flag(j) PROVE Fewer
        OBVIOUS
    <2>1. job[j].pc = "flag" /\ job'[j].pc = "emit" /\ job'[j].alerts = job[j].alerts
        BY DEF Flag, IInv, JobsOK, JobRecords
    <2>2. Len(job[j].alerts) \in Nat \ {0}
        BY <2>1, FirstInHand
    <2>3. StepsLeft(job'[j]) = 2 * Len(job[j].alerts) - 1
        BY <2>1 DEF StepsLeft
    <2>4. StepsLeft(job[j]) = 2 * Len(job[j].alerts)
        BY <2>1 DEF StepsLeft
    <2> QED
        BY <2>2, <2>3, <2>4 DEF Fewer
<1>5. Emit(j) => Fewer
    <2> SUFFICES ASSUME Emit(j) PROVE Fewer
        OBVIOUS
    <2> DEFINE q == Tail(job[j].alerts)
               n == Len(job[j].alerts)
    <2>1. job'[j] = Going(q) /\ q \in Seq(AllAlerts) /\ Len(q) = n - 1
        BY EmitGoesOn
    <2>2. job[j].pc = "emit" /\ n \in Nat \ {0}
        BY FirstInHand DEF Emit
    <2>3. StepsLeft(job[j]) = 2 * n - 1 /\ StepsLeft(job'[j]) = StepsLeft(Going(q))
        BY <2>1, <2>2 DEF StepsLeft
    <2> HIDE DEF q, n
    <2>4. StepsLeft(Going(q)) \in Nat /\ StepsLeft(Going(q)) <= 2 * Len(q)
        BY <1>1, <2>1
    <2> QED
        BY <2>1, <2>2, <2>3, <2>4 DEF Fewer
<1>6. StepsLeft(Idle) = 0
    BY DEF StepsLeft, Idle
<1>7. Continue(j) => Fewer
    BY <1>3, <1>4, <1>5 DEF Continue
<1>8. Fewer => StepsLeft(job'[j]) < StepsLeft(job[j]) /\ StepsLeft(job'[j]) <= StepsLeft(job[j])
    BY <1>2 DEF Fewer
<1>9. ASSUME ~Start(j) PROVE StepsLeft(job'[j]) <= StepsLeft(job[j])
    <2>1. job'[j] = job[j] \/ job'[j] = Idle \/ Fewer
        BY <1>3, <1>4, <1>5, <1>9, StepsOfPass
    <2>2. CASE job'[j] = job[j]
        BY <1>2, <2>2
    <2>3. CASE job'[j] = Idle
        BY <1>2, <1>6, <2>3
    <2> QED
        BY <1>8, <2>1, <2>2, <2>3
<1> QED
    BY <1>7, <1>8, <1>9

\* A pass that starts when a deadline is over, and is not cut short, ends with the breach
\* flagged, unless the ticket was answered or closed first.
THEOREM DutyIsDoneAlways == Spec => DutyIsDone
<1>1. IInv /\ [Next]_vars =>
        \A j \in Jobs, k \in Kinds :
           Bound(j, k) \/ (Start(j) /\ Missed(now, k)) => Bound(j, k)' \/ Settled(k)' \/ Crash(j)
    BY DutyStep
<1> QED
    BY <1>1, SlaInvariant, PTL DEF Spec, DutyIsDone

\* No pass goes on for ever: it has at most five accesses left.
THEOREM PassesEndAlways == Spec => PassesEnd
<1>1. IInv /\ [Next]_vars =>
        \A j \in Jobs : /\ Continue(j) => StepsLeft(job'[j]) < StepsLeft(job[j])
                        /\ ~Start(j) => StepsLeft(job'[j]) <= StepsLeft(job[j])
    BY EndStep
<1> QED
    BY <1>1, SlaInvariant, PTL DEF Spec, PassesEnd

--------------------------------------------------------------------------------
(* Nobody is blamed.                                                       *)

\* The deadline is done with: the time stamp is on the ticket, no breach is flagged,
\* and no pass is about to flag one.
Safe(k) ==
    /\ ticket.at[k] # None
    /\ <<k, "breached">> \notin ticket.flags
    /\ \A j \in Jobs : ~Has(job[j].alerts, <<k, "breached">>)

LEMMA StampedInTime ==
    ASSUME IInv, NEW k \in Kinds, ticket.at[k] # None, now < due[k] PROVE Safe(k)
<1>1. ~Overdue(k)
    BY DueTypes, NowTypes DEF IInv, Overdue
<1>2. \A j \in Jobs : ~Has(job[j].alerts, <<k, "breached">>)
    BY <1>1 DEF IInv, JobsOK, JobOK, Justified, Has
<1> QED
    BY <1>1, <1>2 DEF IInv, InTime, Safe

\* A pass that reads the ticket now takes up no alert of k.
LEMMA SafeRead ==
    ASSUME IInv, NEW k \in Kinds, Safe(k), NEW j \in Jobs, Read(j)
    PROVE  ~Has(job'[j].alerts, <<k, "breached">>)
<1> DEFINE f == Check(ticket, job[j].time, "first_response")
           r == Check(ticket, job[j].time, "resolve")
           q == IF ticket.open THEN f \o r ELSE <<>>
<1>1. job[j].time \in Nat /\ job[j].time <= now /\ RestOK
    BY DEF IInv, JobsOK, JobOK, JobRecords
<1>2. ASSUME NEW o \in Kinds
      PROVE  \/ Check(ticket, job[j].time, o) = <<>>
             \/ o # k /\ \E a \in Alerts : Check(ticket, job[j].time, o) = << <<o, a>> >>
    <2>1. o = k => Check(ticket, job[j].time, o) = <<>>
        BY DEF Safe, Check, Done
    <2> QED
        BY <1>1, <2>1, CheckRaises
<1>3. f = <<>> \/ \E x \in AllAlerts : f = <<x>> /\ x[1] # k
    BY <1>2 DEF Kinds, AllAlerts
<1>4. r = <<>> \/ \E x \in AllAlerts : r = <<x>> /\ x[1] # k
    BY <1>2 DEF Kinds, AllAlerts
<1>5. f \o r \in Seq(AllAlerts) /\ Distinct(f \o r) /\ job'[j] = Going(q)
    BY <1>1, ChecksRaise DEF Read, GoOn, Going, IInv, JobsOK
<1>6. Apart(f, r)
    <2>1. f = <<>> \/ \E a \in Alerts : f = << <<"first_response", a>> >>
        BY <1>2 DEF Kinds
    <2>2. r = <<>> \/ \E a \in Alerts : r = << <<"resolve", a>> >>
        BY <1>2 DEF Kinds
    <2> HIDE DEF f, r
    <2> QED
        BY <2>1, <2>2 DEF Apart
<1> HIDE DEF f, r
<1>7. Lists(f \o r, f, r)
    BY <1>3, <1>4, <1>6, Joined DEF AtMostOne
<1>8. \A i \in 1..Len(f \o r) : (f \o r)[i] # <<k, "breached">>
    <2>1. \A x, y : <<x>> = <<y>> => x = y
        OBVIOUS
    <2>2. \A x : <<x>> # <<>>
        OBVIOUS
    <2> QED
        BY <1>3, <1>4, <1>7, <2>1, <2>2 DEF Lists
<1>9. ~Has(q, <<k, "breached">>)
    BY <1>1, <1>8, IdleOK DEF Has
<1>10. Going(q).alerts = q
    BY DEF Going, Idle
<1> QED
    BY <1>5, <1>9, <1>10

LEMMA SafeStays ==
    ASSUME IInv, NEW k \in Kinds, Safe(k), [Next]_vars PROVE Safe(k)'
<1> DEFINE b == <<k, "breached">>
<1>1. ticket'.at[k] # None
    <2>1. CASE \E w \in Workers : Work(w)
        BY <2>1, WorkKeeps DEF IInv, Safe
    <2>2. CASE Reopen \/ \E j \in Jobs : Flag(j)
        BY <2>2 DEF Reopen, Flag, IInv, RestOK, TicketDocs, Safe
    <2>3. CASE UNCHANGED ticket
        BY <2>3 DEF Safe
    <2> QED
        BY <2>1, <2>2, <2>3 DEF Next, Continue, Start, Read, Emit, Crash, Tick, vars
<1>2. b \notin ticket'.flags
    <2>1. CASE \E w \in Workers : Work(w)
        BY <2>1, WorkKeeps DEF IInv, Safe
    <2>2. CASE Reopen
        BY <2>2 DEF Reopen, IInv, RestOK, TicketDocs, Safe
    <2>3. ASSUME NEW j \in Jobs, Flag(j) PROVE b \notin ticket'.flags
        <3>1. Head(job[j].alerts) = job[j].alerts[1] /\ Len(job[j].alerts) \in Nat \ {0}
            BY <2>3, FirstInHand DEF Flag
        <3>2. 1 \in 1..Len(job[j].alerts)
            BY <3>1
        <3>3. Head(job[j].alerts) # b
            BY <3>1, <3>2 DEF Safe, Has
        <3> QED
            BY <2>3, <3>3 DEF Flag, IInv, RestOK, TicketDocs, Safe
    <2>4. CASE UNCHANGED ticket
        BY <2>4 DEF Safe
    <2> QED
        BY <2>1, <2>2, <2>3, <2>4 DEF Next, Continue, Start, Read, Emit, Crash, Tick, vars
<1>3. ASSUME NEW j \in Jobs PROVE ~Has(job'[j].alerts, b)
    <2>1. CASE job'[j] = job[j]
        BY <2>1 DEF Safe
    <2>2. CASE Read(j)
        BY <2>2, SafeRead
    <2>3. CASE Emit(j)
        <3>1. Tail(job[j].alerts) \in Seq(AllAlerts) /\ job'[j] = Going(Tail(job[j].alerts))
            BY <2>3, EmitGoesOn
        <3>2. Going(Tail(job[j].alerts)).alerts = Tail(job[j].alerts)
            BY DEF Going, Idle
        <3>3. /\ job[j].alerts \in Seq(AllAlerts) /\ job[j].alerts # <<>>
            BY <2>3, FirstInHand DEF Emit
        <3>4. \A i \in 1..Len(Tail(job[j].alerts)) :
                 i + 1 \in 1..Len(job[j].alerts) /\ Tail(job[j].alerts)[i] = job[j].alerts[i + 1]
            BY <3>3, RestOfAlerts
        <3> QED
            BY <3>1, <3>2, <3>4 DEF Safe, Has
    <2>4. CASE Flag(j) /\ job'[j].alerts = job[j].alerts
        BY <2>4 DEF Safe, Has
    <2>5. CASE job'[j] = Idle
        BY <2>5, IdleOK DEF IInv
    <2>6. CASE Start(j)
        BY <2>6, IdleOK DEF Start, Idle, IInv, JobsOK, Has
    <2> QED
        BY <2>1, <2>2, <2>3, <2>4, <2>5, <2>6, StepsOfPass
<1> QED
    BY <1>1, <1>2, <1>3 DEF Safe

\* A deadline before which the time stamp was on the ticket is never flagged as
\* breached, however many instances act on copies however old.
THEOREM NobodyBlamed == Spec => NoFalseBreach
<1>1. ASSUME NEW k \in Kinds PROVE Spec => NeverBlamed(k)
    <2>1. IInv => (ticket.at[k] = "met" /\ now < due[k] => Safe(k))
        BY StampedInTime, SlaAssumption
    <2>2. IInv /\ Safe(k) /\ [Next]_vars => Safe(k)'
        BY SafeStays
    <2>3. Safe(k) => <<k, "breached">> \notin ticket.flags
        BY DEF Safe
    <2> QED
        BY <2>1, <2>2, <2>3, SlaInvariant, PTL DEF Spec, NeverBlamed
<1> QED
    BY <1>1 DEF NoFalseBreach, Kinds
================================================================================
