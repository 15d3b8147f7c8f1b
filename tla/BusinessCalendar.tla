---------------------------- MODULE BusinessCalendar ----------------------------
(***************************************************************************)
(* add_business_minutes: the due date of an SLA, a number of minutes of    *)
(* business time after the ticket is created.  One step is one round of    *)
(* the loop, which moves over one business window at a time.               *)
(*                                                                         *)
(* Moments are whole units since midnight of a day 0 that is a Monday.     *)
(* The calendar is whatever an admin saved: nothing checks that the window *)
(* opens before it closes, or that there is a business day.                *)
(***************************************************************************)
EXTENDS Integers, FiniteSets, FiniteSetsExt

CONSTANTS
    Day,        \* units in a day
    Week,       \* days in a week
    MaxSkip,    \* days that the search for the next business day goes ahead
    MaxRounds,  \* rounds of the loop before it gives up
    Calendars,  \* calendars: [business_days, start, end, holidays]
    Starts,     \* moments at which tickets are created
    Amounts     \* business time of the SLA policies

ASSUME CalendarAssumption ==
    /\ Day \in Nat \ {0} /\ Week \in Nat \ {0}
    /\ MaxSkip \in Nat \ {0} /\ MaxRounds \in Nat
    /\ Calendars \subseteq [business_days : SUBSET (0..(Week - 1)), start : 0..(Day - 1),
                            end : 0..(Day - 1), holidays : SUBSET Nat]
    /\ Starts \subseteq Nat /\ Amounts \subseteq Nat

VARIABLES
    calendar, start, minutes,  \* the arguments
    current,                   \* how far the loop has come, finally the result
    remaining,                 \* business time still to place
    rounds                     \* rounds done, -1 once the function has returned

vars == <<calendar, start, minutes, current, remaining, rounds>>

--------------------------------------------------------------------------------
Date(moment) == moment \div Day

IsBusinessDay_NoHolidays(date, c) == date % Week \in c.business_days
IsBusinessDay(date, c) == date % Week \in c.business_days /\ date \notin c.holidays

DayStart(date, c) == date * Day + c.start

DayEnd(date, c) == date * Day + c.end

\* The last day looked at when none of them is a business day.
NextBusinessDayStart(moment, c) ==
    LET ahead == {d \in (Date(moment) + 1)..(Date(moment) + MaxSkip) : IsBusinessDay(d, c)}
    IN DayStart(IF ahead = {} THEN Date(moment) + MaxSkip ELSE Min(ahead), c)

SnapIntoBusinessWindow_EndIncluded(moment, c) ==
    IF ~IsBusinessDay(Date(moment), c) THEN NextBusinessDayStart(moment, c)
    ELSE IF moment < DayStart(Date(moment), c) THEN DayStart(Date(moment), c)
    ELSE moment
SnapIntoBusinessWindow(moment, c) ==
    IF ~IsBusinessDay(Date(moment), c) THEN NextBusinessDayStart(moment, c)
    ELSE IF moment < DayStart(Date(moment), c) THEN DayStart(Date(moment), c)
    ELSE IF moment >= DayEnd(Date(moment), c) THEN NextBusinessDayStart(moment, c)
    ELSE moment

Init ==
    /\ calendar \in Calendars /\ start \in Starts /\ minutes \in Amounts
    /\ current = SnapIntoBusinessWindow(start, calendar)
    /\ remaining = minutes
    /\ rounds = 0

AvailableToday == DayEnd(Date(current), calendar) - current

Return(moment) == current' = moment /\ rounds' = -1

Looping == rounds \in 0..(MaxRounds - 1)

\* Nothing left to place.
NothingLeft ==
    /\ Looping /\ remaining = 0
    /\ Return(current)
    /\ UNCHANGED remaining

Shut_AtClosing(available) == available = 0
Shut(available) == available <= 0

\* A window that closes before it opens.
EmptyWindow ==
    /\ Looping /\ remaining > 0 /\ Shut(AvailableToday)
    /\ current' = NextBusinessDayStart(current, calendar)
    /\ rounds' = rounds + 1
    /\ UNCHANGED remaining

FitsToday_Strictly(left, available) == left < available
FitsToday(left, available) == left <= available

EndsToday ==
    /\ Looping /\ remaining > 0 /\ ~Shut(AvailableToday)
    /\ FitsToday(remaining, AvailableToday)
    /\ Return(current + remaining)
    /\ remaining' = 0

NextDay ==
    /\ Looping /\ remaining > 0 /\ ~Shut(AvailableToday)
    /\ ~FitsToday(remaining, AvailableToday)
    /\ remaining' = remaining - AvailableToday
    /\ current' = NextBusinessDayStart(DayEnd(Date(current), calendar), calendar)
    /\ rounds' = rounds + 1

GiveUp ==
    /\ rounds = MaxRounds
    /\ Return(current)
    /\ UNCHANGED remaining

Next ==
    /\ NothingLeft \/ EmptyWindow \/ EndsToday \/ NextDay \/ GiveUp
    /\ UNCHANGED <<calendar, start, minutes>>

Spec == Init /\ [][Next]_vars

--------------------------------------------------------------------------------
(* The reference: business time is made of the units in which the desk is  *)
(* open, and the due date is the end of the last unit of the amount.       *)

OpenUnit(moment) ==
    /\ Date(moment) % Week \in calendar.business_days
    /\ Date(moment) \notin calendar.holidays
    /\ calendar.start <= moment % Day /\ moment % Day < calendar.end

BusinessTime(from, to) == Cardinality({m \in from..(to - 1) : OpenUnit(m)})

\* A window that opens before it closes, and no gap longer than the search.
Sane ==
    /\ calendar.start < calendar.end
    /\ \A d \in 0..(Date(current) + Week) : \E e \in (d + 1)..(d + MaxSkip) :
          e % Week \in calendar.business_days /\ e \notin calendar.holidays

\* The result is never before the creation, and what is left to place never
\* exceeds the amount, whatever calendar an admin saved.
RoundsBounded ==
    /\ current \in Nat /\ current >= start
    /\ remaining \in 0..minutes
    /\ rounds \in -1..MaxRounds

\* At every round the business time passed since the start and the time still to
\* place make up the whole amount, across nights, weekends and holidays.
TimeAccountedFor ==
    Sane => BusinessTime(start, current) + remaining = minutes

\* The due date is the end of an open unit: never in closed hours, and not
\* pushed to the next morning when the time runs out exactly at closing.
DueEndsOpenUnit ==
    Sane /\ rounds = -1 /\ remaining = 0 /\ minutes > 0 => OpenUnit(current - 1)
================================================================================
