----------------------------- MODULE CalendarProofs -----------------------------
(***************************************************************************)
(* The due date of an SLA is right for every calendar, every moment at     *)
(* which a ticket is created and every amount of business time: the loop   *)
(* passes over closed units only without counting them, and stops at the   *)
(* end of an open one.                                                     *)
(*                                                                         *)
(* The loop is always inside a business window when it starts a round, so  *)
(* the units up to closing are open; those from closing to the next start  *)
(* are closed, because that start is on the first business day ahead.      *)
(***************************************************************************)
EXTENDS BusinessCalendar, FiniteSetTheorems, WellFoundedInduction, TLAPS

\* The notions of the reference, for any calendar and moment.
OpenAt(m, c) ==
    /\ Date(m) % Week \in c.business_days
    /\ Date(m) \notin c.holidays
    /\ c.start <= m % Day /\ m % Day < c.end

OpenUnits(from, to, c) == {m \in from..(to - 1) : OpenAt(m, c)}

Passed(from, to, c) == Cardinality(OpenUnits(from, to, c))

SaneAt(now, c) ==
    /\ c.start < c.end
    /\ \A d \in 0..(Date(now) + Week) : \E e \in (d + 1)..(d + MaxSkip) : IsBusinessDay(e, c)

InWindow(m, c) ==
    /\ IsBusinessDay(Date(m), c)
    /\ DayStart(Date(m), c) <= m
    /\ m < DayEnd(Date(m), c)

Ahead(moment, c) ==
    {d \in (Date(moment) + 1)..(Date(moment) + MaxSkip) : IsBusinessDay(d, c)}

Arguments == calendar \in Calendars /\ start \in Nat /\ minutes \in Nat

\* What holds at every round of a calendar that is sane.
Placed ==
    /\ Passed(start, current, calendar) + remaining = minutes
    /\ rounds # -1 => InWindow(current, calendar)
    /\ rounds = -1 /\ remaining = 0 /\ minutes > 0 => OpenAt(current - 1, calendar)

CInv ==
    /\ Arguments
    /\ RoundsBounded
    /\ rounds # -1 /\ remaining = 0 => minutes = 0
    /\ SaneAt(current, calendar) => Placed

--------------------------------------------------------------------------------
(* Days and moments.                                                       *)

LEMMA LeastNat ==
    ASSUME NEW T \in SUBSET Nat, T # {}
    PROVE  \E x \in T : \A y \in T : x <= y
<1>1. PICK x \in T : \A y \in T : ~(<<y, x>> \in OpToRel(<, Nat))
  <2>1. T \subseteq Nat
    OBVIOUS
  <2> HIDE DEF OpToRel
  <2> QED
    BY <2>1, NatLessThanWellFounded, WFMin
<1>2. \A y \in T : y < x => <<y, x>> \in OpToRel(<, Nat)
  BY DEF OpToRel
<1>3. \A y \in T : ~(y < x)
  BY <1>1, <1>2, Zenon
<1> QED
  BY <1>3

LEMMA MinIsLeast ==
    ASSUME NEW T \in SUBSET Nat, T # {}
    PROVE  Min(T) \in T /\ \A y \in T : Min(T) <= y
BY LeastNat DEF Min

\* A moment is a day and a time of the day.
LEMMA DateSplits ==
    ASSUME NEW m \in Nat
    PROVE  /\ Date(m) \in Nat
           /\ m % Day \in 0..(Day - 1)
           /\ m = Date(m) * Day + (m % Day)
BY CalendarAssumption DEF Date

LEMMA DateOf ==
    ASSUME NEW d \in Nat, NEW k \in 0..(Day - 1)
    PROVE  d * Day + k \in Nat /\ Date(d * Day + k) = d /\ (d * Day + k) % Day = k
<1>1. Day \in Nat \ {0} /\ k \in Nat /\ k < Day
  BY CalendarAssumption
<1>2. d * Day \in Nat
  BY <1>1
<1> DEFINE m == d * Day + k
<1>3. m \in Nat
  BY <1>1, <1>2
<1>4. Date(m) \in Nat /\ m % Day \in 0..(Day - 1) /\ m = Date(m) * Day + (m % Day)
  BY <1>3, DateSplits
<1>5. ~(Date(m) < d)
  <2> SUFFICES ASSUME Date(m) < d PROVE FALSE
    OBVIOUS
  <2>1. (Date(m) + 1) * Day <= d * Day
    <3> HIDE DEF m
    <3> QED
      BY <1>1, <1>4
  <2>2. (Date(m) + 1) * Day = Date(m) * Day + Day
    <3> HIDE DEF m
    <3> QED
      BY <1>1, <1>4
  <2> QED
    BY <1>1, <1>2, <1>4, <2>1, <2>2
<1>6. ~(d < Date(m))
  <2> SUFFICES ASSUME d < Date(m) PROVE FALSE
    OBVIOUS
  <2>1. (d + 1) * Day <= Date(m) * Day
    <3> HIDE DEF m
    <3> QED
      BY <1>1, <1>4
  <2>2. (d + 1) * Day = d * Day + Day
    BY <1>1
  <2> QED
    BY <1>1, <1>2, <1>4, <2>1, <2>2
<1>7. Date(m) = d
  BY <1>4, <1>5, <1>6
<1> QED
  BY <1>2, <1>3, <1>4, <1>7

\* A moment is on day d if it lies between its midnight and the next.
LEMMA DaysInOrder ==
    ASSUME NEW m \in Nat, NEW n \in Nat, m <= n
    PROVE  Date(m) <= Date(n)
<1>1. /\ Day \in Nat \ {0}
      /\ Date(m) \in Nat /\ m % Day \in 0..(Day - 1) /\ m = Date(m) * Day + (m % Day)
      /\ Date(n) \in Nat /\ n % Day \in 0..(Day - 1) /\ n = Date(n) * Day + (n % Day)
  BY DateSplits, CalendarAssumption
<1> SUFFICES ASSUME Date(n) < Date(m) PROVE FALSE
  BY <1>1
<1>2. (Date(n) + 1) * Day <= Date(m) * Day
  BY <1>1
<1>3. (Date(n) + 1) * Day = Date(n) * Day + Day
  BY <1>1
<1>4. Date(n) * Day \in Nat /\ Date(m) * Day \in Nat
  BY <1>1
<1> QED
  BY <1>1, <1>2, <1>3, <1>4

LEMMA CalendarTypes ==
    ASSUME NEW c \in Calendars
    PROVE  c.start \in 0..(Day - 1) /\ c.end \in 0..(Day - 1)
BY CalendarAssumption

\* The opening and the closing of a day are on that day.
LEMMA OpeningAndClosing ==
    ASSUME NEW d \in Nat, NEW c \in Calendars
    PROVE  /\ DayStart(d, c) \in Nat /\ Date(DayStart(d, c)) = d
           /\ DayEnd(d, c) \in Nat /\ Date(DayEnd(d, c)) = d
BY CalendarTypes, DateOf DEF DayStart, DayEnd

\* Within its day a moment compares with opening and closing as its time does.
LEMMA WithinDay ==
    ASSUME NEW m \in Nat, NEW c \in Calendars
    PROVE  /\ DayStart(Date(m), c) <= m <=> c.start <= m % Day
           /\ m < DayEnd(Date(m), c) <=> m % Day < c.end
<1>0. Day \in Nat \ {0} /\ c.start \in Nat /\ c.end \in Nat
  BY CalendarTypes, CalendarAssumption
<1>1. /\ Day \in Nat \ {0} /\ Date(m) \in Nat
      /\ m % Day \in 0..(Day - 1) /\ m = Date(m) * Day + (m % Day)
      /\ c.start \in Nat /\ c.end \in Nat
  BY <1>0, DateSplits
<1> DEFINE midnight == Date(m) * Day
<1>2. midnight \in Nat
  BY <1>1
<1>3. m = midnight + (m % Day) /\ DayStart(Date(m), c) = midnight + c.start
      /\ DayEnd(Date(m), c) = midnight + c.end
  BY <1>1 DEF DayStart, DayEnd
<1>4. m % Day \in Nat
  BY <1>1
<1> HIDE DEF midnight
<1> QED
  BY <1>1, <1>2, <1>3, <1>4

LEMMA WindowIsOpen ==
    ASSUME NEW s \in Nat, NEW m \in Nat, NEW c \in Calendars,
           InWindow(s, c), s <= m, m < DayEnd(Date(s), c)
    PROVE  OpenAt(m, c)
<1>1. Date(s) \in Nat
  BY DateSplits
<1>2. DayEnd(Date(s), c) \in Nat /\ Date(DayEnd(Date(s), c)) = Date(s)
  BY <1>1, OpeningAndClosing
<1>3. Date(s) <= Date(m) /\ Date(m) <= Date(s) /\ Date(m) \in Nat
  BY <1>2, DaysInOrder, DateSplits
<1>4. Date(m) = Date(s)
  BY <1>1, <1>3
<1>5. DayStart(Date(s), c) \in Nat
  BY <1>1, OpeningAndClosing
<1>6. DayStart(Date(m), c) <= m /\ m < DayEnd(Date(m), c)
  BY <1>4, <1>5 DEF InWindow
<1> QED
  BY <1>4, <1>6, WithinDay DEF InWindow, OpenAt, IsBusinessDay

--------------------------------------------------------------------------------
(* The next business day, and the snap into a window.                      *)

\* The search ends at the opening of a later day; if any day ahead is a business
\* day, it is the first of them.
LEMMA NextStart ==
    ASSUME NEW m \in Nat, NEW c \in Calendars
    PROVE  \E n \in Nat :
             /\ NextBusinessDayStart(m, c) = DayStart(n, c)
             /\ n > Date(m)
             /\ Ahead(m, c) # {} =>
                  /\ IsBusinessDay(n, c)
                  /\ \A d \in Nat : Date(m) < d /\ d < n => ~IsBusinessDay(d, c)
<1>1. Date(m) \in Nat /\ MaxSkip \in Nat \ {0}
  BY DateSplits, CalendarAssumption
<1>2. CASE Ahead(m, c) = {}
  <2>1. NextBusinessDayStart(m, c) = DayStart(Date(m) + MaxSkip, c)
    BY <1>2 DEF NextBusinessDayStart, Ahead
  <2> QED
    BY <1>1, <1>2, <2>1
<1>3. CASE Ahead(m, c) # {}
  <2> DEFINE n == Min(Ahead(m, c))
  <2>1. NextBusinessDayStart(m, c) = DayStart(n, c)
    BY <1>3 DEF NextBusinessDayStart, Ahead
  <2>2. Ahead(m, c) \in SUBSET Nat
    BY <1>1 DEF Ahead
  <2>3. n \in Ahead(m, c) /\ \A d \in Ahead(m, c) : n <= d
    BY <1>3, <2>2, MinIsLeast
  <2> HIDE DEF n
  <2>4. n \in Nat /\ n > Date(m) /\ n <= Date(m) + MaxSkip /\ IsBusinessDay(n, c)
    BY <1>1, <2>3 DEF Ahead
  <2>5. ASSUME NEW d \in Nat, Date(m) < d, d < n PROVE ~IsBusinessDay(d, c)
    <3>1. d \notin Ahead(m, c)
      BY <2>3, <2>4, <2>5
    <3> QED
      BY <1>1, <2>4, <2>5, <3>1 DEF Ahead
  <2> QED
    BY <2>1, <2>4, <2>5
<1> QED
  BY <1>2, <1>3

\* The search moves ahead in any calendar.
LEMMA NextIsLater ==
    ASSUME NEW m \in Nat, NEW c \in Calendars
    PROVE  NextBusinessDayStart(m, c) \in Nat /\ NextBusinessDayStart(m, c) > m
<1>1. PICK n \in Nat : NextBusinessDayStart(m, c) = DayStart(n, c) /\ n > Date(m)
  BY NextStart
<1>2. DayStart(n, c) \in Nat /\ Date(DayStart(n, c)) = n
  BY OpeningAndClosing
<1>3. ~(DayStart(n, c) <= m)
  <2>1. DayStart(n, c) <= m => n <= Date(m)
    BY <1>2, DaysInOrder
  <2> QED
    BY <1>1, <2>1, DateSplits
<1> QED
  BY <1>1, <1>2, <1>3

\* A sane calendar has a business day within reach of the search.
LEMMA SaneHasNext ==
    ASSUME NEW m \in Nat, NEW now \in Nat, NEW c \in Calendars, SaneAt(now, c), m <= now
    PROVE  Ahead(m, c) # {}
<1>1. Date(m) \in Nat /\ Date(now) \in Nat /\ Date(m) <= Date(now) /\ Week \in Nat
  BY DateSplits, DaysInOrder, CalendarAssumption
<1>2. Date(m) \in 0..(Date(now) + Week)
  BY <1>1
<1> QED
  BY <1>2 DEF SaneAt, Ahead

LEMMA SaneBefore ==
    ASSUME NEW m \in Nat, NEW now \in Nat, NEW c \in Calendars, SaneAt(now, c), m <= now
    PROVE  SaneAt(m, c)
<1>1. Date(m) \in Nat /\ Date(now) \in Nat /\ Date(m) <= Date(now) /\ Week \in Nat
  BY DateSplits, DaysInOrder, CalendarAssumption
<1>2. \A d \in 0..(Date(m) + Week) : d \in 0..(Date(now) + Week)
  BY <1>1
<1> QED
  BY <1>2 DEF SaneAt

\* The opening of a business day lies in its window.
LEMMA NextInWindow ==
    ASSUME NEW m \in Nat, NEW c \in Calendars, Ahead(m, c) # {}, c.start < c.end
    PROVE  InWindow(NextBusinessDayStart(m, c), c)
<1>1. PICK n \in Nat : NextBusinessDayStart(m, c) = DayStart(n, c) /\ IsBusinessDay(n, c)
  BY NextStart
<1>2. DayStart(n, c) \in Nat /\ Date(DayStart(n, c)) = n
  BY OpeningAndClosing
<1>3. DayStart(n, c) < DayEnd(n, c)
  <2>1. n * Day \in Nat /\ c.start \in Nat /\ c.end \in Nat
    BY CalendarTypes, CalendarAssumption
  <2> HIDE DEF DayStart
  <2> QED
    BY <2>1 DEF DayStart, DayEnd
<1> QED
  BY <1>1, <1>2, <1>3 DEF InWindow

\* From a moment out of hours to the next opening the desk is closed.
LEMMA ClosedUntilNext ==
    ASSUME NEW m \in Nat, NEW c \in Calendars, Ahead(m, c) # {},
           ~IsBusinessDay(Date(m), c) \/ DayEnd(Date(m), c) <= m,
           NEW u \in Nat, m <= u, u < NextBusinessDayStart(m, c)
    PROVE  ~OpenAt(u, c)
<1>1. PICK n \in Nat : /\ NextBusinessDayStart(m, c) = DayStart(n, c)
                       /\ n > Date(m)
                       /\ \A d \in Nat : Date(m) < d /\ d < n => ~IsBusinessDay(d, c)
  BY NextStart
<1>2. DayStart(n, c) \in Nat /\ Date(DayStart(n, c)) = n
  BY OpeningAndClosing
<1>3. Date(u) \in Nat /\ Date(m) \in Nat /\ Date(m) <= Date(u) /\ Date(u) <= n
  BY <1>1, <1>2, DateSplits, DaysInOrder
<1>4. CASE Date(u) = Date(m)
  <2>1. CASE ~IsBusinessDay(Date(m), c)
    BY <1>4, <2>1 DEF OpenAt, IsBusinessDay
  <2>2. CASE DayEnd(Date(m), c) <= m
    <3>1. DayEnd(Date(m), c) \in Nat
      BY <1>3, OpeningAndClosing
    <3>2. ~(u < DayEnd(Date(u), c))
      BY <1>4, <2>2, <3>1
    <3> QED
      BY <3>2, WithinDay DEF OpenAt
  <2> QED
    BY <2>1, <2>2
<1>5. CASE Date(u) = n
  <2>1. ~(DayStart(Date(u), c) <= u)
    BY <1>1, <1>2, <1>5
  <2> QED
    BY <2>1, WithinDay DEF OpenAt
<1>6. CASE Date(u) # Date(m) /\ Date(u) # n
  <2>1. Date(m) < Date(u) /\ Date(u) < n
    BY <1>3, <1>6
  <2> QED
    BY <1>1, <1>3, <2>1 DEF OpenAt, IsBusinessDay
<1> QED
  BY <1>4, <1>5, <1>6

--------------------------------------------------------------------------------
(* Counting open units.                                                    *)

LEMMA PassedIsNat ==
    ASSUME NEW from \in Nat, NEW to \in Nat, NEW c
    PROVE  IsFiniteSet(OpenUnits(from, to, c)) /\ Passed(from, to, c) \in Nat
<1>1. IsFiniteSet(from..(to - 1))
  BY FS_Interval
<1>2. OpenUnits(from, to, c) \in SUBSET (from..(to - 1))
  BY DEF OpenUnits
<1>3. IsFiniteSet(OpenUnits(from, to, c))
  BY <1>1, <1>2, FS_Subset
<1> QED
  BY <1>3, FS_CardinalityType DEF Passed

LEMMA PassedAdds ==
    ASSUME NEW from \in Nat, NEW mid \in Nat, NEW to \in Nat, NEW c, from <= mid, mid <= to
    PROVE  Passed(from, to, c) = Passed(from, mid, c) + Passed(mid, to, c)
<1> DEFINE A == OpenUnits(from, mid, c)
           B == OpenUnits(mid, to, c)
<1>1. OpenUnits(from, to, c) = A \cup B
  BY DEF OpenUnits
<1>2. A \cap B = {}
  BY DEF OpenUnits
<1>3. IsFiniteSet(A) /\ IsFiniteSet(B) /\ Cardinality(A) \in Nat /\ Cardinality(B) \in Nat
  BY PassedIsNat DEF Passed
<1>4. Cardinality(A \cup B) = Cardinality(A) + Cardinality(B) - Cardinality(A \cap B)
  BY <1>3, FS_Union
<1>5. Cardinality(A \cap B) = 0
  BY <1>2, FS_EmptySet
<1> HIDE DEF A, B
<1>6. Cardinality(A \cup B) = Cardinality(A) + Cardinality(B)
  BY <1>3, <1>4, <1>5
<1> QED
  BY <1>1, <1>6 DEF Passed, A, B

LEMMA PassedNone ==
    ASSUME NEW from \in Nat, NEW to \in Nat, NEW c,
           \A u \in Nat : from <= u /\ u < to => ~OpenAt(u, c)
    PROVE  Passed(from, to, c) = 0
<1>1. OpenUnits(from, to, c) = {}
  BY DEF OpenUnits
<1> QED
  BY <1>1, FS_EmptySet DEF Passed

LEMMA PassedAll ==
    ASSUME NEW from \in Nat, NEW to \in Nat, NEW c, from <= to,
           \A u \in Nat : from <= u /\ u < to => OpenAt(u, c)
    PROVE  Passed(from, to, c) = to - from
<1>1. OpenUnits(from, to, c) = from..(to - 1)
  BY DEF OpenUnits
<1>2. Cardinality(from..(to - 1)) = IF from > to - 1 THEN 0 ELSE (to - 1) - from + 1
  BY FS_Interval
<1> QED
  BY <1>1, <1>2 DEF Passed

\* A ticket created out of hours starts at the next opening.
LEMMA Snapped ==
    ASSUME NEW m \in Nat, NEW c \in Calendars
    PROVE  LET s == SnapIntoBusinessWindow(m, c)
           IN  /\ s \in Nat /\ m <= s
               /\ SaneAt(s, c) => InWindow(s, c) /\ Passed(m, s, c) = 0
<1> DEFINE s == SnapIntoBusinessWindow(m, c)
           next == NextBusinessDayStart(m, c)
<1>1. Date(m) \in Nat /\ DayStart(Date(m), c) \in Nat /\ DayEnd(Date(m), c) \in Nat
      /\ Date(DayStart(Date(m), c)) = Date(m)
  BY DateSplits, OpeningAndClosing
<1>2. next \in Nat /\ next > m
  BY NextIsLater
<1>3. CASE s = next /\ (~IsBusinessDay(Date(m), c) \/ DayEnd(Date(m), c) <= m)
  <2>1. s \in Nat /\ m <= s
    BY <1>2, <1>3
  <2>2. ASSUME SaneAt(s, c) PROVE InWindow(s, c) /\ Passed(m, s, c) = 0
    <3>1. Ahead(m, c) # {} /\ c.start < c.end
      BY <2>1, <2>2, SaneHasNext DEF SaneAt
    <3>2. InWindow(s, c)
      BY <1>3, <3>1, NextInWindow
    <3>3. \A u \in Nat : m <= u /\ u < s => ~OpenAt(u, c)
      BY <1>3, <3>1, ClosedUntilNext
    <3> QED
      BY <2>1, <3>2, <3>3, PassedNone
  <2> QED
    BY <2>1, <2>2
<1>4. CASE s = DayStart(Date(m), c) /\ IsBusinessDay(Date(m), c) /\ m < DayStart(Date(m), c)
  <2>1. s \in Nat /\ m <= s /\ Date(s) = Date(m)
    BY <1>1, <1>4
  <2>2. ASSUME SaneAt(s, c) PROVE InWindow(s, c)
    <3>1. Date(m) * Day \in Nat /\ c.start \in Nat /\ c.end \in Nat /\ c.start < c.end
      BY <1>1, <2>2, CalendarTypes, CalendarAssumption DEF SaneAt
    <3>2. DayStart(Date(m), c) < DayEnd(Date(m), c)
      BY <3>1 DEF DayStart, DayEnd
    <3> QED
      BY <1>1, <1>4, <2>1, <3>2 DEF InWindow
  <2>3. ASSUME NEW u \in Nat, m <= u, u < s PROVE ~OpenAt(u, c)
    <3>1. Date(u) = Date(m)
      <4>1. Date(m) <= Date(u) /\ Date(u) <= Date(s)
        BY <2>1, <2>3, DaysInOrder
      <4>2. Date(u) \in Nat
        BY DateSplits
      <4> QED
        BY <1>1, <2>1, <4>1, <4>2
    <3>2. ~(DayStart(Date(u), c) <= u)
      BY <1>1, <1>4, <2>3, <3>1
    <3> QED
      BY <3>2, WithinDay DEF OpenAt
  <2> QED
    BY <2>1, <2>2, <2>3, PassedNone
<1>5. CASE s = m /\ InWindow(m, c)
  BY <1>5, PassedNone
<1>6. \/ s = next /\ (~IsBusinessDay(Date(m), c) \/ DayEnd(Date(m), c) <= m)
      \/ s = DayStart(Date(m), c) /\ IsBusinessDay(Date(m), c) /\ m < DayStart(Date(m), c)
      \/ s = m /\ InWindow(m, c)
  BY <1>1 DEF SnapIntoBusinessWindow, InWindow
<1> QED
  BY <1>3, <1>4, <1>5, <1>6

--------------------------------------------------------------------------------
(* Every round keeps the account.                                          *)

LEMMA InitPlaced == Init => CInv
<1> SUFFICES ASSUME Init PROVE CInv
  OBVIOUS
<1>1. Arguments
  BY CalendarAssumption DEF Init, Arguments
<1>2. /\ current = SnapIntoBusinessWindow(start, calendar)
      /\ remaining = minutes /\ rounds = 0
  BY DEF Init
<1>3. /\ current \in Nat /\ start <= current
      /\ SaneAt(current, calendar) =>
           InWindow(current, calendar) /\ Passed(start, current, calendar) = 0
  BY <1>1, <1>2, Snapped DEF Arguments
<1>4. RoundsBounded
  BY <1>1, <1>2, <1>3, CalendarAssumption DEF RoundsBounded, Arguments
<1> QED
  BY <1>1, <1>2, <1>3, <1>4 DEF CInv, Placed, Arguments

LEMMA StaysSane ==
    ASSUME CInv, current' \in Nat, current <= current', SaneAt(current', calendar)
    PROVE  /\ SaneAt(current, calendar)
           /\ Placed
           /\ Passed(start, current', calendar)
                = Passed(start, current, calendar) + Passed(current, current', calendar)
<1>1. /\ calendar \in Calendars /\ start \in Nat /\ current \in Nat /\ start <= current
  BY DEF CInv, Arguments, RoundsBounded
<1>2. SaneAt(current, calendar)
  BY <1>1, SaneBefore
<1>3. Passed(start, current', calendar)
        = Passed(start, current, calendar) + Passed(current, current', calendar)
  BY <1>1, PassedAdds
<1> QED
  BY <1>2, <1>3 DEF CInv

LEMMA ReturnPlaced ==
    ASSUME CInv, NothingLeft \/ GiveUp, UNCHANGED <<calendar, start, minutes>>
    PROVE  CInv'
<1>1. current' = current /\ remaining' = remaining /\ rounds' = -1 /\ rounds # -1
  BY CalendarAssumption DEF NothingLeft, GiveUp, Return, Looping
<1>2. RoundsBounded'
  BY <1>1, CalendarAssumption DEF CInv, RoundsBounded, Arguments
<1> QED
  BY <1>1, <1>2 DEF CInv, Arguments, Placed

\* Inside a window some time is left, so a sane calendar never gets here.
LEMMA EmptyWindowPlaced ==
    ASSUME CInv, EmptyWindow, UNCHANGED <<calendar, start, minutes>>
    PROVE  CInv'
<1>1. /\ calendar \in Calendars /\ start \in Nat /\ minutes \in Nat
      /\ current \in Nat /\ start <= current /\ remaining \in 0..minutes
  BY DEF CInv, Arguments, RoundsBounded
<1>2. /\ current' = NextBusinessDayStart(current, calendar)
      /\ remaining' = remaining /\ remaining > 0
      /\ rounds \in 0..(MaxRounds - 1) /\ rounds' = rounds + 1
      /\ AvailableToday <= 0
  BY DEF EmptyWindow, Looping, Shut
<1>3. current' \in Nat /\ current < current'
  BY <1>1, <1>2, NextIsLater
<1>4. RoundsBounded'
  BY <1>1, <1>2, <1>3, CalendarAssumption DEF RoundsBounded
<1>5. ~SaneAt(current', calendar)
  <2> SUFFICES ASSUME SaneAt(current', calendar) PROVE FALSE
    OBVIOUS
  <2>1. InWindow(current, calendar)
    BY <1>1, <1>2, <1>3, StaysSane DEF Placed
  <2>2. DayEnd(Date(current), calendar) \in Nat
    BY <1>1, DateSplits, OpeningAndClosing
  <2> QED
    BY <1>1, <1>2, <2>1, <2>2 DEF InWindow, AvailableToday
<1> QED
  BY <1>1, <1>2, <1>4, <1>5 DEF CInv, Arguments

LEMMA EndsTodayPlaced ==
    ASSUME CInv, EndsToday, UNCHANGED <<calendar, start, minutes>>
    PROVE  CInv'
<1>1. /\ calendar \in Calendars /\ start \in Nat /\ minutes \in Nat
      /\ current \in Nat /\ start <= current /\ remaining \in 0..minutes
  BY DEF CInv, Arguments, RoundsBounded
<1>2. /\ current' = current + remaining
      /\ remaining' = 0 /\ remaining > 0
      /\ rounds' = -1 /\ rounds # -1
      /\ remaining <= DayEnd(Date(current), calendar) - current
  BY DEF EndsToday, Looping, Return, FitsToday, AvailableToday
<1>3. /\ current' \in Nat /\ current < current' /\ current <= current'
      /\ current' - 1 \in Nat /\ current <= current' - 1 /\ current' - 1 < current'
  BY <1>1, <1>2
<1>4. RoundsBounded'
  BY <1>1, <1>2, <1>3, CalendarAssumption DEF RoundsBounded
<1>5. ASSUME SaneAt(current', calendar) PROVE Placed'
  <2>1. InWindow(current, calendar) /\ Passed(start, current, calendar) + remaining = minutes
    BY <1>2, <1>3, <1>5, StaysSane DEF Placed
  <2>2. DayEnd(Date(current), calendar) \in Nat
    BY <1>1, DateSplits, OpeningAndClosing
  <2>3. current' <= DayEnd(Date(current), calendar)
    BY <1>1, <1>2, <2>2
  <2>4. \A u \in Nat : current <= u /\ u < current' => OpenAt(u, calendar)
    <3> SUFFICES ASSUME NEW u \in Nat, current <= u, u < current' PROVE OpenAt(u, calendar)
      OBVIOUS
    <3>1. u < DayEnd(Date(current), calendar)
      BY <1>3, <2>2, <2>3
    <3> QED
      BY <1>1, <2>1, <3>1, WindowIsOpen
  <2>5. Passed(current, current', calendar) = current' - current
    BY <1>1, <1>3, <2>4, PassedAll
  <2>6. Passed(start, current, calendar) \in Nat
    BY <1>1, PassedIsNat
  <2>7. Passed(start, current', calendar) = minutes
    BY <1>1, <1>2, <1>3, <1>5, <2>1, <2>5, <2>6, StaysSane
  <2>8. OpenAt(current' - 1, calendar)
    BY <1>3, <2>4
  <2> QED
    BY <1>1, <1>2, <2>7, <2>8 DEF Placed
<1> QED
  BY <1>1, <1>2, <1>4, <1>5 DEF CInv, Arguments

LEMMA NextDayPlaced ==
    ASSUME CInv, NextDay, UNCHANGED <<calendar, start, minutes>>
    PROVE  CInv'
<1> DEFINE end == DayEnd(Date(current), calendar)
           left == end - current
<1>1. /\ calendar \in Calendars /\ start \in Nat /\ minutes \in Nat
      /\ current \in Nat /\ start <= current /\ remaining \in 0..minutes
  BY DEF CInv, Arguments, RoundsBounded
<1>2. /\ current' = NextBusinessDayStart(end, calendar)
      /\ remaining' = remaining - left
      /\ rounds \in 0..(MaxRounds - 1) /\ rounds' = rounds + 1
      /\ ~(left <= 0) /\ ~(remaining <= left)
  BY DEF NextDay, Looping, Shut, FitsToday, AvailableToday
<1>3. end \in Nat /\ Date(end) = Date(current)
  BY <1>1, DateSplits, OpeningAndClosing
<1>4. current < end /\ remaining' \in 0..minutes /\ remaining' > 0
  <2> HIDE DEF end
  <2> QED
    BY <1>1, <1>2, <1>3
<1>5. current' \in Nat /\ end < current'
  BY <1>1, <1>2, <1>3, NextIsLater
<1>6. current < current' /\ current <= current' /\ start <= current'
  <2> HIDE DEF end
  <2> QED
    BY <1>1, <1>3, <1>4, <1>5
<1>7. RoundsBounded'
  BY <1>1, <1>2, <1>4, <1>5, <1>6, CalendarAssumption DEF RoundsBounded
<1>8. ASSUME SaneAt(current', calendar) PROVE Placed'
  <2>1. InWindow(current, calendar) /\ Passed(start, current, calendar) + remaining = minutes
    BY <1>2, <1>5, <1>6, <1>8, StaysSane DEF Placed
  <2>2. Ahead(end, calendar) # {} /\ calendar.start < calendar.end
    BY <1>1, <1>3, <1>5, <1>8, SaneHasNext DEF SaneAt
  <2>3. InWindow(current', calendar)
    BY <1>1, <1>2, <1>3, <2>2, NextInWindow
  <2>4. \A u \in Nat : current <= u /\ u < end => OpenAt(u, calendar)
    BY <1>1, <2>1, WindowIsOpen
  <2>5. Passed(current, end, calendar) = left
    BY <1>1, <1>3, <1>4, <2>4, PassedAll
  <2>6. \A u \in Nat : end <= u /\ u < current' => ~OpenAt(u, calendar)
    BY <1>1, <1>2, <1>3, <2>2, ClosedUntilNext
  <2>7. Passed(end, current', calendar) = 0
    BY <1>3, <1>5, <2>6, PassedNone
  <2>8. Passed(current, current', calendar)
          = Passed(current, end, calendar) + Passed(end, current', calendar)
    BY <1>1, <1>3, <1>4, <1>5, PassedAdds
  <2>9. Passed(start, current', calendar)
          = Passed(start, current, calendar) + Passed(current, current', calendar)
    BY <1>5, <1>6, <1>8, StaysSane
  <2>10. Passed(start, current, calendar) \in Nat
    BY <1>1, PassedIsNat
  <2>11. Passed(start, current', calendar) + remaining' = minutes
    <3> HIDE DEF end
    <3> QED
      BY <1>1, <1>2, <1>3, <2>1, <2>5, <2>7, <2>8, <2>9, <2>10
  <2> QED
    BY <1>2, <2>3, <2>11 DEF Placed
<1> QED
  BY <1>1, <1>2, <1>4, <1>7, <1>8 DEF CInv, Arguments

LEMMA StepPlaced == CInv /\ [Next]_vars => CInv'
<1> SUFFICES ASSUME CInv, [Next]_vars PROVE CInv'
  OBVIOUS
<1>1. CASE UNCHANGED vars
  BY <1>1 DEF vars, CInv, Arguments, RoundsBounded, Placed
<1>2. CASE Next
  BY <1>2, ReturnPlaced, EmptyWindowPlaced, EndsTodayPlaced, NextDayPlaced DEF Next
<1> QED
  BY <1>1, <1>2

LEMMA SameNotions ==
    /\ Sane => SaneAt(current, calendar)
    /\ BusinessTime(start, current) = Passed(start, current, calendar)
    /\ OpenUnit(current - 1) <=> OpenAt(current - 1, calendar)
<1>1. \A m : OpenUnit(m) <=> OpenAt(m, calendar)
  BY DEF OpenUnit, OpenAt
<1>2. {m \in start..(current - 1) : OpenUnit(m)} = OpenUnits(start, current, calendar)
  BY <1>1 DEF OpenUnits
<1>3. Sane => SaneAt(current, calendar)
  BY DEF Sane, SaneAt, IsBusinessDay
<1> QED
  BY <1>1, <1>2, <1>3 DEF BusinessTime, Passed

--------------------------------------------------------------------------------
\* What the loop keeps at every round, for any calendar, creation and amount.
THEOREM CalendarInvariant == Spec => []CInv
BY InitPlaced, StepPlaced, PTL DEF Spec

\* The loop moves ahead only, and never owes more than the amount, also with a
\* calendar that makes no sense.
THEOREM RoundsAreBounded == Spec => []RoundsBounded
<1>1. CInv => RoundsBounded
  BY DEF CInv
<1> QED
  BY CalendarInvariant, <1>1, PTL

\* At every round of add_business_minutes the business time that has passed and
\* the time still to place make up the amount.
THEOREM NoTimeIsLost == Spec => []TimeAccountedFor
<1>1. CInv => TimeAccountedFor
  BY SameNotions DEF CInv, Placed, TimeAccountedFor
<1> QED
  BY CalendarInvariant, <1>1, PTL

\* The due date of add_business_minutes is the end of an open unit.
THEOREM DueInOpenHours == Spec => []DueEndsOpenUnit
<1>1. CInv => DueEndsOpenUnit
  BY SameNotions DEF CInv, Placed, DueEndsOpenUnit
<1> QED
  BY CalendarInvariant, <1>1, PTL
================================================================================
