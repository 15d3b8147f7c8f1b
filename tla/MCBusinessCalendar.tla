--------------------------- MODULE MCBusinessCalendar ---------------------------
EXTENDS BusinessCalendar

\* Weeks of three days of four units: every set of business days and every
\* opening and closing time, inverted ones included.
MCCalendars ==
    [business_days : SUBSET (0..2), start : 0..3, end : 0..3, holidays : SUBSET (1..3)]

MCStarts == 0..11

MCAmounts == 0..6
================================================================================
