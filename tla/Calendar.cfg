SPECIFICATION Spec
CONSTANTS
  Day = 4
  Week = 3
  MaxSkip = 7
  MaxRounds = 8
  Calendars <- MCCalendars
  Starts <- MCStarts
  Amounts <- MCAmounts
INVARIANTS RoundsBounded TimeAccountedFor DueEndsOpenUnit
CHECK_DEADLOCK FALSE
