SPECIFICATION FairSpec
CONSTANTS
  Jobs = {j1, j2}
  Workers = {w1}
  None = None
  Dues <- MCDues
  NearNum = 1
  NearDen = 2
  MaxTime = 2
  MaxCrashes = 1
INVARIANT AlertsBounded
PROPERTIES NoFalseBreach OverdueIsFlagged
