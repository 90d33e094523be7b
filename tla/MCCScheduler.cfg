SPECIFICATION FairSpec
CONSTANTS
  Jobs = {"FSCHECK", "DISKCHECK"}
  Interval <- MCInterval
  FirstRuns = {0, 1, 2, 3}
  MaxTime = 3
  MaxSetBacks = 1
INVARIANTS
  GridKept
  PassExact
PROPERTY CaughtUp

