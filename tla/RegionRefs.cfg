SPECIFICATION FairSpec
CONSTANTS
  Procs = {p1, p2}
  Regions = {r1, r2}
  Keys = {k1}
  key <- OneKey
  MaxSets = 2
  MaxMounts = 1
  MaxStarts = 3
  MaxDeaths = 1
  Einval = TRUE
CHECK_DEADLOCK FALSE
INVARIANTS HeldIsLive OneInside
PROPERTIES ProcessEnds
