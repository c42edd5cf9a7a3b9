SPECIFICATION FairSpec
CONSTANTS
  Modes = {"y", "n"}
  MaxRecs = 2
  Cpg = 4
  Clusters = 11
  MaxRuns = 3
CHECK_DEADLOCK FALSE
INVARIANTS Repaired SecondRunIsQuiet MarkedAreGroups
PROPERTIES PassEnds
