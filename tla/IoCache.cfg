SPECIFICATION Spec
CONSTANTS
  N = 3
  Values = {a, b}
  unread = unread
  torn = torn
  ic_nr_blocks = 2
  Hunk = 2
SYMMETRY ValueSymmetry
INVARIANTS CacheIsDisk AssertsHold
PROPERTIES Implements
