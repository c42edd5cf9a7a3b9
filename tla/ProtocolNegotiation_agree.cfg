SPECIFICATION MCSpec
CONSTANTS
  Nodes = {n1, n2, n3}
  DaemonProtos <- OneProto
  FsProtos <- TwoProtos
  MaxStarts = 3
  MayDie = TRUE
  MayStop = TRUE
CHECK_DEADLOCK FALSE
INVARIANTS Agreement WithinMax
PROPERTIES Implements StartEnds
