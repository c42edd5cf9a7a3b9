SPECIFICATION FairSpec
CONSTANTS
  Groups = {g1}
  Nodes = {1, 2}
  Us = 2
  MaxDeaths = 2
  MaxUnread = 3
INVARIANTS NodesAreMembers DeathIsPassedOn NeverLost
PROPERTIES DeadIsReported NotificationEnds
