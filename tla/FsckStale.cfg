SPECIFICATION Spec
CONSTANTS
 NSys = 7
 NI = 15
 NC = 24
 NE = 2
 RootRecs = 3
 EbRecs = 3
 DirMax = 4
 LaMax = 4
 TlMax = 3
 NoNull = 99
 Wrap = 1000
 Under = 100
 MaxRuns = 1
 MaxKills = 0
CHECK_DEADLOCK FALSE
INVARIANT LibraryReadsOffDisk
