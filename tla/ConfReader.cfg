SPECIFICATION FairSpec
CONSTANTS
  File = {"conf", "auto", "a", "b"}
  Folder <- MCFolder
  Disks <- MCDisks
  Missing = Missing
  MaxIncludeDepth = 2
CHECK_DEADLOCK FALSE
INVARIANTS
  TypeOK
  ReadsWhatPostgresReads
PROPERTIES
  ReadingEnds
