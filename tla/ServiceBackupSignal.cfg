SPECIFICATION BackupSpec
CONSTANTS
  tubearchivist = tubearchivist
  komga = komga
  elasticsearch = elasticsearch
  None = None
  Gone = Gone
  Partial = Partial
  NoCall = NoCall
  Names <- MCNames
  Services = {tubearchivist, komga}
  Rank <- MCRank
  Database = tubearchivist
  Engine = elasticsearch
  MaxRuns = 2
  MaxWrites = 0
  MaxCrashes = 0
INVARIANT FailedRestoreLeavesStopped
CHECK_DEADLOCK FALSE
