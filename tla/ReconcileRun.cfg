SPECIFICATION FairSpec
CONSTANTS
  None = None
  Order <- TwoAndProwlarr
  HangTime = 85
  TimeoutStartSec = 180
  MaxHung = 2
  MaxTime = 2
  MaxEvents = 1
INVARIANTS
  TypeOK
  NoStaleSuccess
  ReportIsComplete
  LastSuccessIsTrue
PROPERTIES
  FailuresAreIsolated
