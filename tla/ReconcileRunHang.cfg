SPECIFICATION FairSpec
CONSTANTS
  None = None
  Order <- AllAndProwlarr
  HangTime = 85
  TimeoutStartSec = 180
  MaxHung = 3
  MaxTime = 1
  MaxEvents = 0
PROPERTIES
  FailuresAreIsolated
