SPECIFICATION FairPipelineSpec
CONSTANTS
  service = sonarr
  apiKey = apiKey
  username = username
  password = password
  v1 = v1
  v2 = v2
  None = None
  Malformed = Malformed
  Absent = Absent
  Revision = revision
  Services = {sonarr}
  Fields = {apiKey}
  Owner <- MCOwner
  Opaque = {}
  Identities = {}
  Values = {v1, v2}
  StartDocuments <- MCStart
  sync = sync
  syncRefresh = syncRefresh
  publisher = publisher
  refresh = refresh
  Units = {sync, syncRefresh}
  Admins = {}
  Editors = {e1}
  MaxCommands = 0
  MaxEdits = 1
  MaxFaults = 1
  Outputs <- KeyOutputs
  Shows <- KeyShows
  Consumers = {"sonarr"}
  Reads <- KeyReads
  Conditional = {}
  MaxDeliveryFaults = 2
INVARIANT
  StartupWaitsForEnrollment
PROPERTY
  EventuallyRunsWithSaved
