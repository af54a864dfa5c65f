SPECIFICATION PipelineSpec
CONSTANTS
  service = qbittorrent
  apiKey = apiKey
  username = username
  password = password
  v1 = v1
  v2 = v2
  None = None
  Malformed = Malformed
  Absent = Absent
  Revision = revision
  Services = {qbittorrent}
  Fields = {username, password}
  Owner <- MCOwner
  Opaque = {qbittorrent}
  Identities = {username}
  Values = {v1, v2}
  StartDocuments <- MCStart
  sync = sync
  syncRefresh = syncRefresh
  publisher = publisher
  refresh = refresh
  Units = {sync, syncRefresh}
  Admins = {}
  Editors = {e1}
  MaxCommands = 0
  MaxEdits = 1
  MaxFaults = 0
  Outputs <- LoginOutputs
  Shows <- LoginShows
  Consumers = {"qbittorrent"}
  Reads <- LoginReads
  Conditional = {}
  MaxDeliveryFaults = 1
INVARIANT
  ConsumersGetSavedCredentials
