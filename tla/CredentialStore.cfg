SPECIFICATION StoreSpec
CONSTANTS
  sonarr = sonarr
  qbittorrent = qbittorrent
  apiKey = apiKey
  username = username
  password = password
  v1 = v1
  v2 = v2
  None = None
  Malformed = Malformed
  Services = {sonarr, qbittorrent}
  Fields = {apiKey, password}
  Owner <- MCOwner
  Opaque = {qbittorrent}
  Identities = {}
  Values = {v1, v2}
  StartDocuments <- MCStart
  Units = {u1}
  Admins = {a1}
  Editors = {e1}
  MaxCommands = 1
  MaxEdits = 1
  MaxFaults = 1
SYMMETRY ValueSymmetry
INVARIANTS
  StoreTypeOK
  DeliveredWasSaved
  DeliveredIsComplete
PROPERTIES
  SavesAreTransactions
  StoredValuesSurvive
