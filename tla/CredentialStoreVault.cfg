SPECIFICATION FairStoreSpec
CONSTANTS
  sonarr = sonarr
  qbittorrent = qbittorrent
  apiKey = apiKey
  username = username
  password = password
  v1 = v1
  v2 = v2
  None = None
  Malformed = Malformed
  Services = {qbittorrent}
  Fields = {username, password}
  Owner <- MCOwner
  Opaque = {qbittorrent}
  Identities = {username}
  Values = {v1, v2}
  StartDocuments <- MCStart
  Units = {u1, u2}
  Admins = {a1}
  Editors = {}
  MaxCommands = 2
  MaxEdits = 0
  MaxFaults = 1
PROPERTIES
  ImplementsVault
  EventuallyDelivered
  SuccessRecurs
INVARIANTS
  SuccessIsCurrent
