SPECIFICATION FairDeliverySpec
CONSTANTS
  v1 = v1
  username = username
  password = password
  None = None
  Malformed = Malformed
  Absent = Absent
  Revision = revision
  Publishers = {publisher, refresh}
  Values = {v1}
  Keys = {username, password}
  Outputs <- LoginOutputs
  Shows <- LoginShows
  Consumers = {"qbittorrent", "exporter"}
  Reads <- LoginReads
  Conditional = {"exporter"}
  MaxFaults = 1
  MaxDeployments = 2
INVARIANTS
  DeliveryTypeOK
  FilesAgree
  ConsumersCurrent
  FilesBeforeConsumers
PROPERTIES
  EventuallyServed
