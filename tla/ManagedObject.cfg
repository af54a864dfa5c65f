SPECIFICATION FairSpec
CONSTANTS
  None = None
  Ids <- FourIds
  Settings = {s1}
  Secrets = {k1, k2}
  Rest = {r1, r2}
  Adapters = {"client", "token", "plain"}
  MaxEvents = 3
INVARIANTS
  TypeOK
  OnlyOwnObjectsWritten
  InterruptedCreateRecovers
  SuccessMeansFollows
PROPERTIES
  UnownedFieldsKept
  Converges
