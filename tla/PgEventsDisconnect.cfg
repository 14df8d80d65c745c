\* A client whose event cannot be marshalled leaks the connection of its transaction.
CONSTANTS
  Clients = {c1}
  Owners = {o1}
  PersistenceIDs = {1, 2}
  SequenceNumbers = {1, 2, 3}
  Batches <- MCBatches
  Targets <- MCTargets
  insertBatchSize = 1
  MaxConnections = 2
  Pools = {p1}
  None = None
SPECIFICATION FairSpec
PROPERTY DisconnectReturns
