\* Two clients, one owner; every event is an INSERT of its own.
CONSTANTS
  Clients = {c1, c2}
  Owners = {o1}
  PersistenceIDs = {1, 2}
  SequenceNumbers = {1, 2, 3}
  Batches <- MCBatches
  Targets <- MCTargets
  insertBatchSize = 1
  MaxConnections = 2
  Pools = {p1}
  None = None
SPECIFICATION FairSpec
INVARIANT TypeOK
PROPERTIES RefinesJournal EveryCallReturns
