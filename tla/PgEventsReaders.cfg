\* A projection that follows a shard, an event a page, or a walk over the
\* persistence ids, one a page, while two clients write and delete.
CONSTANTS
  Clients = {c1, c2}
  Owners = {o1}
  PersistenceIDs = {1, 2}
  SequenceNumbers = {1, 2, 3}
  Batches <- MCBatches
  Targets <- MCTargets
  insertBatchSize = 1
  MaxConnections = 2
  Pools = {p1}
  None = None
  Bounds = {1, 3}
  Limits = {1, 3}
  Shard = 1
  PollLimit = 1
  PageSize = 1
  NoID = 0
SPECIFICATION RSpec
SYMMETRY Symmetry
CONSTRAINT OneWriter
INVARIANTS RecoveryComplete MissesOnlyLateOrEqual ListsEveryID
PROPERTIES HandlesOnce WalkAdvances
