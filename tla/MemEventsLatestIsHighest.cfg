\* What the code does not keep: LatestIsHighest.
CONSTANTS
  Clients = {c1}
  Owners = {o1}
  Orderings = {1, 2}
  Batches <- MCBatches
  Targets <- MCTargets
  None = None
  Malformed = "malformed"
  Sequences = {1, 2}
  Limits = {0, 1, 2, 3}
  Offsets = {0, 1, 2}
  Shards = {1, 2}
SPECIFICATION Spec
INVARIANT LatestIsHighest
