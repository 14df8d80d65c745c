\* Two clients write and delete while one owner connects, disconnects and pings; a
\* walk over the persistence ids, two rows a page, beside one of them; and every
\* query against every table the store reaches.
CONSTANTS
  Clients = {c1, c2}
  Owners = {o1}
  Orderings = {1, 2, 3}
  Batches <- MCBatches
  Targets <- MCTargets
  None = None
  Malformed = "malformed"
  Sequences = {1, 2}
  Limits = {0, 1, 2, 3}
  Offsets = {0, 1, 2}
  Shards = {1, 2}
  PageSize = 2
SPECIFICATION WSpec
CONSTRAINT Bounds
ACTION_CONSTRAINT WalksOn
INVARIANTS TypeOK NoNilDB DeletesWhatItRead
  ReplaysComplete ShardPagesComplete UnreadableStaysLocal ListsEveryIDThatFits
PROPERTIES RefinesJournal WalkAdvances
SYMMETRY Symmetry
