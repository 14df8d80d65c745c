\* Two clients that wait for the only connection of a pool, and one statement that
\* can go on without its client and hold its rows; a store that is disconnected is
\* connected again only after a crash.
CONSTANTS
  Clients = {c1, c2}
  Owners = {o1}
  MaxConnections = 1
  Pools = {p1}
  None = None
  Projections = {"accounts"}
  Shards = {0, 1}
  Values = {10, 20}
  Lost = {l1}
SPECIFICATION FairSpec
CONSTRAINT Bounds
INVARIANT TypeOK
PROPERTIES RefinesOffsets EveryCallReturns
