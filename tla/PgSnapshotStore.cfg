\* Two clients, each with a connection, one owner, and one statement that can go on
\* without its client; a store that is disconnected is not connected again.
CONSTANTS
  Clients = {c1, c2}
  Owners = {o1}
  None = None
  MaxConnections = 2
  Pools = {p1}
  Snapshots <- MCSnapshots
  Malformed <- MCMalformed
  Ranges <- MCRanges
  Lost = {l1}
SPECIFICATION FairSpec
INVARIANT TypeOK
PROPERTIES RefinesSnapshots EveryCallReturns
