SPECIFICATION Spec
CONSTANTS
  Clients = {c1, c2}
  Owners = {o1, o2}
  None = None
  States <- MCStates
  Malformed <- MCMalformed
  MaxConnections = 1
  Pools = {p1, p2}
  Replicas = {r1, r2, r3}
  Consistency = 2
CONSTRAINT FewWrites
SYMMETRY Symmetry
INVARIANTS
  TypeOK
  ConnectedIsOpen
  PurgesAcknowledged
PROPERTIES
  ReadsLatest
