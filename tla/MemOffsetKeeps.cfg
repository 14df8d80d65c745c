\* One client, one owner; one offset and a reconnect.
CONSTANTS
  Clients = {c1}
  Owners = {o1}
  Orderings = {1, 2}
  Projections = {"accounts"}
  NoName = ""
  Shards = {0}
  Values = {10, 20}
  None = None
SPECIFICATION Spec
INVARIANT OffsetsSurvive
