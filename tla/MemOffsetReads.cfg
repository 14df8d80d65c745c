\* A reset beside a read.
CONSTANTS
  Clients = {c1, c2}
  Owners = {o1}
  Orderings = {1, 2}
  Projections = {"accounts"}
  NoName = ""
  Shards = {0, 1}
  Values = {10, 20}
  None = None
SPECIFICATION Spec
PROPERTY ReadsAreCommitted
