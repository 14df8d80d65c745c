SPECIFICATION Spec
CONSTANTS
  Clients = {c1, c2}
  Owners = {}
  None = None
  States <- MCStates
  Malformed <- MCMalformed
PROPERTIES
  ReadsLatest
