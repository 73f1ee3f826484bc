CONSTANTS
  Creds = {c1, c2}
  MaxBlocks = 2
  Idps = {p1}
  Registries = {i1}
  MaxActs = 5
  MaxProves = 2
  MaxAnchors = 2
  None = None
SPECIFICATION ExplorerSpec
CHECK_DEADLOCK FALSE
INVARIANT StatementsNotMixed
