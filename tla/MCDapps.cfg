CONSTANTS
  Creds = {c1, c2}
  MaxBlocks = 2
  Idps = {p1}
  Registries = {i1}
  MaxActs = 3
  MaxProves = 2
  MaxAnchors = 2
  None = None
  Users = {c1, c2}
  Nobody = Nobody
  MaxMoves = 3
  MaxRequests = 2
  MaxProofs = 2
SPECIFICATION MCSpec
SYMMETRY Symmetry
CHECK_DEADLOCK FALSE
INVARIANTS DappsTypeOK OkWasActive OkWasAnchored IssuedIsHeld SaysWhatIsDone
