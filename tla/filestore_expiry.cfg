SPECIFICATION Spec
CONSTANTS
  Owners = {user, shared}
  SharedOwner = shared
  Paths <- MCPaths
  Hashes = {h1}
  SizeOf <- MCSizeOf
  Candidates <- MCCandidates
  TrashSettings = {TRUE}
  MaxCalls = 6
  MaxTrash = 2
  MaxCuts = 0
  None = None
INVARIANT TrashKeepsContent
CHECK_DEADLOCK FALSE
