SPECIFICATION Spec
CONSTANTS
  Owners = {user, shared}
  SharedOwner = shared
  Paths <- MCPaths
  Hashes = {h1, h2}
  SizeOf <- MCSizeOf
  Candidates <- MCCandidates
  TrashSettings = {TRUE, FALSE}
  MaxCalls = 5
  MaxTrash = 2
  MaxCuts = 1
  None = None
INVARIANT TypeOK
PROPERTIES RowKeepsContent RestoreKeepsLive DeletionIsRecorded
