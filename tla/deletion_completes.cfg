SPECIFICATION FairSpec
CONSTANTS
  Users = {a1, a2, u}
  Admins = {a1, a2}
  Shared = shared
  Ids = {1, 2}
  Names = {n}
  Contents = {c1}
  Size <- MCSize
  Limit = 2
  Layouts = {TRUE, FALSE}
  MaxTrash = 1
  MaxFaults = 1
  None = None
PROPERTIES DeletionCompletes
CHECK_DEADLOCK FALSE
