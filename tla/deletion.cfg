SPECIFICATION Spec
CONSTANTS
  Users = {a1, a2, u}
  Admins = {a1, a2}
  Shared = shared
  Ids = {i1, i2}
  Names = {n}
  Contents = {c1, c2}
  Size <- MCSize
  Limit = 3
  Layouts = {TRUE, FALSE}
  MaxTrash = 1
  MaxFaults = 2
  None = None
INVARIANTS TypeOK ContentKept NothingRemains
PROPERTIES SharedSurvives ReservedRoomIsKept
SYMMETRY Symmetry
CHECK_DEADLOCK FALSE
