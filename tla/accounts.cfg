SPECIFICATION Spec
CONSTANTS
  Users = {u1, u2, u3}
  Sessions = {s1}
  Requests = {r1}
  Modes = {"open", "approval", "closed"}
  MaxChanges = 2
  MaxTokens = 1
  None = None
SYMMETRY Symmetry
INVARIANTS TypeOK AdminRemains SuperuserStands RevokedStaysOut DeletionHasHeir
CHECK_DEADLOCK FALSE
