SPECIFICATION Spec
CONSTANTS
  Tabs = {t1, t2}
  Apps = {a}
  Requests = {r1, r2, r3}
  None = None
  MaxTokens = 3
  MaxFaults = 1
INVARIANTS TypeOK DeniedForCause WaitersHaveAFlight
SYMMETRY Symmetry
CHECK_DEADLOCK FALSE
