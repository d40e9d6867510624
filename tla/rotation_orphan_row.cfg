SPECIFICATION FairSpec
CONSTANTS
  None = None
  Objects = {o1, o2}
  Keys = {k1, k2}
  IVs = {iv1}
  InitKey = k1
  Requests = {r1}
  Faults = {"io"}
  MaxRotations = 1
  MaxFaults = 2
  MaxRestarts = 0
PROPERTIES
  ContinueCompletes
