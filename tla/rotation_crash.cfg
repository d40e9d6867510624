SPECIFICATION Spec
CONSTANTS
  None = None
  Objects = {o1, o2}
  Keys = {k1, k2}
  IVs = {iv1, iv2}
  InitKey = k1
  Requests = {r1, r2}
  Faults = {"io", "dirsync", "kill", "environment"}
  MaxRotations = 2
  MaxFaults = 1
  MaxRestarts = 2
SYMMETRY Symmetry
INVARIANTS
  TypeOK
  ServedUnderCurrentKey
  Recoverable
  RefusesOnlyForCause
PROPERTIES
  KeepsVaultPromise
