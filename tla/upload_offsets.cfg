SPECIFICATION Spec
CONSTANTS
  small = small
  large = large
  Paths = {p1, p2}
  Versions = {small, large}
  SizeOf <- MCSizeOf
  ChunkLen = 2
  Sessions = {s1, s2}
  Tries = 1
  Limits = {4}
  MaxLate = 1
  MaxFaults = 1
  MaxCuts = 0
  MaxTrash = 2
  None = None
SYMMETRY Symmetry
INVARIANTS TypeOK BytesInPlace ReservationIsResumable OkMeansPublished
PROPERTY QuotaHolds
