SPECIFICATION FairSpec
CONSTANTS
  small = small
  large = large
  Paths = {p1}
  Versions = {small, large}
  SizeOf <- MCSizeOf
  ChunkLen = 2
  Sessions = {s1}
  Tries = 3
  Limits = {0, 3}
  MaxLate = 1
  MaxFaults = 2
  MaxCuts = 1
  MaxTrash = 0
  None = None
PROPERTIES UploadEnds PublishedAtLast
