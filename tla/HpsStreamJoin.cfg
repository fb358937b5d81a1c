SPECIFICATION Spec
CONSTANTS
  None = None
  FifoDepth = 3
  Bytes = 8
  Tags = 2
  Releases = {0, 2}
INVARIANTS OffersKept
PROPERTIES ImplementsPairedStreams PairsFlow
