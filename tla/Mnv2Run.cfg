SPECIFICATION Spec
CONSTANTS
  None = None
  InputWords = 2
  Channels = 32
  Pixels = 3
  Batches = 2
  ParamDepth = 64
  FilterDepth = 16
  QueueDepth = 4
  Margin = 2
INVARIANTS TypeOK NoOverflow RunsApart LoadsNeverStall BatchesApart
PROPERTIES OutputsRight LayerFinishes
