SPECIFICATION Spec
CONSTANTS
  None = None
  InputWords = 2
  Channels = 12
  Pixels = 1
  Batches = 1
  ParamDepth = 16
  FilterDepth = 8
  QueueDepth = 4
  Margin = 2
PROPERTIES LayerFinishes
