SPECIFICATION Spec
CONSTANTS
  None = None
  Layers <- MCLayers
  FifoDepth = 8
  MaxDepth = 64
  MaxWait = 5
INVARIANTS
  TypeOK
  NoResultLost
  ParamsInTime
  NoOverflow
  StartsClean
PROPERTIES
  OutputsRight
  DriverFinishes
