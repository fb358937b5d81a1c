SPECIFICATION Spec
CONSTANTS
  InputDepths <- MCInputDepths
  OutputDepths <- MCOutputDepths
  MaxParams = 512
  MaxFilter = 8192
  MaxInput = 4096
INVARIANTS StoresSuffice PointersAgree
PROPERTIES AllChannels
CHECK_DEADLOCK FALSE
