SPECIFICATION Spec
CONSTANTS
  x = x
  y = y
  NoCmd = NoCmd
  Nothing = Nothing
  FunctionIds <- MCFunctionIds
  Implemented <- MCImplemented
  Operands <- MCOperands
  Outputs <- MCOutputs
  ClockControl = TRUE
  MaxCommands = 3
INVARIANTS TypeOK NothingLost CfuStopsOnlyIdle
PROPERTIES ResponseHeld ImplementsProtocol CommandsProgress
