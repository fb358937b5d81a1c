SPECIFICATION Spec
CONSTANTS
  None = None
  Layers <- MCLayers
  Slack = 4
  MaxIdle = 4
INVARIANTS
  TypeOK
  WindowsRight
