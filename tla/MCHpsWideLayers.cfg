SPECIFICATION Spec
CONSTANTS
  None = None
  Layers <- MCWide
  Slack = 4
  MaxIdle = 4
INVARIANTS
  WindowsRight
