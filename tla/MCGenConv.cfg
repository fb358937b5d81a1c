SPECIFICATION Spec
CONSTANTS
  FILTER_BANKS = 2
  DEPTH = 8
  MIN_GAP = 3
  Zero = Zero
  Unwritten = Unwritten
  Shapes <- MCShapes
  Params <- MCParams
  Words <- MCWords
  Programs <- MCPrograms
  PIXELS = 2
  MaxResets = 1
INVARIANTS TypeOK NothingDropped RotationsComplete OutputsRight
PROPERTIES ImplementsCommands LayersFinish
