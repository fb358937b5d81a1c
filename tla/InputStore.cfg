SPECIFICATION Spec
CONSTANTS
  Words = {x, y}
  Zero = x
  NoWord = NoWord
  Banks = 2
  MaxDepth = 4
  Depths = {1, 2, 3}
INVARIANTS TypeOK BuffersAlternate PrefetchedData
PROPERTIES ImplementsQueue PixelOffered
