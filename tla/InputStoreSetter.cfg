SPECIFICATION SetterSpec
CONSTANTS
  Words = {x, y}
  Zero = x
  NoWord = NoWord
  Banks = 2
  MaxDepth = 4
  Depths = {2, 3}
PROPERTIES StoreStalls
