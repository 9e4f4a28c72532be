CONSTANTS
  N = 2
  Quota <- TwoEach
  Key = {1, 2, 3}
  Menu <- InsertAndMix
  Flush = 1
  FirstEnlarge = 1
  FirstBackbone = 1
  Growth = 1
SPECIFICATION FairSpec
INVARIANTS
  TreeTypeOK
  Routed
PROPERTIES
  IsKeySet
  
CHECK_DEADLOCK FALSE
