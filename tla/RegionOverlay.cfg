SPECIFICATION OverlaySpec
CONSTANTS
  Elements <- SevenElements
  ChildrenOf <- Tree
  MinMedia = 3
  MinBox = 5
  EdgePromote = 1
  SnapDistance = 1
  Viewport = 16
  CellSide = 4
  MaxCells = 4
  MinDelta = 2
  White = 8
  Page0 <- APage
  Changes <- SomeChanges
  Scrolls <- SomeScrolls
  Points <- SomePoints
  MaxEvents = 3
  Page0Scroll = 8
  Scale = 5
  ViewportHeight = 5
  MaxHeightPx = 14
  MinRegion = 2
INVARIANTS SelectionIsCapturable 
PROPERTIES IndexCatchesUp
CHECK_DEADLOCK FALSE
