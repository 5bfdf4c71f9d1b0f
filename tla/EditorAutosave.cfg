SPECIFICATION Spec
CONSTANTS
  t1 = t1  t2 = t2
  Tabs <- TwoTabs
  Gestures <- SomeGestures
  Frames <- SomeFrames
  Width = 32
  Height = 24
  MinCrop = 8
  MinRedact = 8
  MinShape = 8
  Margin = 8
  MaxShapes = 500
  MinFont = 16
  MaxFont = 2048
  RefWidth = 5120
  LowWidth = 3840
  HighWidth = 30720
  MaxEdits = 2
  MaxTroubles = 1
INVARIANT CleanTabShowsItsRevision
PROPERTIES NoBlindOverwrite 
CHECK_DEADLOCK FALSE
