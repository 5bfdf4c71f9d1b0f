SPECIFICATION CanvasSpec
CONSTANTS
  Points <- SomePoints
  Texts = {"note"}
  ForeignDocs <- SomeDocs
  MaxActions = 3
  Width = 2560
  Height = 1600
  MinCrop = 64
  MinRedact = 16
  MinShape = 16
  Margin = 400
  MaxShapes = 500
  MinFont = 16
  MaxFont = 2048
  RefWidth = 5120
  LowWidth = 3840
  HighWidth = 30720
INVARIANTS CanvasShowsTheRender DocumentIsAccepted HistoryTracksCanvas
CHECK_DEADLOCK FALSE
