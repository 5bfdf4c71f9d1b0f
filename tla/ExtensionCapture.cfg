SPECIFICATION BothSpec
CONSTANTS
  t1 = t1  t2 = t2
  Tabs <- TwoTabs
  Heights <- SomeHeights
  Scrolls <- SomeScrolls
  Scale = 5
  ViewportHeight = 5
  MaxHeightPx = 14
  MinRegion = 2
  MaxFlows = 2
  MaxTroubles = 2
  o1 = o1  o2 = o2  host = host  k1 = k1
  Origins = {o1, o2}
  HostOf <- OneHost
  DefaultOrigin = o1
  ApiTokens = {k1}
  Nothing = Nothing
  Handlers = {1, 2}
  MaxPresses = 3
  MaxCaptures = 1
  MaxFaults = 1
INVARIANTS LockFollowsItsCapture ImageShowsItsPage PageIsAsTheUserLeftIt
  TokenGoesWhereItWasSaved OptionsShowWhatIsStored
SYMMETRY Symmetric
CHECK_DEADLOCK FALSE
