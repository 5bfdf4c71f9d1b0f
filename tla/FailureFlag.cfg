SPECIFICATION ExtSpec
CONSTANTS
  o1 = o1  host = host
  Origins = {o1}
  HostOf <- OneHost
  DefaultOrigin = o1
  ApiTokens = {}
  Nothing = Nothing
  Handlers = {1}
  MaxPresses = 0
  MaxCaptures = 2
  MaxFaults = 0
INVARIANT FailureWaitsForThePopup
CHECK_DEADLOCK FALSE
