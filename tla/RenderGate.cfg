SPECIFICATION Spec
CONSTANTS
  k1 = k1  k2 = k2  k3 = k3  k4 = k4
  c1 = c1  c2 = c2  c3 = c3  c4 = c4
  NoKey = NoKey
  Keys <- FourKeys
  Callers <- FourCallers
  Limit = 2
INVARIANT SlotsAreKept
PROPERTY ImplementsService
