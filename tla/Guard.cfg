SPECIFICATION Spec
CONSTANTS
  k1 = k1  NoKey = NoKey
  s1 = s1  s2 = s2
  Keys <- OneKey
  Slots <- TwoSlots
  Budget = 1
  BreakerRate = 1
  Minute = 2
  Window = 2
  Cooldown = 1
  Ladder <- TwoRungs
  AlertInterval = 2
  Watched <- WatchOpened
  MaxStrikes = 2
  MaxMisses = 3
  MaxTime = 4
SYMMETRY Symmetric
INVARIANTS BansAgree
PROPERTIES  AlertsAreSpaced
