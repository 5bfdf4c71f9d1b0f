SPECIFICATION InstallSpec
CONSTANTS
  r1 = r1  r2 = r2
  Ids = {1}
  Requests = {r1, r2}
  Forever = Forever
  Default = 1
  UserChoices = {2}
  TombstoneAge = 3
  BatchSize = 1
  Horizon = 4
  MaxFaults = 2
  KeepDays = 0
  Shards = 2
  MaxRuns = 1
SYMMETRY RequestSymmetry
INVARIANTS LiveHasOriginal HardDeleteIsClean 
PROPERTIES TombstoneIsFinal TombstoneServesItsAge
