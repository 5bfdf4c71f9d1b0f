SPECIFICATION BacklogSpec
CONSTANTS
  Ids = {1, 2}
  Requests = {}
  Forever = Forever
  Default = 1
  UserChoices = {2}
  TombstoneAge = 3
  BatchSize = 1
  Horizon = 4
  MaxFaults = 1
PROPERTIES PurgeGetsThere PassVisitsAll
