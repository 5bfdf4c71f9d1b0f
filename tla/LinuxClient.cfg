SPECIFICATION Spec
CONSTANTS
  Launches <- ThreeLaunches
  SettingsRuns = {1, 2}
  Requests <- TwoRequests
  None = None
  Unreadable = Unreadable
  Mode <- WindowThenRegion
INVARIANTS ResidentsCaptureOneAtATime SavedSettingsHold
PROPERTIES AcceptedIsTaken
CHECK_DEADLOCK FALSE
