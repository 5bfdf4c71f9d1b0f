SPECIFICATION Spec
CONSTANTS
  v1 = v1  v2 = v2
  Callers = {v1, v2}
  Capture = capture
  Keys = {capture}
  NoKey = NoKey
  Original = Original
  Absent = Absent
  Versions = {1, 2}
  MaxRev = 2
INVARIANTS  CopyIsNotOlderThanTag ConfirmedCopyIsCurrent 
PROPERTIES EveryViewEnds
