SPECIFICATION Spec
CONSTANTS
  MaxSessions = 2
  MaxSegments = 1
  MaxJobs = 1
  Hotwords = {"none", "names"}
  Capacity = 1
  Epoch = 1
  MaxTime = 2
  None = None
INVARIANTS
  OrphansEndWithTheirLastSegment
CHECK_DEADLOCK FALSE
