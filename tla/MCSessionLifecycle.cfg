\* Two streams, two segments with a plugin job each, and a channel of two
\* commands, so that every sender meets a full channel.
SPECIFICATION FairSpec
CONSTANTS
  Streams <- UserAndClient
  MaxSegments = 2
  Capacity = 2
  None = None
CHECK_DEADLOCK FALSE
INVARIANTS
  RecordIsWhole
PROPERTIES
  RecordKept
  FinishReturns
