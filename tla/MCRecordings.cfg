SPECIFICATION Spec
CONSTANTS
  Order <- MCOrder
  Files = {"client"}
  FileLength = 3
  Capacity = 1
  MaxTime = 2
  MaxPauses = 0
  Dirs = {"old", "new"}
  First = "old"
  Rate = 16000
  Silence = Silence
  None = None
CHECK_DEADLOCK FALSE
INVARIANTS
  RecordingIsWhole
  MasterHasBothTracks
PROPERTIES
  RestartRecovers
