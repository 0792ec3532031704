\* Capture: a device with a queue of two and a file, and two pauses, so that what one
\* leaves may be heard after it, or drained in the other.
\* The detector: three segments of up to six chunks, so that a segment can be cut for a
\* change while a window of the one before it is still computed, and be followed by
\* another.
SPECIFICATION MCSpec
CONSTANTS
  Order <- MCOrder
  Files = {"client"}
  FileLength = 3
  Capacity = 2
  MaxTime = 3
  MaxPauses = 2
  MaxSegments = 3
  MaxLength = 6
  MaxAudio = 6
  Window = 2
  Step = 1
  MinTurn = 3
  Required = 2
  None = None
CHECK_DEADLOCK FALSE
INVARIANTS
  ChunksAreAccountedFor
  PausesStayUnheard
  CutsAreJustified
PROPERTIES
  StopEndsTheLoop
  DropReturns
