\* The thresholds of the code scaled down, in their order: pre-roll shorter than a
\* segment, stable_ms <= quiet_ms < force_quiet_ms; nine chunks, so that a stale tail
\* can be left behind between two segments and meet the next one.
SPECIFICATION Spec
CONSTANTS
  MaxChunks = 9
  PreRollLimit = 2
  Stable = 2
  Quiet = 2
  ForceQuiet = 3
  MinSegment = 3
  TailGap = 3
CHECK_DEADLOCK FALSE
INVARIANTS
  HeardIsTheSegment
  TailsCutTheirSegment
PROPERTIES
  CutsAreClean
