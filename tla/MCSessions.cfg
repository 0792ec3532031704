\* Two sessions, of which the second may begin while the first is still finished;
\* three saves or edits of the configuration, between them starts and exits.
SPECIFICATION MCSpec
CONSTANTS
  MaxSessions = 2
  MaxSegments = 1
  MaxJobs = 1
  Hotwords = {words, others}
  Capacity = 1
  Epoch = 1
  MaxTime = 2
  None = None
  Nil = Nil
  Missing = Missing
  Torn = Torn
  NotAnObject = NotAnObject
  Words = {"", "auto", "paraformer-zh", "cpu"}
  Names <- MCNames
  Keys <- MCKeys
  HandMade <- MCHandMade
  Updates <- MCUpdates
  Backends = {Nil, "cpu"}
  MaxSteps = 3
SYMMETRY HotwordsSymmetry
CHECK_DEADLOCK FALSE
INVARIANTS
  RowsAreOfTheirSession
  OpenHasOwner
  EngineIsOwn
  SceneIsKept
  SavedIsLoaded
  UpdatesKeepPluginsValid
