\* Two workers, three jobs, a queue of one: the queue fills up while both workers
\* are busy, and there are more jobs than workers when the session is stopped.
SPECIFICATION FairSpec
CONSTANTS
  Jobs = {j1, j2, j3}
  Workers = {w1, w2}
  Capacity = 1
  NoJob = NoJob
CHECK_DEADLOCK FALSE
INVARIANTS
  NoJobIsStranded
  LateResultsAreDropped
PROPERTIES
  PromiseKept
  ExecutorGoesOn
