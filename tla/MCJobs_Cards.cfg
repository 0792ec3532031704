\* Which card an explanation replaces.  (The constants are those of MCJobs.cfg.)
SPECIFICATION MCSpec
CONSTANTS
  DedupWindow = 2
  MaxItems = 3
  MaxPerSegment = 2
  MinText = 4
  MinClause = 8
  MinAction = 6
  MaxChars = 20
  MinSpan = 1
  MinCall = 1
  Gap = 2
  MonologueTime = 3
  Cooldown = 2
  MinSpeech = 3
  QuestionsAfter = 3
  QuestionTime = 1
  FastPace = 3
  MinuteTime = 1
  WrapUp <- MCWrapUp
  Sessions <- MCSessions
  Epoch = 5
  Second = 2
  Workers = 2
  TermCooldown = 2
  BriefCooldown = 2
  Translation <- MCTranslation
  MaxBriefs = 2
  None = None
  Verdicts = {clean, noise}
  Settings <- MCSettings
  Private = {"lan"}
  MaxChanges = 1
  Requests = {r1, r2}
  MaxParts = 1
  LastStamp = 1
  Pad = 1
  Block = 2
  Adapters = {"server", "desktop"}
  Kinds = {"files", "archive", "punct"}
  Tasks = {t1, t2}
  Unset = Unset
  MaxBlocks = 6
CHECK_DEADLOCK FALSE
INVARIANTS
  AnswersFindTheirCards
