\* What an owner's voiceprint is averaged from.  (The constants are those of
\* MCTranscript.cfg.)
SPECIFICATION MCSpec
CONSTANTS
  User = User
  Client = Client
  Hello = Hello
  Hallo = Hallo
  Yes = Yes
  None = None
  Nobody = Nobody
  Voices <- MCVoices
  OwnerVoice = 2
  Near = 1
  MaxClients = 2
  Texts <- MCTexts
  Long <- MCLong
  Alike <- MCAlike
  Speeches <- MCSpeeches
  MinLength = 2
  EchoWindow = 2
  HistoryCap = 2
  DuplicateWindow = 3
  Takes = {t1, t2, t3}
  MaxFiles = 2
  Second = 2
  MaxBlocks = 6
  Levels <- MCLevels
  Floor = 1
  Lag = 1
  MaxTime = 6
  MaxSegments = 3
  Speakers <- UserAndClient
  MaxEvents = 4
  Buffer = 2
  Nothing = Nothing
CHECK_DEADLOCK FALSE
INVARIANTS
  SilenceDoesNotDominate
