\* Three segments of two streams, three voices of which the middle one is like the
\* two others, two numbers for clients and a history of two finals.  The page follows
\* two speakers and four events, so that a hypothesis can be opened, replaced and
\* committed while the other speaker's is open, over a channel of two events, so that
\* it can lag.
SPECIFICATION MCSpec
CONSTANTS
  User = User
  Client = Client
  Hello = Hello
  Hallo = Hallo
  Yes = Yes
  None = None
  Nobody = Nobody
  Voices <- MCVoices
  OwnerVoice = 2
  Near = 1
  MaxClients = 2
  Texts <- MCTexts
  Long <- MCLong
  Alike <- MCAlike
  Speeches <- MCSpeeches
  MinLength = 2
  EchoWindow = 2
  HistoryCap = 2
  DuplicateWindow = 3
  Takes = {t1, t2, t3}
  MaxFiles = 2
  Second = 2
  MaxBlocks = 6
  Levels <- MCLevels
  Floor = 1
  Lag = 1
  MaxTime = 6
  MaxSegments = 3
  Speakers <- UserAndClient
  MaxEvents = 4
  Buffer = 2
  Nothing = Nothing
CHECK_DEADLOCK FALSE
INVARIANTS
  EchoesAreDropped
  SpeakersAreKnown
  ObserversSeeWhatIsShown
  OwnerIsKept
  CaughtUpAgrees
PROPERTIES
  FinalLinesStay
  CatchesUp
