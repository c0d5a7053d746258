SPECIFICATION FairSpec
CONSTANTS
  x = x
  y = y
  Star = Star
  One = One
  Chars <- MCChars
  Patterns <- MCPatterns
  Names <- MCNames
  Globs <- MCGlobs
  MaxLines = 5
  Segments <- MCSegments
  UnitFiles <- MCUnitFiles
  GlobsOf <- MCGlobsOf
  Unreadable <- MCUnreadable
  ChangedAlready <- MCChangedAlready
  Others <- MCOthers
  Images = {"i1", "i2"}
  UnitRefs = {"x.image"}
  LongestFile = 4
  Sources <- MCSources
  Lists <- MCLists
  Asks <- MCAsks
  Words <- MCWords
  MaxWords = 4
  Dirs = {"dir", "sync"}
  Repos = {"r1", "r2"}
  Givens <- MCGivens
  ConfigFiles <- MCConfigFiles
  DirsInOrder <- MCDirsInOrder
  EnvKeys <- MCEnvKeys
INVARIANTS
  AnswerIsRight
  SettingsAsWritten
  WatchersAreMarked
  PulledAsWritten
  OnceAndEagerly
  NoPodmanLeftBehind
  CallIsUnderstood
  SettingsOfOwnPlace
  ExitTellsOfEveryRepo
PROPERTIES
  MatchReturns
  PullingEnds
CHECK_DEADLOCK FALSE
