SPECIFICATION ProjectionsSpec
CONSTANTS
  u1 = u1
  u2 = u2
  NoRow = NoRow
  Events <- MCPair
  None = None
  Keys <- MCPair
  Heartbeat = 2
  Gap = 3
  MaxStreams = 2
  MaxSeq = 4
  MaxTime = 4
  MaxSteps = 1
  Lifetimes = {1, 2}
  ReportApps <- MCPair
  Locked = Locked
  Nameless = Nameless
  MaxMinute = 4
  MaxLength = 2
  DayEnds <- MCDayEnds
  HourOf <- MCHourOf
  Twice = {3}
  SlotLen = 2
  MaxRows = 3
  DomainOf <- MCDomainOf
  Lingers = 2
  Near <- MCNear
  Wide <- MCWide
  FlushBounds <- MCFlushBounds
  MaxTop = 2
  MaxTitles = 1
  MaxInputs = 2
  Workflows = {"routine"}
  NoCard = NoCard
  PerTick = 1
  MaxSlot = 3
  MaxUpheavals = 1
  MaxDay = 2
  MaxRoasts = 2
  MaxUpsets = 2
  Openers <- MCPair
  From <- MCFrom
  MaxSetbacks = 1
  HitApps = {"chat", "shell"}
  NoApp = ""
  Unknown = "unknown"
  Chats = {"chat"}
  Consoles = {"shell"}
  HitWindows = {"main", "other"}
  Chords = {"save", "quit"}
  Quitting = {"quit"}
  NoChord = "none"
  Cells = {1, 2}
  NoPlace = 0
  Labels = {"all", "key"}
  Secrets = {"key"}
  NoLabel = "nothing"
  MaxFolded = 6
  MaxReplay = 4
  SlotWalks <- MCWalks
  SlotRows <- MCRows
  SlotAnswers <- MCAnswers
  MaxHits = 4
  DocApps = {1, 2}
  Heads = {1, 2, 3}
  TextLines = {"a", "b", "c", "d", "e", "menu"}
  Salient = {"a", "b", "c", "d", "e"}
  MaxDocsPerApp = 2
  MaxSnippets = 2
  MaxShownApps = 1
  SlotReadings <- MCReadings
  MaxReadings = 3
SYMMETRY Symmetric
INVARIANTS
  IndexTrue
  ProjectionIsFunction
  TimeCountedOnce
  DayAccounted
  FactsHold
  AttemptedOnce
  ServedSchemaComplete
PROPERTIES
  NarrativesKept
