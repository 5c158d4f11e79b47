SPECIFICATION CaptureSpec
CONSTANTS
  mail = mail
  bank = bank
  Unknown = Unknown
  None = None
  Apps <- MCMailAndBank
  Blocked <- MCBank
  QueueCapacity = 1
  MaxSessions = 2
  MaxRuns = 2
  MaxFaults = 1
  TrunkMax = 3
  SilenceMax = 2
  PreRoll = 1
  Padding = 1
  WavMax = 4
  MaxQuanta = 7
  Backlog = 1
  chat = chat
  a = a
  b = b
  NoPlace = NoPlace
  Places <- MCPlaces
  HidBlocked <- MCBank
  Inputs <- MCInputs
  MaxPresses = 3
  MaxOwners = 2
  MaxFailures = 1
INVARIANTS
  SessionsAccounted
  VoiceKept
  ExportDriftBounded
  InputAccounted
