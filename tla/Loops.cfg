SPECIFICATION LoopsSpec
CONSTANTS
  mail = mail
  bank = bank
  Unknown = Unknown
  None = None
  Apps <- MCMailAndBank
  Blocked <- MCBank
  QueueCapacity = 1
  MaxSessions = 1
  MaxRuns = 1
  MaxFaults = 0
  Jobs = {e1, e2}
  Events = {e1, e2}
  MaxAttempts = 2
  BatchSize = 2
  MaxBreaks = 1
INVARIANTS
  BatchAccounted
PROPERTIES
  ImplementsQueue
  BatchSettles
  GatedSessionEnds
