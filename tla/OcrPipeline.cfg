SPECIFICATION OcrSpec
CONSTANTS
  j1 = j1
  j2 = j2
  e1 = e1
  e2 = e2
  None = None
  Jobs <- MCJobs
  Events <- MCEvents
  MaxAttempts = 2
  BatchSize = 2
  Threshold = 2
  MaxFaults = 1
  MaxCalls = 2
  MaxDowns = 1
INVARIANTS
  RowsAccounted
  DoneHasText
  StrandedOnlyByFaults
PROPERTIES
  RestingRowsUntouched
  EveryJobSettles
  HelpersHold
