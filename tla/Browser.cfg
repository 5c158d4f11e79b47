SPECIFICATION BrowserSpec
CONSTANTS
  o1 = o1
  o2 = o2
  f1 = f1
  f2 = f2
  Obs <- MCObs
  Body <- MCBody
  Flushes <- MCFlushes
  MaxQueue = 2
  MaxBytes = 1
  MaxFaults = 1
  v = v
  w = w
  page = page
  text = text
  None = None
  Observations <- MCObservations
  BatchSize = 2
  VisitBatch = 2
  ExportLimit = 2
  MaxInserts = 4
  MaxWipes = 1
INVARIANTS
  LossesTold
  ArchiveTrue
  VisitsHold
PROPERTIES
  QueueDrains
CHECK_DEADLOCK FALSE
