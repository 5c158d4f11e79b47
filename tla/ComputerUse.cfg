SPECIFICATION Spec
CONSTANTS
  Drivers = {d1, d2, d3}
  Callers = {c1, c2}
  NoDriver = NoDriver
  MaxCrashes = 1
  Replays = {r1, r2}
  Apps = {a1}
  User = user
  MaxSteps = 2
  Servers = {s1, s2, s3}
  NoServer = NoServer
  MaxMishaps = 1
  MaxTrouble = 3
INVARIANTS
  DriversTrue
  ServerTrue
  InstallSafe
PROPERTIES
  ForegroundKept
  ReplaysEnd
