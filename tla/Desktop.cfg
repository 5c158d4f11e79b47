\* The assistant's model stops where its bounds on mouse-ups and runs are spent.
CHECK_DEADLOCK FALSE
SPECIFICATION DesktopSpec
CONSTANTS
  u1 = u1
  u2 = u2
  NoSkill = NoSkill
  Skills <- MCPair
  Apps = {"editor", "browser"}
  Cooldown = 2
  Window = 1
  MaxHours = 3
  MaxEditCount = 3
  FrontApps <- MCPair
  NoApp = NoApp
  NoRun = NoRun
  MaxMouseUps = 2
  MaxRuns = 1
  MaxShows = 1
  MaxClosures = 1
  Daemons <- MCPair
  NoDaemon = NoDaemon
  MaxRestarts = 1
  GiveUpAfter = 1
  HealTicks = 1
  MaxFaults = 1
SYMMETRY Symmetric
PROPERTIES
  CommandsKept
  UserHasTheSwitch
  OwnAnswersOnly
