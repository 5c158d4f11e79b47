\* As in Desktop.cfg: the model stops where its bounds are spent.
CHECK_DEADLOCK FALSE
SPECIFICATION AssistantSpec
CONSTANTS
  FrontApps = {mail, editor}
  NoApp = NoApp
  NoRun = NoRun
  MaxMouseUps = 2
  MaxRuns = 1
  MaxShows = 1
  MaxClosures = 2
INVARIANT InjectsWhereSelected
