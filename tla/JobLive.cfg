CONSTANTS
  Prefixes = {"", "v"}
  GitTags <- MCTags
  Lightweight <- MCNoTags
  Commits = {c1, c2}
  Repos <- MCOldRepo
  Configs <- MCLive
  FbOnce = FALSE
  Bound <- MCLiveEvents
  None = None
  c1 = c1
  c2 = c2
SPECIFICATION FairSpec
PROPERTIES EventuallyUpToDate EventuallyQuiet
CHECK_DEADLOCK FALSE
