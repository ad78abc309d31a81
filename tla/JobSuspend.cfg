CONSTANTS
  Prefixes = {"", "v"}
  GitTags <- MCTags
  Lightweight <- MCNoTags
  Commits = {c1, c2}
  Repos <- MCAllRepos
  Configs <- MCSuspendable
  FbOnce = FALSE
  Bound <- MCEdits
  None = None
  c1 = c1
  c2 = c2
SPECIFICATION FairSpec
PROPERTY InactiveJobIsSuspended
CHECK_DEADLOCK FALSE
