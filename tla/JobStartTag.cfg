CONSTANTS
  Prefixes = {"", "v"}
  GitTags <- MCTags
  Lightweight <- MCNoTags
  Commits = {c1, c2}
  Repos <- MCAllRepos
  Configs <- MCBuildOnly
  FbOnce = FALSE
  Bound <- MCCrashes
  None = None
  c1 = c1
  c2 = c2
SPECIFICATION Spec
INVARIANT StartsFromAVersion
CHECK_DEADLOCK FALSE
