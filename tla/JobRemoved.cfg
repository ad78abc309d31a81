CONSTANTS
  Prefixes = {"", "v"}
  GitTags <- MCTags
  Lightweight <- MCNoTags
  Commits = {c1, c2}
  Repos <- MCAllRepos
  Configs <- MCSuspendable
  FbOnce = FALSE
  Bound <- MCTwoEdits
  None = None
  c1 = c1
  c2 = c2
SPECIFICATION Spec
INVARIANT PanicEndsOnlyTheJob
CHECK_DEADLOCK FALSE
