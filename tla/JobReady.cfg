CONSTANTS
  Prefixes = {"", "v"}
  GitTags <- MCTags
  Lightweight <- MCNoTags
  Commits = {c1, c2}
  Repos <- MCAllRepos
  Configs <- MCFull
  FbOnce = FALSE
  Bound <- MCPushes
  None = None
  c1 = c1
  c2 = c2
SPECIFICATION Spec
INVARIANT AppliedIsServing
CHECK_DEADLOCK FALSE
