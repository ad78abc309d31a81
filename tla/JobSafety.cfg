CONSTANTS
  Prefixes = {"", "v"}
  GitTags <- MCTags
  Lightweight <- MCNoTags
  Commits = {c1, c2}
  Repos <- MCAllRepos
  Configs <- MCPipelines
  FbOnce = FALSE
  Bound <- MCEvents
  None = None
  c1 = c1
  c2 = c2
SPECIFICATION Spec
INVARIANTS TypeOK ReleaseIsWhatTagSays UnderMaxTag AppliesBounded StoredTagIsCurrent LeavesUsableFiles
PROPERTIES OnlyForward ImplementsDelivery
CHECK_DEADLOCK FALSE
SYMMETRY MCSymmetry
