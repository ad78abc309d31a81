CONSTANTS
  Prefixes = {"", "v"}
  GitTags <- MCOddTags
  Lightweight <- MCLightweight
  Commits = {c1, c2}
  Repos <- MCOddRepos
  Configs <- MCOdd
  FbOnce = TRUE
  Bound <- MCEvents
  None = None
  c1 = c1
  c2 = c2
SPECIFICATION Spec
INVARIANT OnceMeansOneRound
CHECK_DEADLOCK FALSE
SYMMETRY MCSymmetry
