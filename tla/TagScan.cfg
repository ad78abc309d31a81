CONSTANTS
  TagSeqs <- MCTagSeqs
  MaxTags <- MCMaxTags
  Prefixes = {"", "v", "assets-"}
SPECIFICATION Spec
INVARIANTS TypeOK AnswerIsMaximum PackingKeepsOrder
CHECK_DEADLOCK FALSE
