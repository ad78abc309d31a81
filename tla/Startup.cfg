CONSTANTS
  Words <- MCWords
  BoolFlags <- MCBoolFlags
  BadFlags <- MCBadFlags
  Inputs <- MCInputs
  FilesUnder <- MCFilesUnder
  Selects <- MCSelects
  BadPattern = "["
  HomeConfig = "home"
  Contents <- MCContents
  Environment <- MCEnvironment
SPECIFICATION Spec
INVARIANTS TypeOK FlagsAnywhere ReferencesResolved AllOrNothing DistinctNames
PROPERTY Terminates
CHECK_DEADLOCK FALSE
