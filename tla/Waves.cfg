SPECIFICATION Spec
CONSTANTS
  Codes   <- FileCodes
  WidthOf <- FileWidths
  Written <- FileChanges
  Modules = {"tb"}
  MaxTime = 4
  MaxTokens = 4
  Runs <- TheRuns
  Radixes = {"bin"}
  Pixels = 30
  MaxEntries = 3
  MaxActs = 3
CHECK_DEADLOCK FALSE
INVARIANTS WavesTypeOK ViewersShowTheFile StoreCatchesUp
PROPERTIES NewRunKeepsWaves JumpsToNearestChange
