\* edits, view changes and runs against two workers that may hang
SPECIFICATION FairSpec
CONSTANTS
  Contents <- SomeContents
  MaxEvents = 3
CHECK_DEADLOCK FALSE
INVARIANTS
  PageTypeOK
  VerdictIsTrue
  ButtonTellsTheTruth
  NobodyWaitsInVain
PROPERTY PageComesToRest
