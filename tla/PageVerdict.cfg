\* a check that nobody makes
SPECIFICATION Spec
CONSTANTS
  Contents <- SomeContents
  MaxEvents = 3
CHECK_DEADLOCK FALSE
INVARIANT RestingMeansChecked
