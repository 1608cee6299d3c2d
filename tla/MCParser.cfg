CONSTANTS
  WellFormed <- MCWellFormed
  Inputs <- MCInputs
  Trees <- MCTrees
  Before <- MCBefore
  After <- MCAfter
  BeforeIf <- MCBeforeIf
  AfterIf <- MCAfterIf
SPECIFICATION Spec
\* Parsing ends.
CHECK_DEADLOCK FALSE
INVARIANTS
  TypeOK
  Complete
  Sound
  Grouping
  AttributesKept
  PrintedReadBack
PROPERTY
  Ends
