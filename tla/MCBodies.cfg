CONSTANTS
  Names <- MCNames
  Bodies <- WellFormed
SPECIFICATION Spec
\* A body ends.
CHECK_DEADLOCK FALSE
INVARIANTS
  TypeOK
  SameDeclaration
  FramesNest
  NoStrayJump
PROPERTIES
  JumpsLand
  JumpsEnd
