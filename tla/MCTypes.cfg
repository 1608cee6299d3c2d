CONSTANTS
  Modules <- MCModules
  Fns <- MCFns
  Params <- MCParams
  Args <- MCArgs
  Steps <- MCSteps
  Depth = 3
  W = 4
  FrameFirst = 2
SPECIFICATION TypedSpec
\* The body ends.
CHECK_DEADLOCK FALSE
INVARIANTS
  TypesTypeOK
  Sound
  ErrorsReported
PROPERTY ResolveEnds
