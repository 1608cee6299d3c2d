CONSTANTS
  GateCap = 16
  Programs <- MCPrograms
  ActiveSets <- MCActive
SPECIFICATION Spec
\* The walk ends.
CHECK_DEADLOCK FALSE
INVARIANTS
  TypeOK
  KeptExactly
  FirstOwnGate
