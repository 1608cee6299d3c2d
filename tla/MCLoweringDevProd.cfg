CONSTANTS
  GateCap = 16
  Programs <- DevAndProd
  ActiveSets <- MCActive
SPECIFICATION Spec
CHECK_DEADLOCK FALSE
INVARIANT OwnGateDecides
