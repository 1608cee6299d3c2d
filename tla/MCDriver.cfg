CONSTANTS
  Fns <- MCFns
  Programs <- MCPrograms
  ActiveSets <- MCActive
  Main = "main"
  CondCalls <- MCCondCalls
  InvCalls <- MCInvCalls
  MaxDepth = 3
  Invocations <- MCInvocations
  MainValues <- MCMainValues
  Statuses = 4
SPECIFICATION DriverSpec
\* The process ends.
CHECK_DEADLOCK FALSE
INVARIANTS
  DriverTypeOK
  BoundToBest
  VerdictExact
  AcceptedAllBound
  ContractsFound
  ExitTells
PROPERTIES
  SingleImplementation
  PassesEnd
