CONSTANTS
  Fns <- MCFns
  Programs <- MCPrograms
  ActiveSets <- MCActive
  Main = "main"
  CondCalls <- MCCondCalls
  InvCalls <- MCInvCalls
  MaxDepth = 3
  Invocations <- MCTied
  MainValues <- MCMainValues
  Statuses = 4
SPECIFICATION DriverSpec
CHECK_DEADLOCK FALSE
INVARIANT TieRejected
