CONSTANTS
  Fns <- MCFns
  Contract <- ResultContract
  Locals = {"x", "y", "result"}
  Vals = {0, 1}
  MaxDepth = 2
  MaxLocals = 1
SPECIFICATION Spec
\* The run ends when main returns.
CHECK_DEADLOCK FALSE
INVARIANT
  ResultIsReturnValue
