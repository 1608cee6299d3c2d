CONSTANTS
  Fns <- MCFns
  Contract <- MCContract
  Locals = {"x", "result"}
  Vals = {0, 1}
  MaxDepth = 2
  MaxLocals = 1
SPECIFICATION Spec
\* The run ends when main returns.
CHECK_DEADLOCK FALSE
INVARIANTS
  TypeOK
  EntryChecked
  BodyChecked
  ExitChecked
PROPERTY Transparent
