CONSTANTS
  Places = {"p", "q"}
  Fields = {"lo", "hi"}
  Invariants <- MCInvariants
  Vals <- MCVals
  Bound = 2
  MaxObjects = 2
  MaxPending = 2
SPECIFICATION Spec
\* A failed check ends the run.
CHECK_DEADLOCK FALSE
INVARIANT
  MutationsChecked
