SPECIFICATION Spec
CONSTANTS
  e1 = e1
  e2 = e2
  e3 = e3
  N = 2
  Edits = {e1, e2, e3}
  MaxEntries = 3
  MaxSignals = 1
  MaxReplays = 2
  MaxAccidents = 1
  Hooks = FALSE
SYMMETRY EditSymmetry
PROPERTY SourceIsSafe
\* A project that was delivered, or whose bounded inputs are used up, is at rest.
CHECK_DEADLOCK FALSE
