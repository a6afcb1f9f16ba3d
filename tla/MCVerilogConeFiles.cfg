CONSTANTS
  Netlists <- MCOutputFirst
SPECIFICATION Spec
INVARIANTS
  FilesSelfContained
\* all texts are written
CHECK_DEADLOCK FALSE
