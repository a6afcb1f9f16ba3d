CONSTANTS
  Netlists <- MCReadNetlists
  None = None
SPECIFICATION Spec
INVARIANTS
  RegRelationIsDataflow
\* the pass ends
CHECK_DEADLOCK FALSE
