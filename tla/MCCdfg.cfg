CONSTANTS
  Netlists <- MCNetlists
  None = None
SPECIFICATION Spec
INVARIANTS
  TypeOK
  EdgesAreFlows
  FlowsFound
  ReadDataFlows
\* the pass ends, or an assertion stops it
CHECK_DEADLOCK FALSE
