CONSTANTS
  Designs <- MCDesigns
  RerunDesigns <- MCRerunDesigns
  MaxCalls = 2
SPECIFICATION Spec
INVARIANTS
  TypeOK
  FileAnswersHypothesis
  ChainsClosed
  OrdersOfDesign
\* generate returns, or an assertion stops it
CHECK_DEADLOCK FALSE
