CONSTANTS
  Netlists <- MCNetlists
SPECIFICATION FairSpec
INVARIANTS
  TypeOK
  ConesPrinted
  FilesComplete
PROPERTIES
  ConesEnd
\* all texts are written
CHECK_DEADLOCK FALSE
