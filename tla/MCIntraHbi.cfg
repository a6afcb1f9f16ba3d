CONSTANTS
  Netlists <- MCNetlists
  NoFile = NoFile
  MaxTorn = 1
SPECIFICATION FairSpec
INVARIANTS
  TypeOK
  LevelsAreDistances
  PathsComplete
  ProducesDesign
PROPERTIES
  IntraEnds
\* the phase ends, or an assertion stops it
CHECK_DEADLOCK FALSE
