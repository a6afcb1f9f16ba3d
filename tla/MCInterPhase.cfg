CONSTANTS
  Designs <- MCDesigns
  RerunDesigns = {}
  MaxCalls = 1
  NoFile = NoFile
  CheckerVerdicts = {"cex", "undetermined"}
  MaxUnproven = 1
SPECIFICATION AllFairSpec
INVARIANTS
  ProvenOnlyIfChainProven
  VerdictMeansHypothesis
PROPERTIES
  VerdictsApplied
\* parse_result returns, aborts, or spins on an unterminated line
CHECK_DEADLOCK FALSE
