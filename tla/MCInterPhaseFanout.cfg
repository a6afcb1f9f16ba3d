CONSTANTS
  Designs <- MCFanoutDesigns
  RerunDesigns = {}
  MaxCalls = 1
  NoFile = NoFile
  CheckerVerdicts = {"cex"}
  MaxUnproven = 1
SPECIFICATION AllSpec
INVARIANTS
  ProvenOnlyIfChainProven
CHECK_DEADLOCK FALSE
