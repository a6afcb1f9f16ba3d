CONSTANTS
  Designs <- MCLoadAddrDesigns
  CheckerVerdicts = {"cex", "na"}
  MaxUnproven = 1
SPECIFICATION Spec
INVARIANTS
  DeclaredStages
\* uhb_gen_merge returns, or an assertion stops it
CHECK_DEADLOCK FALSE
