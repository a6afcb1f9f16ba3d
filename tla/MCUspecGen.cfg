CONSTANTS
  Designs <- MCDesigns
  CheckerVerdicts = {"cex", "na"}
  MaxUnproven = 2
SPECIFICATION Spec
INVARIANTS
  TypeOK
  MergedNodesAgree
  AlikeNodesMerged
  ParentsFinal
  AxiomsFollowPaths
  AxiomsHoldForMembers
  ProvenOrdersKept
  ReadsBeforeOverwrites
\* uhb_gen_merge returns, or an assertion stops it
CHECK_DEADLOCK FALSE
