CONSTANTS
  Nodes <- MCNodes
  NoNode = NoNode
SPECIFICATION FairSpec
INVARIANTS
  TypeOK
  ForestIsPartition
  FindIsRep
  DumpIsRoots
PROPERTIES
  ForestImplementsPartition
  CallsReturn
