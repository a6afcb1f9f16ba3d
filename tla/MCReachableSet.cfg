CONSTANTS
  r1 = r1
  r2 = r2
  r3 = r3
  m1 = m1
  m2 = m2
  Regs = {r1, r2, r3}
  Mems = {m1, m2}
  StartSig = r1
SPECIFICATION MCSpec
INVARIANTS
  TypeOK
  ShortestDiff
  MemBehindNearestWriter
  CompleteOnReturn
PROPERTIES
  DiffIsFinal
  Terminates
\* find_reachable_set returns
CHECK_DEADLOCK FALSE
