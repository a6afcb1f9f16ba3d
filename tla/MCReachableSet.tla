--------------------------- MODULE MCReachableSet ---------------------------
(* Every data-flow graph over a few registers and memories, with start     *)
(* cells that are registers (one register each) or logic feeding several.  *)
EXTENDS ReachableSet

CONSTANTS r1, r2, r3, m1, m2

MCStartCells == {{}, {{}}, {{r1}, {r2}}, {{r1, r3}}}

MCInit ==
  /\ cells \in MCStartCells
  /\ design_reg_reg \in [Regs -> SUBSET Regs]
  /\ design_reg_mem \in [Regs -> SUBSET Mems]
  /\ InitLocals

MCSpec == MCInit /\ [][Next]_vars /\ WF_vars(Next)
=============================================================================
