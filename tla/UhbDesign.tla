----------------------------- MODULE UhbDesign ------------------------------
(***************************************************************************)
(* What the inter-instruction phases know of the processor: the data-flow  *)
(* graph (DFG, dfg.h and util.h) of each instruction type, cut into stages *)
(* of microarchitectural happens-before nodes, and the verified context.   *)
(***************************************************************************)
EXTENDS Integers, Sequences, FiniteSets

VARIABLE design  \* the design being synthesised: constant during a run

(* The design: a record with                                               *)
(*   uhb   : for each instruction type, its stages (sets of nodes)         *)
(*   loc   : for each instruction type, memory -> accesses [dep, write]    *)
(*   down  : for each instruction type, memory -> nodes it feeds           *)
(*   local : nodes whose name carries the per-core prefix                  *)
(*   core_req : memories with a described transaction protocol             *)
(*   pcrs  : PCR.size(), the number of PC registers                        *)

Instns     == DOMAIN design.uhb
IsMem(i, n) == n \in DOMAIN design.loc[i]
IsLocal(n) == n \in design.local
SharedMem(i, n) == IsMem(i, n) /\ ~ IsLocal(n)
Depth(i, j) == IF Len(design.uhb[i]) < Len(design.uhb[j])
               THEN Len(design.uhb[i]) ELSE Len(design.uhb[j])

(* The state elements of a design. *)
Elements(d) ==
  UNION {(UNION {d.uhb[i][t] : t \in DOMAIN d.uhb[i]}) \cup (DOMAIN d.loc[i])
           \cup (UNION {d.down[i][m] : m \in DOMAIN d.loc[i]}) : i \in DOMAIN d.uhb}

(* A read is recorded in loc_per_reg only at a node with a successor, so   *)
(* downstream() of a memory that is read is never empty; uhb_anchor pushes *)
(* no empty stage.  There is at least one instruction type.  A node is at  *)
(* the stage of its distance, whatever the instruction; and a memory on a  *)
(* path is written there, which loc_per_reg records.  The maps are finite. *)
DesignOK(d) ==
  /\ d.uhb # << >> /\ d.uhb \in Seq(Seq((SUBSET Elements(d)) \ {{}}))
  /\ \A i \in DOMAIN d.uhb : \A t \in DOMAIN d.uhb[i] :
       /\ IsFiniteSet(d.uhb[i][t])
       /\ \A j \in DOMAIN d.uhb : \A u \in DOMAIN d.uhb[j] : d.uhb[i][t] \cap d.uhb[j][u] # {} => t = u
  /\ \A i \in DOMAIN d.uhb : IsFiniteSet(DOMAIN d.loc[i])
  /\ \A i \in DOMAIN d.uhb : \A m \in DOMAIN d.loc[i] :
       /\ IsFiniteSet(d.loc[i][m]) /\ IsFiniteSet(d.down[i][m])
       /\ \A a \in d.loc[i][m] : ~ a.write => d.down[i][m] # {}
       /\ \A j \in DOMAIN d.uhb : \A t \in DOMAIN d.uhb[j] : m \in d.uhb[j][t] => m \in DOMAIN d.loc[j]

(* The PC register of a stage; beyond the last one, the last one. *)
StagePcr(t) == IF t >= design.pcrs THEN design.pcrs - 1 ELSE t

(* Nodes an access is observed at: the memory for a write, the registers   *)
(* it feeds for a read.                                                    *)
DownPool(i, m, a) == IF a.write THEN {m} ELSE design.down[i][m]
=============================================================================
