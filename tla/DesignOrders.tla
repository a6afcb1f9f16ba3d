---------------------------- MODULE DesignOrders ----------------------------
(***************************************************************************)
(* The orders that parse_result places in the three bins (hbi_sets,        *)
(* dumpuspec.h), computed from the design in one step.  That the chains    *)
(* generate makes, action by action, give these is OrdersOfDesign of       *)
(* InterHbi.                                                               *)
(*                                                                         *)
(* `file` names what the SVA file of the order asserts: orders with the    *)
(* same file have the same verdict.                                        *)
(***************************************************************************)
EXTENDS UhbDesign

Item(file, type, i, j, l1, l2, samecore) ==
  [file |-> file, type |-> type, i1 |-> i, i2 |-> j, l1 |-> l1, l2 |-> l2, samecore |-> samecore]

(* The updates of stage t by instructions i and j, of one element or two;  *)
(* a memory's own order is inferred.                                       *)
PcrType(n1, n2) == IF n1 = n2 THEN "spatial" ELSE "temporal"
StageItems(i, j, t) ==
  {Item(<<"pcr", i, j, StagePcr(t)>>, PcrType(p[1], p[2]), i, j, p[1], p[2], TRUE) :
     p \in {q \in design.uhb[i][t] \X design.uhb[j][t] :
              IF q[1] = q[2] THEN ~ IsMem(i, q[1])
              ELSE ~ SharedMem(i, q[1]) /\ ~ SharedMem(j, q[2])}}
InferredItems(i, j, t) ==
  {Item(<<"inferred">>, "spatial", i, j, n, n, IsLocal(n)) :
     n \in {m \in design.uhb[i][t] \cap design.uhb[j][t] : IsMem(i, m)}}

(* The accesses of a memory: as they are observed, and a write by i        *)
(* followed by a read by j.                                                *)
AccessItems(i, j, m, a, b) ==
  IF IsLocal(m) THEN {}
  ELSE {Item(<<"access", i, j, m, a, b>>, "temporal", i, j, p[1], p[2], TRUE) :
          p \in DownPool(i, m, a) \X DownPool(j, m, b)}
FlowItems(i, j, m, a, b) ==
  IF a.write /\ ~ b.write
  THEN {Item(<<"flow", i, j, m, a, b>>, "data", i, j, m, n, IsLocal(m)) : n \in design.down[j][m]}
  ELSE {}

PairItems(i, j) ==
  UNION ({StageItems(i, j, t) \cup InferredItems(i, j, t) : t \in 1 .. Depth(i, j)}
    \cup UNION {{AccessItems(i, j, m, p[1], p[2]) \cup FlowItems(i, j, m, p[1], p[2]) :
                   p \in design.loc[i][m] \X design.loc[j][m]} :
                m \in DOMAIN design.loc[i] \cap DOMAIN design.loc[j]})
Items == UNION {PairItems(p[1], p[2]) : p \in Instns \X Instns}

Inferred(it) == it.file = <<"inferred">>
=============================================================================
