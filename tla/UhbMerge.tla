------------------------------ MODULE UhbMerge ------------------------------
(***************************************************************************)
(* USPEC_GEN::uhb_gen_merge (dumpuspec.h), first half: within each stage   *)
(* of each instruction's path, happens-before nodes whose orders have the  *)
(* same verdicts become one node of the generated model.                   *)
(*                                                                         *)
(* compare_prop, compare_spatial and compare_diff decide for two nodes.    *)
(* Stages of different instructions have sets of their own; a merge is     *)
(* repeated in each stage of that depth that holds both nodes.  The order  *)
(* of the nodes of a stage is that of a Yosys pool: any.                   *)
(***************************************************************************)
EXTENDS UhbDesign, SequencesExt

CONSTANTS
  Designs,          \* possible designs
  CheckerVerdicts,  \* verdicts other than proven the checker may report
  MaxUnproven       \* bound: files for which it reports one of them

ASSUME MergeAssumption ==
  /\ MaxUnproven \in Nat
  /\ \A d \in Designs : DesignOK(d)

VARIABLES
  res,              \* assertion_res of every hbi_res in the bins
  phase,            \* stage, pairs, then those of UspecGen; or abort
  idx, dep,         \* instruction and stage being merged, later dumped
  uhb_nodes, pair,  \* the nodes of the stage, and which two come next
  sets,             \* seq_uhb_sets: instruction, stage, node -> root of its set
  all_uhb_parents   \* roots collected stage by stage

mvars == <<design, res, phase, idx, dep, uhb_nodes, pair, sets, all_uhb_parents>>

Orders == INSTANCE DesignOrders

(* hbi_sets::mapping of the three bins. *)
Spatial(n)  == {it \in DOMAIN res : it.type = "spatial" /\ it.l1 = n}
Temporal(n) == {it \in DOMAIN res : it.type = "temporal" /\ n \in {it.l1, it.l2}}
DataDep(n)  == {it \in DOMAIN res : it.type = "data" /\ n \in {it.l1, it.l2}}

-----------------------------------------------------------------------------
(* compare_spatial: the same instruction pairs, with equal verdicts. *)
SameInstns(it1, it2) == it1.i1 = it2.i1 /\ it1.i2 = it2.i2
SpatialMatch(s1, s2) ==
  /\ Cardinality(Spatial(s1)) = Cardinality(Spatial(s2))
  /\ \A it \in Spatial(s1) : \E it2 \in Spatial(s2) : SameInstns(it, it2) /\ res[it] = res[it2]

(* compare_diff on two pools: every order of s1 with a third node must     *)
(* have counterparts at s2 for the same third node and instructions, all   *)
(* with its verdict.  None at all fails an assertion.                      *)
Mutual(it, n) == IF it.l1 = n THEN it.l2 ELSE it.l1
Counterparts(it, pool2, s1, s2) ==
  {it2 \in pool2 : /\ SameInstns(it, it2)
                   /\ Mutual(it2, s2) = Mutual(it, s1) /\ Mutual(it2, s2) # s1}
Compared(pool1, s2) == {it \in pool1 : s2 \notin {it.l1, it.l2}}
NoCounterpart(pool1, pool2, s1, s2) ==
  /\ Cardinality(pool1) = Cardinality(pool2)
  /\ \E it \in Compared(pool1, s2) : Counterparts(it, pool2, s1, s2) = {}
MutDiffMatch(pool1, pool2, s1, s2) ==  \* mutant: the pools may differ in size
  \A it \in Compared(pool1, s2) : \A it2 \in Counterparts(it, pool2, s1, s2) : res[it2] = res[it]
DiffMatch(pool1, pool2, s1, s2) ==
  /\ Cardinality(pool1) = Cardinality(pool2)
  /\ \A it \in Compared(pool1, s2) : \A it2 \in Counterparts(it, pool2, s1, s2) : res[it2] = res[it]

(* compare_prop.  An array shared by the cores only matches its like, and  *)
(* data flow of a local array at s1 counts as a match of the data flows.   *)
SharedArray(i, n) == ~ IsLocal(n) /\ IsMem(i, n)
LocalDataDep(n) == \E it \in DataDep(n) : it.samecore
UpToTemporal(i, s1, s2) == SharedArray(i, s1) = SharedArray(i, s2) /\ SpatialMatch(s1, s2)
UpToData(i, s1, s2) ==
  UpToTemporal(i, s1, s2) /\ DiffMatch(Temporal(s1), Temporal(s2), s1, s2) /\ ~ LocalDataDep(s1)
Asserts(i, s1, s2) ==
  \/ UpToTemporal(i, s1, s2) /\ NoCounterpart(Temporal(s1), Temporal(s2), s1, s2)
  \/ UpToData(i, s1, s2) /\ NoCounterpart(DataDep(s1), DataDep(s2), s1, s2)
ToMerge(i, s1, s2) ==
  /\ UpToTemporal(i, s1, s2)
  /\ DiffMatch(Temporal(s1), Temporal(s2), s1, s2)
  /\ LocalDataDep(s1) \/ DiffMatch(DataDep(s1), DataDep(s2), s1, s2)

-----------------------------------------------------------------------------
(* Verdicts of the bins.  Of a chain of protocol files, the hypothesis     *)
(* that parse_result folds first gets the folded verdict, the others that  *)
(* of the last file; an inferred hypothesis has whatever was in memory.    *)
Files == {it.file : it \in {o \in Orders!Items : ~ Orders!Inferred(o)}}
ItemsOf(f) == {it \in Orders!Items : it.file = f}
Faults(f) ==
  [last : CheckerVerdicts, folded : {{}}] \cup
  (IF f[1] # "access" THEN {}
   ELSE [last : CheckerVerdicts \cup {"proven"}, folded : {{it} : it \in ItemsOf(f)}])
FaultsOf(files) == {h \in [files -> UNION {Faults(f) : f \in files}] : \A f \in files : h[f] \in Faults(f)}
FewFiles == {v \in SUBSET Files : Cardinality(v) <= MaxUnproven}
Garbage == [{it \in Orders!Items : Orders!Inferred(it)} -> {"proven"} \cup CheckerVerdicts]
Reading(garbage, fault) ==
  [it \in Orders!Items |->
     IF Orders!Inferred(it) THEN garbage[it]
     ELSE IF it.file \notin DOMAIN fault THEN "proven"
     ELSE IF it \in fault[it.file].folded THEN "na" ELSE fault[it.file].last]
Readings == UNION {{Reading(g, fault) : g \in Garbage, fault \in FaultsOf(files)} : files \in FewFiles}

MergeInit ==
  /\ design \in Designs
  /\ res \in Readings
  /\ phase = "stage" /\ idx = 1 /\ dep = 1 /\ uhb_nodes = << >> /\ pair = <<1, 2>>
  /\ sets = [i \in Instns |-> [t \in DOMAIN design.uhb[i] |-> [n \in design.uhb[i][t] |-> n]]]
  /\ all_uhb_parents = {}

(* The two loops over the vector of the stage's nodes. *)
After(p) == IF p[2] < Len(uhb_nodes) THEN <<p[1], p[2] + 1>> ELSE <<p[1] + 1, p[1] + 2>>
MutPairsLeft == pair[2] < Len(uhb_nodes)  \* mutant: ends when only the last node is left
PairsLeft == pair[2] <= Len(uhb_nodes)
S1 == uhb_nodes[pair[1]]
S2 == uhb_nodes[pair[2]]

Stage ==
  /\ phase = "stage" /\ dep <= Len(design.uhb[idx])
  /\ phase' = "pairs"
  /\ uhb_nodes' \in SetToSeqs(design.uhb[idx][dep]) /\ pair' = <<1, 2>>
  /\ UNCHANGED <<design, res, idx, dep, sets, all_uhb_parents>>

(* dsj_union: the root of s2 is hung below the root of s1. *)
Union(root, s1, s2) == [n \in DOMAIN root |-> IF root[n] = root[s2] THEN root[s1] ELSE root[n]]
MutMerged(s1, s2) ==  \* mutant: only in the stage being merged
  [sets EXCEPT ![idx][dep] = Union(@, s1, s2)]
Merged(s1, s2) ==
  [i \in Instns |-> [t \in DOMAIN sets[i] |->
     IF t = dep /\ {s1, s2} \subseteq DOMAIN sets[i][t] THEN Union(sets[i][t], s1, s2) ELSE sets[i][t]]]

Apart == sets[idx][dep][S1] # sets[idx][dep][S2]
TryMerge ==
  /\ phase = "pairs" /\ PairsLeft
  /\ ~ (Apart /\ Asserts(idx, S1, S2))
  /\ sets' = IF Apart /\ ToMerge(idx, S1, S2) THEN Merged(S1, S2) ELSE sets
  /\ pair' = After(pair)
  /\ UNCHANGED <<design, res, phase, idx, dep, uhb_nodes, all_uhb_parents>>

MergeAbort ==
  /\ phase = "pairs" /\ PairsLeft
  /\ Apart /\ Asserts(idx, S1, S2)
  /\ phase' = "abort"
  /\ UNCHANGED <<design, res, idx, dep, uhb_nodes, pair, sets, all_uhb_parents>>

(* dsj_dump collects the roots; then the next stage. *)
Roots(i, t) == {sets[i][t][n] : n \in DOMAIN sets[i][t]}
MutEndStage ==  \* mutant: every node of the stage is collected
  /\ phase = "pairs" /\ ~ PairsLeft /\ uhb_nodes' = << >>
  /\ all_uhb_parents' = all_uhb_parents \cup design.uhb[idx][dep]
  /\ phase' = "stage" /\ dep' = dep + 1
  /\ UNCHANGED <<design, res, idx, pair, sets>>
EndStage ==
  /\ phase = "pairs" /\ ~ PairsLeft /\ uhb_nodes' = << >>
  /\ all_uhb_parents' = all_uhb_parents \cup Roots(idx, dep)
  /\ phase' = "stage" /\ dep' = dep + 1
  /\ UNCHANGED <<design, res, idx, pair, sets>>

(* The next instruction, or the dump. *)
MutNextInstn ==  \* mutant: it starts where this one ends
  /\ phase = "stage" /\ dep > Len(design.uhb[idx])
  /\ IF idx < Len(design.uhb) THEN idx' = idx + 1 /\ UNCHANGED <<phase, dep>>
     ELSE idx' = 1 /\ dep' = 1 /\ phase' = "dump"
  /\ UNCHANGED <<design, res, uhb_nodes, pair, sets, all_uhb_parents>>
NextInstn ==
  /\ phase = "stage" /\ dep > Len(design.uhb[idx])
  /\ IF idx < Len(design.uhb) THEN idx' = idx + 1 /\ UNCHANGED phase ELSE idx' = 1 /\ phase' = "dump"
  /\ dep' = 1
  /\ UNCHANGED <<design, res, uhb_nodes, pair, sets, all_uhb_parents>>

MergeNext == Stage \/ TryMerge \/ MergeAbort \/ EndStage \/ NextInstn

-----------------------------------------------------------------------------

MergeTypeOK ==
  /\ idx \in Instns /\ dep \in 1 .. Len(design.uhb[idx]) + 1
  /\ phase = "pairs" => dep <= Len(design.uhb[idx]) /\ ToSet(uhb_nodes) = design.uhb[idx][dep] /\ pair[1] < pair[2]
  /\ \A i \in Instns : \A t \in DOMAIN sets[i] : \A n \in DOMAIN sets[i][t] :
       sets[i][t][n] \in design.uhb[i][t]
  /\ \A p \in all_uhb_parents : \E i \in Instns : \E t \in DOMAIN sets[i] : p \in design.uhb[i][t]

Together(n1, n2) ==
  \E i \in Instns : \E t \in DOMAIN sets[i] :
    {n1, n2} \subseteq DOMAIN sets[i][t] /\ sets[i][t][n1] = sets[i][t][n2]

(* The verdicts of the orders of n that do not concern `other`. *)
Profile(n, other, types) ==
  {<<it.type, it.i1, it.i2, it.l1 = n, IF it.type = "spatial" THEN "" ELSE Mutual(it, n), res[it]>> :
     it \in {o \in DOMAIN res : o.type \in types /\ n \in {o.l1, o.l2} /\ other \notin {o.l1, o.l2}}}
AlikeIn(n1, n2, types) == Profile(n1, n2, types) = Profile(n2, n1, types)

(* Two nodes become one only if no verdict on the structure of the         *)
(* processor tells them apart.  Nodes are merged pair by pair, so two of   *)
(* them may meet through a third without having been compared.             *)
MergedNodesAgree ==
  phase \notin {"pairs", "abort"} => \A i \in Instns : \A t \in DOMAIN sets[i] :
    \A n1, n2 \in DOMAIN sets[i][t] :
      sets[i][t][n1] = sets[i][t][n2] => AlikeIn(n1, n2, {"spatial", "temporal"})

(* Nothing is left apart without a reason: two nodes of a stage with the   *)
(* same verdicts on all their orders, and both or neither a shared array,  *)
(* are one node of the model, whatever order the nodes were compared in;   *)
(* and compare_prop never stops on a pair it cannot answer for.            *)
NeverStops == phase # "abort"
AlikeNodesMerged ==
  /\ NeverStops
  /\ phase = "dump" =>
       \A i \in Instns : \A t \in DOMAIN sets[i] : \A n1, n2 \in DOMAIN sets[i][t] :
         SharedArray(i, n1) = SharedArray(i, n2) /\ AlikeIn(n1, n2, {"spatial", "temporal", "data"})
         => sets[i][t][n1] = sets[i][t][n2]

(* compare_prop has one answer for two nodes, whichever comes first.  Its  *)
(* shortcut for flow from a local array asks the first one only, so it may *)
(* not: the answer then depends on the order of a pool, which may differ   *)
(* from instruction to instruction.                                        *)
OneAnswer ==
  \A i \in Instns : \A t \in DOMAIN design.uhb[i] : \A n1, n2 \in design.uhb[i][t] :
    ToMerge(i, n1, n2) => ToMerge(i, n2, n1)

(* The roots collected stage by stage are those the dump will find: no     *)
(* later stage has merged the sets of an earlier one any further, unless   *)
(* compare_prop answered differently there; and two instructions call a    *)
(* merged node of a stage by one name.                                     *)
ParentsFinal ==
  phase \notin {"stage", "pairs", "abort"} =>
    /\ \/ all_uhb_parents = UNION {UNION {Roots(i, t) : t \in DOMAIN sets[i]} : i \in Instns}
       \/ ~ OneAnswer
    /\ \A i, j \in Instns : \A t \in DOMAIN sets[i] \cap DOMAIN sets[j] :
         \A n \in DOMAIN sets[i][t] \cap DOMAIN sets[j][t] : sets[i][t][n] = sets[j][t][n]
=============================================================================
