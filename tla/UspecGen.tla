------------------------------ MODULE UspecGen ------------------------------
(***************************************************************************)
(* USPEC_GEN::uhb_gen_merge (dumpuspec.h), second half: the axioms of the  *)
(* generated model.  Each representative of a merged set contributes the   *)
(* orders in its bins; each instruction its path; header_inferred what     *)
(* follows for the arrays shared by the cores.                             *)
(*                                                                         *)
(* The representatives of one stage may come in any order; it changes the  *)
(* numbering of the axioms and nothing else, so a stage is one action.     *)
(***************************************************************************)
EXTENDS UhbMerge

VARIABLES
  visited,          \* orders that have had their turn
  axioms,           \* hbi_inter_s: orders between nodes, as emitted
  edges,            \* the intra_ axioms: instruction, and an edge of its path
  stage_name,       \* nodes declared as StageName
  shared_resource,  \* ws: nodes with write serialisation; rf: (node, reader)
  inferred          \* what header_inferred adds: the pairs of nodes it orders

gvars == <<mvars, visited, axioms, edges, stage_name, shared_resource, inferred>>

-----------------------------------------------------------------------------
(* get_tname: a node of a core is renamed, one shared by the cores is      *)
(* (0, node).                                                              *)
Name(n, shared) == IF shared THEN <<"0", n>> ELSE <<"mgnode", n>>
InstnReg == <<"IF_", "">>

(* ismem is -1 for a node the instruction's graph does not hold, and that  *)
(* counts as true.  A design records the nodes on the path; one that the   *)
(* graph holds off the path is taken for absent.                           *)
InGraph(i, n) == n \in DOMAIN design.loc[i] \/ \E t \in DOMAIN design.uhb[i] : n \in design.uhb[i][t]
MutTakenForMem(i, n) == InGraph(i, n)  \* mutant: every node of the graph
TakenForMem(i, n) == IsMem(i, n) \/ ~ InGraph(i, n)

(* uspec_dump_structural_spatial and uspec_dump_inter.  An order that was  *)
(* not proven leaves no axiom; flow from a local array is commented out.   *)
SpatialName(it, n) == Name(n, ~ it.samecore /\ ~ IsLocal(n))
InterName(i, n) == Name(n, ~ IsLocal(n) /\ TakenForMem(i, n))
Axiom(it, n1, n2) == [of |-> it, n1 |-> n1, n2 |-> n2]
MutHolds(it) == Orders!Inferred(it) \/ res[it] # "cex"  \* mutant: unless refuted
Holds(it) == Orders!Inferred(it) \/ res[it] = "proven"

SpatialAxioms(its) == {Axiom(it, SpatialName(it, it.l1), SpatialName(it, it.l2)) : it \in {o \in its : Holds(o)}}
InterAxioms(i, its) ==
  {ax \in {Axiom(it, InterName(i, it.l1), InterName(i, it.l2)) : it \in {o \in its : Holds(o)}} :
     ax.of.type = "data" => ax.n1[1] = "0"}

MutDumpable(roots) ==  \* mutant: both nodes must be of the stage
  {it \in DOMAIN res : it.type # "spatial" /\ {it.l1, it.l2} \subseteq roots}
Dumpable(roots) ==
  {it \in DOMAIN res : /\ it.type # "spatial" /\ {it.l1, it.l2} \cap roots # {}
                       /\ {it.l1, it.l2} \subseteq all_uhb_parents}

DumpStage ==
  /\ phase = "dump" /\ dep <= Len(design.uhb[idx])
  /\ LET roots   == Roots(idx, dep)
         spatial == (UNION {Spatial(p) : p \in roots}) \ visited
         inter   == Dumpable(roots) \ visited
         new     == SpatialAxioms(spatial) \cup InterAxioms(idx, inter)
     IN /\ visited' = visited \cup spatial \cup inter
        /\ axioms' = axioms \cup new
        /\ shared_resource' =
             [ws |-> shared_resource.ws \cup {ax.n1 : ax \in {a \in new : a.of.type = "spatial" /\ a.n1[1] = "0"}},
              rf |-> shared_resource.rf \cup {<<ax.n1, ax.n2>> : ax \in {a \in new : a.of.type = "data"}}]
  /\ dep' = dep + 1
  /\ UNCHANGED <<design, res, phase, idx, uhb_nodes, pair, sets, all_uhb_parents, edges, stage_name, inferred>>

(* The path of an instruction: every representative of a stage precedes    *)
(* every one of the next.                                                  *)
Level(i, t) == IF t = 0 THEN {InstnReg} ELSE {Name(p, SharedArray(i, p)) : p \in Roots(i, t)}
Path(i) == UNION {Level(i, t) \X Level(i, t + 1) : t \in 0 .. Len(design.uhb[i]) - 1}
DumpIntra ==
  /\ phase = "dump" /\ dep > Len(design.uhb[idx])
  /\ edges' = edges \cup {<<idx, e>> : e \in Path(idx)}
  /\ stage_name' = stage_name \cup UNION {{e[1], e[2]} : e \in Path(idx)}
  /\ IF idx < Len(design.uhb) THEN idx' = idx + 1 /\ dep' = 1 /\ UNCHANGED phase
     ELSE phase' = "header" /\ UNCHANGED <<idx, dep>>
  /\ UNCHANGED <<design, res, uhb_nodes, pair, sets, all_uhb_parents, visited, axioms, shared_resource, inferred>>

(* header_inferred: with write serialisation and reads-from, a read comes  *)
(* before the writes that overwrite what it read (fr); and the final write *)
(* comes last.                                                             *)
MutFr(p) == [kind |-> "fr", n1 |-> p[1], n2 |-> p[2]]  \* mutant: the write before the read
Fr(p) == [kind |-> "fr", n1 |-> p[2], n2 |-> p[1]]
Header ==
  /\ phase = "header"
  /\ inferred' =
       {Fr(p) : p \in {q \in shared_resource.rf : q[1] \in shared_resource.ws}}
       \cup {[kind |-> "final", n1 |-> k, n2 |-> k] : k \in shared_resource.ws}
  /\ phase' = "done"
  /\ UNCHANGED <<design, res, idx, dep, uhb_nodes, pair, sets, all_uhb_parents>>
  /\ UNCHANGED <<visited, axioms, edges, stage_name, shared_resource>>

Init ==
  /\ MergeInit
  /\ visited = {} /\ axioms = {} /\ edges = {} /\ stage_name = {}
  /\ shared_resource = [ws |-> {}, rf |-> {}] /\ inferred = {}

Merge == MergeNext /\ UNCHANGED <<visited, axioms, edges, stage_name, shared_resource, inferred>>
Next == Merge \/ DumpStage \/ DumpIntra \/ Header
Spec == Init /\ [][Next]_gvars

-----------------------------------------------------------------------------

TypeOK ==
  /\ MergeTypeOK
  /\ visited \subseteq DOMAIN res
  /\ \A ax \in axioms : ax.of \in visited
  /\ \A e \in edges : e[1] \in Instns
  /\ shared_resource.ws \cup {p[1] : p \in shared_resource.rf} \subseteq {<<"0", n>> : n \in all_uhb_parents}

(* Whatever the model says of a node is said of a node it declares: the    *)
(* same element has one name in the path of each instruction, in the       *)
(* orders between instructions and in the axioms of the header.            *)
DeclaredStages ==
  phase = "done" =>
    {ax.n1 : ax \in axioms} \cup {ax.n2 : ax \in axioms}
      \cup {ax.n1 : ax \in inferred} \cup {ax.n2 : ax \in inferred} \subseteq stage_name

(* An order between two nodes is imposed on an instruction only where its  *)
(* own path has these nodes; all of them are declared.  (If compare_prop    *)
(* has one answer, see ParentsFinal.)                                      *)
OnPath(i, name) == \E e \in edges : e[1] = i /\ name \in {e[2][1], e[2][2]}
AxiomsFollowPaths ==
  phase = "done" =>
    \/ DeclaredStages /\ \A ax \in axioms : OnPath(ax.of.i1, ax.n1) /\ OnPath(ax.of.i2, ax.n2)
    \/ ~ OneAnswer

(* A merged node stands for its members: an axiom about it is proven, or   *)
(* inferred, for every two members, and so for every member the checker    *)
(* was asked about.                                                        *)
AxiomsHoldForMembers ==
  phase = "done" => \A ax \in axioms, it \in DOMAIN res :
    /\ it.type = ax.of.type /\ it.i1 = ax.of.i1 /\ it.i2 = ax.of.i2
    /\ Together(it.l1, ax.of.l1) /\ Together(it.l2, ax.of.l2)
    => Orders!Inferred(it) \/ res[it] = "proven"

(* Merging loses no order: one that was proven between two nodes is an     *)
(* axiom about the nodes they have become, unless they have become one     *)
(* whose own order says it.                                                *)
NodeOf(i, n) == {sets[i][t][n] : t \in {u \in DOMAIN sets[i] : n \in DOMAIN sets[i][u]}}
ProvenOrdersKept ==
  phase = "done" => \A it \in DOMAIN res :
    res[it] = "proven" /\ ~ (it.type = "data" /\ it.samecore) =>
      \E ax \in axioms :
        /\ ax.of.i1 = it.i1 /\ ax.of.i2 = it.i2
        /\ ax.of.l1 \in NodeOf(it.i1, it.l1) /\ ax.of.l2 \in NodeOf(it.i2, it.l2)
        /\ ax.of.type = it.type \/ (it.type = "temporal" /\ ax.of.l1 = ax.of.l2)

(* Coherence: when the model lets a read take its value from a write, it   *)
(* also orders the read before the writes that overwrite the value.        *)
ReadsBeforeOverwrites ==
  phase = "done" => \A ax \in axioms :
    ax.of.type = "data" =>
      /\ [kind |-> "fr", n1 |-> ax.n2, n2 |-> ax.n1] \in inferred
      /\ [kind |-> "final", n1 |-> ax.n1, n2 |-> ax.n1] \in inferred
=============================================================================
