------------------------------ MODULE InterHbi ------------------------------
(***************************************************************************)
(* Inter_HBI::generate (inter_hbi.h): for every ordered pair of            *)
(* instruction types, the hypotheses about the order in which the two      *)
(* update their state elements, the numbered SVA files that will decide    *)
(* them, and hbi_meta, the list of files handed to the property checker.   *)
(*                                                                         *)
(* One action is one iteration of the innermost loop of a section of       *)
(* generate.  Yosys pools are iterated in an unspecified order, which the  *)
(* model leaves open; stages and instruction pairs come in index order.    *)
(***************************************************************************)
EXTENDS UhbDesign, SequencesExt, Tables

CONSTANTS
  Designs,        \* possible per-instruction data-flow graphs and their context
  RerunDesigns,   \* bound: designs for which the pass is executed more than once
  MaxCalls        \* bound: executions of the pass in one Yosys session

VARIABLES
  phase,            \* section of generate: spatial, interface, pipeline, done
  i1, i2,           \* the instruction pair (idx1, idx2)
  todo,             \* work items left in the current section
  hbi_cntr, files,  \* next file number; number -> what that .sv file asserts
  hbi_checkings,    \* sequence of hbi_res waiting for a verdict
  hbi_meta,         \* file number -> the hypothesis listed for it
  hbi_inferred, hbi_inferred_invalid,
  pcr_inorder_hbi,  \* (idx1, idx2, PCR) -> file that orders that PCR
  calls

output == <<hbi_cntr, files, hbi_checkings, hbi_meta, pcr_inorder_hbi>>
Orders == INSTANCE DesignOrders
vars == <<design, phase, i1, i2, todo, output, hbi_inferred, hbi_inferred_invalid, calls>>

ASSUME DesignsAssumption ==
  MaxCalls \in Nat \ {0} /\ RerunDesigns \subseteq Designs /\ \A d \in Designs : DesignOK(d)

(* hbi_res: `next` is -1 outside a chain of files, -2 at its end. *)
Check(seq, type, l1, l2, samecore, next) ==
  [seq |-> seq, type |-> type, i1 |-> i1, i2 |-> i2,
   l1 |-> l1, l2 |-> l2, samecore |-> samecore, next |-> next]

SpatialWork == UNION {{t} \X (design.uhb[i1][t] \cap design.uhb[i2][t]) : t \in 1 .. Depth(i1, i2)}
InterfaceWork ==
  UNION {{m} \X design.loc[i1][m] \X design.loc[i2][m] :
           m \in DOMAIN design.loc[i1] \cap DOMAIN design.loc[i2]}
PipelineWork == UNION {{t} \X design.uhb[i1][t] \X design.uhb[i2][t] : t \in 1 .. Depth(i1, i2)}

TakeInStageOrder(w) == w \in todo /\ (\A v \in todo : w[1] <= v[1]) /\ todo' = todo \ {w}

-----------------------------------------------------------------------------

(* struct_spatial and struct_temporal_pipeline: the order of two updates   *)
(* in stage t is reduced to the order of the stage's PC register.  One     *)
(* file per (pair, PCR); later hypotheses name the file already there.     *)
MutPcrKey(pcr) == <<i1, i1, pcr>>  \* mutant: the second instruction is forgotten
PcrKey(pcr) == <<i1, i2, pcr>>

PcrFile(seq, pcr) == files' = Put(files, seq, [kind |-> "pcr", i1 |-> i1, i2 |-> i2, pcr |-> pcr])
NewPcrFile(seq, pcr, chk) ==
  /\ PcrFile(seq, pcr)
  /\ hbi_cntr' = hbi_cntr + 1
  /\ hbi_meta' = Put(hbi_meta, seq, chk)
  /\ pcr_inorder_hbi' = Put(pcr_inorder_hbi, PcrKey(pcr), seq)

PcrCheck(t, type, l1, l2) ==
  LET pcr == StagePcr(t)
      key == PcrKey(pcr)
      hit == key \in DOMAIN pcr_inorder_hbi
      seq == IF hit THEN pcr_inorder_hbi[key] ELSE hbi_cntr
      chk == Check(seq, type, l1, l2, TRUE, -1)
  IN /\ hbi_checkings' = Append(hbi_checkings, chk)
     /\ IF hit THEN UNCHANGED <<hbi_cntr, files, hbi_meta, pcr_inorder_hbi>>
        ELSE NewPcrFile(seq, pcr, chk)

(* Structural spatial: both instructions update the same element.  A       *)
(* memory's write serialisation is inferred, not checked.                  *)
Spatial(t, n) ==
  /\ phase = "spatial"
  /\ TakeInStageOrder(<<t, n>>)
  /\ IF IsMem(i1, n)
     THEN /\ hbi_inferred' = hbi_inferred \cup {Check(-1, "spatial", n, n, IsLocal(n), -1)}
          /\ UNCHANGED output
     ELSE PcrCheck(t, "spatial", n, n) /\ UNCHANGED hbi_inferred
  /\ UNCHANGED <<design, phase, i1, i2, hbi_inferred_invalid, calls>>

(* struct_temporal_interface: the send, receive and process files of one   *)
(* access pair, and a hypothesis per observed pair of nodes and per file.  *)
Steps == <<"send", "rec", "proc">>
InterfaceFile(s, i, j, m, a, b) ==
  [kind |-> s, i1 |-> i, i2 |-> j, mem |-> m, w1 |-> a.write, w2 |-> b.write]
MutRelevantFile(i) == hbi_cntr + i + 1  \* mutant: the last link is not marked
RelevantFile(i) == IF i < 2 THEN hbi_cntr + i + 1 ELSE -2
InterfaceChecks(o1, o2) ==
  LET n == Len(o1) * Len(o2)
  IN [k \in 1 .. 3 * n |->
        LET i == (k - 1) \div n
            j == (k - 1) % n
        IN Check(hbi_cntr + i, "temporal", o1[1 + (j \div Len(o2))], o2[1 + (j % Len(o2))],
                 TRUE, RelevantFile(i))]

(* dataflow_relation and dataflow_relation_localarr: one file for the      *)
(* value written by i1 and read by i2.                                     *)
MutFlowChecks(m, o2, seq, samecore) ==  \* mutant: a default hbi_res, numbered -3
  [k \in 1 .. Len(o2) |-> Check(-3, "data", m, o2[k], samecore, -1)]
FlowChecks(m, o2, seq, samecore) ==
  [k \in 1 .. Len(o2) |-> Check(seq, "data", m, o2[k], samecore, -1)]

(* An access pair of a memory shared by the cores. *)
SharedInterface(m, a, b, o1, o2) ==
  LET temporal == InterfaceChecks(o1, o2)
      n == Len(o1) * Len(o2)
      seq == hbi_cntr + 3
      isFlow == a.write /\ ~ b.write
      flow == IF isFlow THEN FlowChecks(m, o2, seq, FALSE) ELSE << >>
      flowFile == [kind |-> "flow", i1 |-> i1, i2 |-> i2, mem |-> m]
      added == IF isFlow THEN 4 ELSE 3
  IN /\ m \in design.core_req
     /\ hbi_checkings' = hbi_checkings \o temporal \o flow
     /\ hbi_cntr' = hbi_cntr + added
     /\ files' = PutAll(files, [k \in hbi_cntr .. hbi_cntr + added - 1 |->
          IF k = seq THEN flowFile ELSE InterfaceFile(Steps[k - hbi_cntr + 1], i1, i2, m, a, b)])
     /\ hbi_meta' = PutAll(hbi_meta, [k \in hbi_cntr .. hbi_cntr + added - 1 |->
          IF k = seq THEN Last(flow) ELSE temporal[(k - hbi_cntr + 1) * n]])
     /\ UNCHANGED <<pcr_inorder_hbi, hbi_inferred_invalid>>

(* PCR[info2_dep] is read without a bound check.                           *)
Garbage == -1
ReadPcr(b) == IF b.dep < design.pcrs THEN b.dep ELSE Garbage

(* Write then read in program order of a local array, against the stages.  *)
Backwards(m, a, b) == m \notin design.core_req /\ a.dep > b.dep

(* An access pair of a memory local to a core: its order follows from the  *)
(* PC registers; a write then a read is checked for data flow.             *)
LocalInterface(m, a, b, o2) ==
  /\ ~ (Backwards(m, a, b) /\ ~ a.write /\ b.write)
  /\ hbi_inferred_invalid' =
       IF Backwards(m, a, b) /\ a.write /\ ~ b.write
       THEN hbi_inferred_invalid \cup {Check(-1, "temporal", m, t, TRUE, -1) : t \in ToSet(o2)}
       ELSE hbi_inferred_invalid
  /\ IF a.write /\ ~ b.write
     THEN LET flow == FlowChecks(m, o2, hbi_cntr, TRUE)
          IN /\ a.dep - 1 \in 0 .. design.pcrs - 1
             /\ hbi_checkings' = hbi_checkings \o flow
             /\ files' = Put(files, hbi_cntr,
                  [kind |-> "flow_local", i1 |-> i1, i2 |-> i2, mem |-> m,
                   pcr1 |-> a.dep - 1, pcr2 |-> ReadPcr(b)])
             /\ hbi_meta' = Put(hbi_meta, hbi_cntr, Last(flow))
             /\ hbi_cntr' = hbi_cntr + 1
     ELSE UNCHANGED <<hbi_checkings, files, hbi_meta, hbi_cntr>>
  /\ UNCHANGED pcr_inorder_hbi

Interface(m, a, b) ==
  /\ phase = "interface"
  /\ <<m, a, b>> \in todo
  /\ todo' = todo \ {<<m, a, b>>}
  /\ \E o1 \in SetToSeqs(DownPool(i1, m, a)), o2 \in SetToSeqs(DownPool(i2, m, b)) :
       IF IsLocal(m) THEN LocalInterface(m, a, b, o2) ELSE SharedInterface(m, a, b, o1, o2)
  /\ UNCHANGED <<design, phase, i1, i2, hbi_inferred, calls>>

(* The assertions on the way: a shared memory without a protocol, a local  *)
(* array written before it is read, a write beyond the last PC register;   *)
(* the unchecked read of PCR may crash too.                                *)
InterfaceAbort(m, a, b) ==
  /\ phase = "interface"
  /\ <<m, a, b>> \in todo
  /\ \/ ~ IsLocal(m) /\ m \notin design.core_req
     \/ IsLocal(m) /\ Backwards(m, a, b) /\ ~ a.write /\ b.write
     \/ /\ IsLocal(m) /\ a.write /\ ~ b.write
        /\ a.dep - 1 \notin 0 .. design.pcrs - 1 \/ ReadPcr(b) = Garbage
  /\ phase' = "abort"
  /\ UNCHANGED <<design, i1, i2, todo, output, hbi_inferred, hbi_inferred_invalid, calls>>

(* Structural temporal, pipeline: two different elements of one stage,     *)
(* unless one is a memory shared by the cores.                             *)
MutPipeline(t, n1, n2) ==  \* mutant: only the first element is tested
  /\ phase = "pipeline"
  /\ TakeInStageOrder(<<t, n1, n2>>)
  /\ IF n1 = n2 \/ SharedMem(i1, n1) THEN UNCHANGED output ELSE PcrCheck(t, "temporal", n1, n2)
  /\ UNCHANGED <<design, phase, i1, i2, hbi_inferred, hbi_inferred_invalid, calls>>
Pipeline(t, n1, n2) ==
  /\ phase = "pipeline"
  /\ TakeInStageOrder(<<t, n1, n2>>)
  /\ IF n1 = n2 \/ SharedMem(i1, n1) \/ SharedMem(i2, n2)
     THEN UNCHANGED output
     ELSE PcrCheck(t, "temporal", n1, n2)
  /\ UNCHANGED <<design, phase, i1, i2, hbi_inferred, hbi_inferred_invalid, calls>>

(* The next section of the pair, or the next pair, or the end. *)
EndSection ==
  /\ todo = {}
  /\ UNCHANGED <<design, output, hbi_inferred, hbi_inferred_invalid, calls>>
  /\ \/ /\ phase = "spatial" /\ phase' = "interface" /\ todo' = InterfaceWork
        /\ UNCHANGED <<i1, i2>>
     \/ /\ phase = "interface" /\ phase' = "pipeline" /\ todo' = PipelineWork
        /\ UNCHANGED <<i1, i2>>
     \/ /\ phase = "pipeline"
        /\ LET last == Len(design.uhb)
           IN IF i1 = last /\ i2 = last
              THEN phase' = "done" /\ UNCHANGED <<i1, i2, todo>>
              ELSE /\ phase' = "spatial"
                   /\ i1' = IF i2 = last THEN i1 + 1 ELSE i1
                   /\ i2' = IF i2 = last THEN 1 ELSE i2 + 1
                   /\ todo' = SpatialWork'

(* The pass runs again in the same session: generate starts over, and      *)
(* clears three of its containers.                                         *)

CallAgain ==
  /\ phase = "done" /\ design \in RerunDesigns /\ calls < MaxCalls
  /\ calls' = calls + 1
  /\ phase' = "spatial" /\ i1' = 1 /\ i2' = 1
  /\ hbi_cntr' = 0 /\ hbi_checkings' = << >> /\ hbi_meta' = << >>
  /\ UNCHANGED <<design, files, hbi_inferred, hbi_inferred_invalid, pcr_inorder_hbi>>
  /\ todo' = SpatialWork'

Init ==
  /\ design \in Designs
  /\ phase = "spatial" /\ i1 = 1 /\ i2 = 1
  /\ todo = SpatialWork
  /\ hbi_cntr = 0 /\ files = << >> /\ hbi_checkings = << >> /\ hbi_meta = << >>
  /\ hbi_inferred = {} /\ hbi_inferred_invalid = {}
  /\ pcr_inorder_hbi = << >>
  /\ calls = 1

Next ==
  \/ \E w \in todo : Len(w) = 2 /\ Spatial(w[1], w[2])
  \/ \E w \in todo : phase = "interface" /\ Interface(w[1], w[2], w[3])
  \/ \E w \in todo : phase = "interface" /\ InterfaceAbort(w[1], w[2], w[3])
  \/ \E w \in todo : phase = "pipeline" /\ Pipeline(w[1], w[2], w[3])
  \/ EndSection
  \/ CallAgain

Spec == Init /\ [][Next]_vars

-----------------------------------------------------------------------------

CheckType ==
  [seq : Nat \cup {-1}, type : {"spatial", "temporal", "data"}, i1 : Nat, i2 : Nat,
   l1 : Elements(design), l2 : Elements(design), samecore : BOOLEAN, next : Nat \cup {-1, -2}]

TypeOK ==
  /\ phase \in {"spatial", "interface", "pipeline", "done", "abort"}
  /\ i1 \in Instns /\ i2 \in Instns
  /\ hbi_cntr \in Nat
  /\ \A k \in DOMAIN files : k \in Nat
  /\ hbi_checkings \in Seq(CheckType)
  /\ \A k \in DOMAIN hbi_meta : hbi_meta[k] \in CheckType
  /\ hbi_inferred \subseteq CheckType /\ hbi_inferred_invalid \subseteq CheckType
  /\ \A k \in DOMAIN pcr_inorder_hbi : pcr_inorder_hbi[k] \in Nat
  /\ calls \in 1 .. MaxCalls

Hypotheses == ToSet(hbi_checkings)

PcrAnswers(c, f) ==
  \E t \in 1 .. Depth(c.i1, c.i2) :
    /\ c.l1 \in design.uhb[c.i1][t] /\ c.l2 \in design.uhb[c.i2][t]
    /\ f = [kind |-> "pcr", i1 |-> c.i1, i2 |-> c.i2, pcr |-> StagePcr(t)]
AccessAnswers(c, f) ==
  \E m \in DOMAIN design.loc[c.i1] \cap DOMAIN design.loc[c.i2] :
    \E a \in design.loc[c.i1][m], b \in design.loc[c.i2][m], s \in ToSet(Steps) :
      /\ c.l1 \in DownPool(c.i1, m, a) /\ c.l2 \in DownPool(c.i2, m, b)
      /\ f = InterfaceFile(s, c.i1, c.i2, m, a, b)
FlowAnswers(c, f) ==
  /\ f.kind \in {"flow", "flow_local"}
  /\ f.mem = c.l1 /\ c.l2 \in design.down[c.i2][c.l1]
  /\ f.i1 = c.i1 /\ f.i2 = c.i2 /\ (c.samecore <=> f.kind = "flow_local")

(* The file a hypothesis names asserts that very hypothesis: same          *)
(* instruction pair in the same order, same stage or same accesses.  The   *)
(* verdict of a file is applied to every hypothesis with its number, so a  *)
(* shared file must be shared only by hypotheses it answers.  It holds of  *)
(* the first execution of a session, not of the following ones, where      *)
(* pcr_inorder_hbi still names the files of the first.  In all of them     *)
(* every file is listed once for the checker, under its own number and for *)
(* a hypothesis that will be given its verdict.                            *)
FilesAnswer ==
  \A c \in Hypotheses :
    /\ c.seq \in DOMAIN files
    /\ CASE c.type = "data" -> FlowAnswers(c, files[c.seq])
         [] c.next # -1     -> AccessAnswers(c, files[c.seq])
         [] OTHER           -> PcrAnswers(c, files[c.seq])
MetaListsEveryFile ==
  /\ DOMAIN hbi_meta = 0 .. hbi_cntr - 1
  /\ \A k \in DOMAIN hbi_meta : hbi_meta[k].seq = k /\ hbi_meta[k] \in Hypotheses
FileAnswersHypothesis == MetaListsEveryFile /\ (calls = 1 => FilesAnswer)

(* A protocol hypothesis is followed, for the same two nodes, by the one   *)
(* of the next step, up to the process step that closes its chain.         *)
StepOf(c) == files[c.seq].kind
ChainsClosed ==
  \A k \in DOMAIN hbi_checkings :
    LET c == hbi_checkings[k]
    IN /\ c.next >= 0 =>
            \E j \in k + 1 .. Len(hbi_checkings) :
              LET d == hbi_checkings[j]
              IN /\ d.seq = c.next /\ <<d.l1, d.l2>> = <<c.l1, c.l2>>
                 /\ <<StepOf(c), StepOf(d)>> \in {<<"send", "rec">>, <<"rec", "proc">>}
       /\ c.next = -2 => StepOf(c) = "proc"

(* Nothing is left unordered: any two updates of one stage by a pair of    *)
(* instruction types, and any two accesses of a shared memory, have a      *)
(* hypothesis or an inferred order.                                        *)
Has(type, i, j, n1, n2) ==
  \E c \in Hypotheses \cup hbi_inferred :
    c.type = type /\ c.i1 = i /\ c.i2 = j /\ c.l1 = n1 /\ c.l2 = n2
HypothesesComplete ==
  \A i, j \in Instns :
    /\ \A t \in 1 .. Depth(i, j) : \A n1 \in design.uhb[i][t], n2 \in design.uhb[j][t] :
         IF n1 = n2 THEN Has("spatial", i, j, n1, n2)
         ELSE ~ (SharedMem(i, n1) \/ SharedMem(j, n2)) => Has("temporal", i, j, n1, n2)
    /\ \A m \in (DOMAIN design.loc[i] \cap DOMAIN design.loc[j]) \ design.local :
         \A a \in design.loc[i][m], b \in design.loc[j][m] :
           /\ \A n1 \in DownPool(i, m, a), n2 \in DownPool(j, m, b) : Has("temporal", i, j, n1, n2)
           /\ a.write /\ ~ b.write => \A n2 \in design.down[j][m] : Has("data", i, j, m, n2)

(* When generate ends nothing is left unordered, in any execution.  In the *)
(* first, what it ends with are the orders the design calls for, as many   *)
(* of each kind, whatever order its loops ran in; and two orders share a   *)
(* file exactly if they are about the same PC register and the same pair.  *)
Kind(c) == <<c.type, c.i1, c.i2, c.l1, c.l2, c.samecore>>
Count(s, kind) == Cardinality({x \in s : Kind(x) = kind})
OrdersOfDesign ==
  /\ phase = "done" => HypothesesComplete
  /\ phase = "done" /\ calls = 1 =>
       LET found == {c \in Hypotheses : c.next < 0} \cup hbi_inferred
           PcrOf(c) == IF c.seq = -1 \/ files[c.seq].kind # "pcr" THEN << >>
                       ELSE <<"pcr", files[c.seq].i1, files[c.seq].i2, files[c.seq].pcr>>
       IN /\ \A x \in found \cup Orders!Items : Count(found, Kind(x)) = Count(Orders!Items, Kind(x))
          /\ \A c \in found : PcrOf(c) # << >> =>
               \E x \in Orders!Items : Kind(x) = Kind(c) /\ x.file = PcrOf(c)
=============================================================================
