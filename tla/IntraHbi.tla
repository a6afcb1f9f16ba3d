------------------------------ MODULE IntraHbi ------------------------------
(***************************************************************************)
(* The intra-instruction phase (DFG, dfg.h; MyGraph, util.h).              *)
(* intra_hbi_per_s asserts of every element behind the instruction         *)
(* register that no instruction updates it; a property checker, an         *)
(* external tool, decides these assertions for each instruction type;      *)
(* parse_intra_hbi_res reads its answers, build_dfg connects the updated   *)
(* elements of adjacent stages, uhb_anchor cuts the graph into stages and  *)
(* deps_anchor records when memories are read and written.  What comes out *)
(* is a design as the inter-instruction phase knows it (UhbDesign).        *)
(***************************************************************************)
EXTENDS Integers, Sequences, FiniteSets

CONSTANTS
  Netlists,  \* possible netlists, with the distances of their elements
  NoFile,    \* stands for a result file that does not exist
  MaxTorn    \* bound: result files that are read before they are complete

(* A netlist: a record with                                                *)
(*   instns : number of instruction types                                  *)
(*   instn  : the instruction register                                     *)
(*   diff   : register or memory -> its distance (cyc_diff), counted from  *)
(*            the instruction register                                     *)
(*   mems   : which of them are memories;  local : of one core             *)
(*   reg_reg, reg_mem : pairs of elements, the second fed by the first     *)
(*   rdport : <<memory, address register, register fed by its read data>>  *)
(*   wrport : the same with a memory fed by the read data                  *)
(*   pcrs   : PCR.size(), the number of PC registers                       *)
(* The distances are those of a breadth-first walk: no edge leads more     *)
(* than one stage on.  Whoever feeds anything is a register.               *)
ASSUME NetlistsAssumption ==
  /\ MaxTorn \in Nat
  /\ \A n \in Netlists :
       /\ n.instns \in Nat \ {0} /\ n.pcrs \in Nat \ {0}
       /\ n.diff \in [DOMAIN n.diff -> Int] /\ IsFiniteSet(DOMAIN n.diff) /\ IsFiniteSet(n.mems)
       /\ n.instn \in DOMAIN n.diff /\ n.diff[n.instn] = 0
       /\ \A e \in n.reg_reg : e = <<e[1], e[2]>> /\ {e[1], e[2]} \cap n.mems = {}
       /\ \A e \in n.reg_mem : e = <<e[1], e[2]>> /\ e[1] \notin n.mems /\ e[2] \in n.mems
       /\ \A p \in n.rdport : {p[2], p[3]} \cap n.mems = {}
       /\ \A p \in n.wrport : p[2] \notin n.mems /\ p[3] \in n.mems
       /\ \A e \in n.reg_reg \cup n.reg_mem :
            {e[1], e[2]} \subseteq DOMAIN n.diff => n.diff[e[2]] <= n.diff[e[1]] + 1

VARIABLES
  net,
  phase,          \* per_s, emit, wait, lines, build, anchor, deps, done, abort
  todo,           \* elements or nodes the loop under way has still to take
  idx,            \* instruction type
  ever_update,    \* ever_update_s: what assertion k says
  meta_list,      \* ever_update_meta_list: what row k says
  eventual,       \* eventual_progress_remote_target
  files,          \* for each instruction type, the files written for it
  resfile,        \* for each, what can be read of its .res file, or NoFile
  line,
  updated,        \* for each, the elements with a true sva_result
  visited, cur_pool, next_pool,
  seq_uhb,        \* for each, the stages of its path
  loc_per_reg     \* for each, node -> accesses [dep, write]

input == <<ever_update, meta_list, eventual, files>>
anchor == <<visited, cur_pool, next_pool>>
vars == <<net, phase, todo, idx, input, resfile, line, updated, anchor, seq_uhb, loc_per_reg>>

Instns == 1 .. net.instns
Elements == DOMAIN net.diff
IsMem(n) == n \in net.mems
Asked == {n \in Elements : net.diff[n] > 0}

Init ==
  /\ net \in Netlists
  /\ phase = "per_s" /\ todo = Asked /\ idx = 1
  /\ ever_update = << >> /\ meta_list = << >> /\ eventual = << >>
  /\ files = [i \in Instns |-> NoFile] /\ resfile = [i \in Instns |-> NoFile]
  /\ line = 0 /\ updated = [i \in Instns |-> {}]
  /\ visited = {} /\ cur_pool = {} /\ next_pool = {}
  /\ seq_uhb = [i \in Instns |-> << >>]
  /\ loc_per_reg = [i \in Instns |-> << >>]

-----------------------------------------------------------------------------
(* intra_hbi_per_s, one element.  Its assertion watches the cycle in which *)
(* the PC register of its stage holds the instruction, or the cycle after  *)
(* that for stages beyond the last PC register; for a memory, the cycle    *)
(* before, in which it is enabled.  A memory of no core also gets a file   *)
(* that says an update reaches it.                                         *)
Watched(n) == IF IsMem(n) THEN net.diff[n] - 1 ELSE net.diff[n]
MutPcr(d) == [pcr |-> d, after |-> FALSE]  \* mutant: not clamped to the last PC register
Pcr(d) == IF d < net.pcrs THEN [pcr |-> d, after |-> FALSE] ELSE [pcr |-> net.pcrs - 1, after |-> TRUE]
Remote(n) == IsMem(n) /\ n \notin net.local

Ask(n) ==
  /\ phase = "per_s" /\ n \in todo /\ todo' = todo \ {n}
  /\ ever_update' = Append(ever_update, [elem |-> n, at |-> Pcr(Watched(n))])
  /\ meta_list' = Append(meta_list, [seq |-> Len(meta_list), elem |-> n])
  /\ eventual' = IF Remote(n) THEN Append(eventual, n) ELSE eventual
  /\ UNCHANGED <<net, phase, idx, files, resfile, line, updated, anchor, seq_uhb, loc_per_reg>>

(* intra_hbi_instn: the assertions, their rows and the remote updates are  *)
(* written for every instruction type.                                     *)
Emit ==
  /\ (phase = "per_s" /\ todo = {}) \/ phase = "emit"
  /\ files' = [files EXCEPT ![idx] = [sv |-> ever_update, txt |-> meta_list, eventual |-> eventual]]
  /\ IF idx < net.instns THEN idx' = idx + 1 /\ phase' = "emit" ELSE idx' = 1 /\ phase' = "wait"
  /\ UNCHANGED <<net, todo, ever_update, meta_list, eventual, resfile, line, updated, anchor, seq_uhb, loc_per_reg>>

-----------------------------------------------------------------------------
(* The checker, an external tool, answers the rows in their order.  It may *)
(* still be writing when the file is opened: what can be read is then the  *)
(* first lines, of which the last may be cut in the name, right after it,  *)
(* or in the answer, or be followed by an empty line.                      *)
Cuts == {"none", "name", "after_name", "answer", "blank"}
Torn(r) == r.cut # "none" \/ Len(r.lines) < Len(meta_list)
WriteResults(i) ==
  /\ files[i] # NoFile /\ resfile[i] = NoFile
  /\ \E n \in 0 .. Len(meta_list), cut \in Cuts, yes \in SUBSET Asked :
       LET r == [lines |-> [k \in 1 .. n |-> [elem |-> meta_list[k].elem,
                                              updated |-> meta_list[k].elem \in yes]],
                 cut |-> cut]
       IN /\ yes \subseteq {meta_list[k].elem : k \in 1 .. n}
          /\ cut \in {"name", "after_name", "answer"} => n < Len(meta_list)
          /\ Torn(r) => Cardinality({j \in Instns : resfile[j] # NoFile /\ Torn(resfile[j])}) < MaxTorn
          /\ resfile' = [resfile EXCEPT ![i] = r]
  /\ UNCHANGED <<net, phase, todo, idx, input, line, updated, anchor, seq_uhb, loc_per_reg>>

(* parse_intra_hbi_res: wait until the file can be opened, then its lines. *)
Answers == resfile[idx].lines
MutOpen ==  \* mutant: an empty file is waited for, too
  /\ phase = "wait" /\ resfile[idx] # NoFile /\ Answers # << >>
  /\ phase' = "lines" /\ line' = 0
  /\ updated' = [updated EXCEPT ![idx] = {}]
  /\ UNCHANGED <<net, todo, idx, input, resfile, anchor, seq_uhb, loc_per_reg>>
Open ==
  /\ phase = "wait" /\ resfile[idx] # NoFile
  /\ phase' = "lines" /\ line' = 0
  /\ updated' = [updated EXCEPT ![idx] = {}]
  /\ UNCHANGED <<net, todo, idx, input, resfile, anchor, seq_uhb, loc_per_reg>>

ReadLine ==
  /\ phase = "lines" /\ line < Len(Answers)
  /\ line' = line + 1
  /\ updated' = IF Answers[line'].updated THEN [updated EXCEPT ![idx] = @ \cup {Answers[line'].elem}] ELSE updated
  /\ UNCHANGED <<net, phase, todo, idx, input, resfile, anchor, seq_uhb, loc_per_reg>>

(* A line cut in its answer says "not updated"; one cut after the name has *)
(* no fourth token, and the one that is read may be anything.              *)
EndOfLines ==
  /\ phase = "lines" /\ line = Len(Answers) /\ resfile[idx].cut \in {"none", "answer", "after_name"}
  /\ phase' = "build"
  /\ \/ UNCHANGED updated
     \/ /\ resfile[idx].cut = "after_name"
        /\ updated' = [updated EXCEPT ![idx] = @ \cup {meta_list[line + 1].elem}]
  /\ UNCHANGED <<net, todo, idx, input, resfile, line, anchor, seq_uhb, loc_per_reg>>

(* Fewer than three tokens, or a name nobody knows, fail an assertion.     *)
Abort ==
  /\ phase = "lines" /\ line = Len(Answers) /\ resfile[idx].cut \in {"name", "blank", "after_name"}
  /\ phase' = "abort"
  /\ UNCHANGED <<net, todo, idx, input, resfile, line, updated, anchor, seq_uhb, loc_per_reg>>

-----------------------------------------------------------------------------
(* build_dfg.  Elements that are not updated have no edges, except that    *)
(* the instruction register, which is not asked about and has stage 0 by   *)
(* default, may feed registers.  (PCR[0] is compared with a signal as if   *)
(* it were one, which it never equals.)                                    *)
Result(i, n) == n \in updated[i]
StageOf(n) == IF n = net.instn THEN 0 ELSE net.diff[n]
MutNextTo(u, v) == TRUE  \* mutant: any two stages are connected
NextTo(u, v) == StageOf(u) = StageOf(v) - 1
MutRegEdges(i) == {e \in net.reg_reg : Result(i, e[1]) /\ Result(i, e[2]) /\ NextTo(e[1], e[2])}  \* mutant
RegEdges(i) ==
  {e \in net.reg_reg : (Result(i, e[1]) \/ e[1] = net.instn) /\ Result(i, e[2]) /\ NextTo(e[1], e[2])}
MemEdges(i) == {e \in net.reg_mem : Result(i, e[1]) /\ Result(i, e[2]) /\ NextTo(e[1], e[2])}
UhbEdges(i) == RegEdges(i) \cup MemEdges(i)

(* The red edges: memories whose read data is written into an element that *)
(* has an edge, and the registers that address them.                       *)
DataEdges(i) ==
  LET fed == {p \in net.rdport : \E e \in RegEdges(i) : e[2] = p[3]}
             \cup {p \in net.wrport : \E e \in MemEdges(i) : e[2] = p[3]}
  IN UNION {{<<p[1], p[3]>>, <<p[2], p[3]>>} : p \in fed}
NoLoops(edges) == {e \in edges : e[1] # e[2]}
AllEdges(i) == NoLoops(UhbEdges(i) \cup DataEdges(i))
Below(i, n) == {e[2] : e \in {d \in NoLoops(UhbEdges(i)) : d[1] = n}}
Parents(i, n) == {e[1] : e \in {d \in AllEdges(i) : d[2] = n}}
Downstream(i, n) == {e[2] : e \in {d \in AllEdges(i) : d[1] = n}}

(* uhb_anchor, one node of a level and then the next level. *)
Build ==
  /\ phase = "build"
  /\ cur_pool' = Below(idx, net.instn) /\ todo' = cur_pool'
  /\ visited' = {} /\ next_pool' = {}
  /\ phase' = "anchor"
  /\ UNCHANGED <<net, idx, input, resfile, line, updated, seq_uhb, loc_per_reg>>
Anchor(n) ==
  /\ phase = "anchor" /\ n \in todo /\ todo' = todo \ {n}
  /\ LET new == Below(idx, n) \ visited
     IN visited' = visited \cup new \cup {n} /\ next_pool' = next_pool \cup new
  /\ UNCHANGED <<net, phase, idx, input, resfile, line, updated, cur_pool, seq_uhb, loc_per_reg>>
MutNextLevel ==  \* mutant: the last, empty level is a stage too
  /\ phase = "anchor" /\ todo = {}
  /\ seq_uhb' = [seq_uhb EXCEPT ![idx] = Append(@, cur_pool)]
  /\ IF cur_pool = {} THEN phase' = "deps" ELSE UNCHANGED phase
  /\ cur_pool' = next_pool /\ todo' = next_pool /\ next_pool' = {}
  /\ UNCHANGED <<net, idx, input, resfile, line, updated, visited, loc_per_reg>>
NextLevel ==
  /\ phase = "anchor" /\ todo = {}
  /\ IF cur_pool = {} THEN phase' = "deps" /\ UNCHANGED seq_uhb
     ELSE seq_uhb' = [seq_uhb EXCEPT ![idx] = Append(@, cur_pool)] /\ UNCHANGED phase
  /\ cur_pool' = next_pool /\ todo' = next_pool /\ next_pool' = {}
  /\ UNCHANGED <<net, idx, input, resfile, line, updated, visited, loc_per_reg>>

(* deps_anchor: a node of stage k is written then; what feeds it is read   *)
(* in the stage before.                                                    *)
Accesses(i) ==
  LET placed == UNION {{k} \X seq_uhb[i][k] : k \in DOMAIN seq_uhb[i]}
      nodes == UNION {{p[2]} \cup Parents(i, p[2]) : p \in placed}
  IN [n \in nodes |-> {[dep |-> p[1], write |-> TRUE] : p \in {q \in placed : q[2] = n}}
                      \cup {[dep |-> p[1] - 1, write |-> FALSE] : p \in {q \in placed : n \in Parents(i, q[2])}}]
Deps ==
  /\ phase = "deps"
  /\ loc_per_reg' = [loc_per_reg EXCEPT ![idx] = Accesses(idx)]
  /\ IF idx < net.instns THEN idx' = idx + 1 /\ phase' = "wait" ELSE phase' = "done" /\ UNCHANGED idx
  /\ UNCHANGED <<net, todo, input, resfile, line, updated, anchor, seq_uhb>>

Pass ==
  \/ \E n \in todo : Ask(n) \/ Anchor(n)
  \/ Emit \/ Open \/ ReadLine \/ EndOfLines \/ Abort \/ Build \/ NextLevel \/ Deps
Checker == \E i \in Instns : WriteResults(i)
Next == Pass \/ Checker
Spec == Init /\ [][Next]_vars

(* The pass is sequential code; the checker is run on what it wrote.       *)
FairSpec == Spec /\ WF_vars(Pass) /\ WF_vars(Checker)

-----------------------------------------------------------------------------

TypeOK ==
  /\ phase \in {"per_s", "emit", "wait", "lines", "build", "anchor", "deps", "done", "abort"}
  /\ idx \in Instns
  /\ todo \cup visited \cup cur_pool \cup next_pool \subseteq Asked
  /\ \A k \in DOMAIN ever_update : ever_update[k].elem \in Asked /\ ever_update[k].at.pcr \in 0 .. net.pcrs - 1
  /\ line \in Nat
  /\ updated \in [Instns -> SUBSET Asked]
  /\ \A i \in Instns : \A k \in DOMAIN seq_uhb[i] : seq_uhb[i][k] \subseteq Asked

(* The answers are kept by name, and the checker knows them by number:     *)
(* assertion k and row k speak of the same element, every element behind   *)
(* the instruction register has one, and those of no core are asked about  *)
(* again.                                                                  *)
EveryElementAsked ==
  \A i \in {j \in Instns : files[j] # NoFile} :
    /\ Len(files[i].sv) = Len(files[i].txt) /\ Len(files[i].sv) = Cardinality(Asked)
    /\ \A n \in Asked : \E k \in DOMAIN files[i].txt :
         files[i].txt[k] = [seq |-> k - 1, elem |-> n] /\ files[i].sv[k].elem = n
    /\ \A n \in Asked : Remote(n) => \E k \in DOMAIN files[i].eventual : files[i].eventual[k] = n

(* A node of stage k is an element k cycles behind the instruction         *)
(* register that the checker said the instruction updates, however much of *)
(* its answer had been written.  (The line that is cut right after its     *)
(* name may be taken for such an answer.)  It answers about every element  *)
(* there is behind the instruction register.                               *)
Reported(i, n) ==
  \/ \E k \in DOMAIN resfile[i].lines : resfile[i].lines[k] = [elem |-> n, updated |-> TRUE]
  \/ resfile[i].cut = "after_name" /\ n = meta_list[Len(resfile[i].lines) + 1].elem
LevelsAreDistances ==
  /\ EveryElementAsked
  /\ \A i \in Instns : \A k \in DOMAIN seq_uhb[i] : \A n \in seq_uhb[i][k] :
       net.diff[n] = k /\ resfile[i] # NoFile /\ Reported(i, n)

(* An updated element is on the path exactly if it is fed, from the stage  *)
(* before its own, by one that is, or by the instruction register.         *)
Built(i) == phase = "done" \/ (phase \notin {"per_s", "emit"} /\ i < idx)
Level(i, k) == IF k \in DOMAIN seq_uhb[i] THEN seq_uhb[i][k] ELSE {}
PathsComplete ==
  \A i \in {j \in Instns : Built(j)} : \A n \in updated[i] :
    n \in Level(i, net.diff[n]) <=>
      \/ net.diff[n] = 1 /\ <<net.instn, n>> \in net.reg_reg
      \/ \E u \in Level(i, net.diff[n] - 1) : <<u, n>> \in net.reg_reg \cup net.reg_mem

(* A memory is written at its own stage, if it is on the path, and read in *)
(* the stage before that of each element on the path its data go to.       *)
AccessesObserved ==
  \A i \in {j \in Instns : Built(j)} : \A m \in net.mems :
    LET found == IF m \in DOMAIN loc_per_reg[i] THEN loc_per_reg[i][m] ELSE {}
        fed == {p[3] : p \in {q \in net.rdport \cup net.wrport : q[1] = m}}
    IN found = {[dep |-> k, write |-> TRUE] : k \in {j \in DOMAIN seq_uhb[i] : m \in seq_uhb[i][j]}}
               \cup {[dep |-> k - 1, write |-> FALSE] :
                       k \in {j \in DOMAIN seq_uhb[i] : fed \cap (seq_uhb[i][j] \ {m}) # {}}}

(* The design handed to the inter-instruction phase. *)
Memories(i) == net.mems \cap DOMAIN loc_per_reg[i]
Design ==
  [uhb   |-> seq_uhb,
   loc   |-> [i \in Instns |-> [m \in Memories(i) |-> loc_per_reg[i][m]]],
   down  |-> [i \in Instns |-> [m \in Memories(i) |-> Downstream(i, m)]],
   local |-> net.local,
   pcrs  |-> net.pcrs]
Inter == INSTANCE UhbDesign WITH design <- Design

(* It is one: no stage is empty, a memory that is read feeds something,    *)
(* what two instructions both update they update at the same stage, and    *)
(* the accesses of a memory are those observed.                            *)
ProducesDesign == AccessesObserved /\ (phase = "done" => Inter!DesignOK(Design))

(* The phase comes to an end, whatever it reads.                           *)
IntraEnds == <>(phase \in {"done", "abort"})
=============================================================================
