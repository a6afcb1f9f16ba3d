---------------------------- MODULE ReachableSet ----------------------------
(***************************************************************************)
(* RTLDataFlow::find_reachable_set (dataflow.h): the breadth-first walk    *)
(* from the program counter that gives every register and memory its       *)
(* cycle distance (two_trace_tar_sigs[..].diff).  All pipeline stages of   *)
(* the synthesised model are derived from these numbers.                   *)
(*                                                                         *)
(* The data-flow relations are inputs: they are computed by the earlier    *)
(* phases and never change here.  The elements of a Yosys pool come in no  *)
(* specified order, so the two loops over the current pools are steps that *)
(* pick any remaining element.                                             *)
(***************************************************************************)
EXTENDS Integers

CONSTANTS
  Regs,       \* design registers (RTLIL::SigSpec of a flip-flop's Q)
  Mems,       \* memory cells
  StartSig    \* the register named by `start`, used when no cell reads it

ASSUME NodesAssumption == Regs \cap Mems = {} /\ StartSig \in Regs

VARIABLES
  cells,            \* cells_: for each consumer of the PC, the registers it feeds
  design_reg_reg,   \* register -> registers it feeds in one cycle
  design_reg_mem,   \* register -> memories it feeds through a write port
  phase,            \* control point of find_reachable_set
  cyc_diff,
  diff,             \* two_trace_tar_sigs: distance recorded, or Absent
  visited, visited_m,
  curpool, curpool_m, nextpool_c, nextpool_m,
  todo              \* elements of the pool being iterated that remain

inputs == <<cells, design_reg_reg, design_reg_mem>>
vars == <<inputs, phase, cyc_diff, diff, visited, visited_m,
          curpool, curpool_m, nextpool_c, nextpool_m, todo>>

Nodes  == Regs \cup Mems
Absent == -1
Phases == {"seed", "loop", "reg", "mem", "done"}

TypeOK ==
  /\ cells \subseteq SUBSET Regs
  /\ design_reg_reg \in [Regs -> SUBSET Regs]
  /\ design_reg_mem \in [Regs -> SUBSET Mems]
  /\ phase \in Phases
  /\ cyc_diff \in Nat
  /\ diff \in [Nodes -> Nat \cup {Absent}]
  /\ visited \subseteq Regs /\ visited_m \subseteq Mems
  /\ curpool \subseteq Regs /\ curpool_m \subseteq Mems
  /\ nextpool_c \subseteq Regs /\ nextpool_m \subseteq Mems
  /\ todo \subseteq Nodes

Settled == {n \in Nodes : diff[n] # Absent}

-----------------------------------------------------------------------------

(* The registers at distance 0: what the consumers of the PC feed, or the  *)
(* start register itself when there is none.                               *)
StartPool == IF cells = {} THEN {StartSig} ELSE UNION cells

(* get_next_pools: a register whose memories are not all visited           *)
(* contributes all of them; the caller skips the visited ones.             *)
NextRegs(pool, seen) == (UNION {design_reg_reg[u] : u \in pool}) \ seen
MutNextMems(pool, seen) == UNION {design_reg_reg[u] : u \in pool}  \* mutant: the other relation
NextMems(pool, seen) ==
  UNION {design_reg_mem[u] : u \in {w \in pool : ~ (design_reg_mem[w] \subseteq seen)}}

(* Mutant of Seed: the start pool is not marked visited. *)
MutSeed ==
  /\ phase = "seed"
  /\ curpool' = StartPool
  /\ diff' = [n \in Nodes |-> IF n \in StartPool THEN 0 ELSE Absent]
  /\ nextpool_c' = NextRegs(StartPool, {})
  /\ nextpool_m' = NextMems(StartPool, {})
  /\ phase' = "loop"
  /\ UNCHANGED <<inputs, cyc_diff, visited, visited_m, curpool_m, todo>>

Seed ==
  /\ phase = "seed"
  /\ curpool' = StartPool
  /\ visited' = StartPool
  /\ diff' = [n \in Nodes |-> IF n \in StartPool THEN 0 ELSE Absent]
  /\ nextpool_c' = NextRegs(StartPool, StartPool)
  /\ nextpool_m' = NextMems(StartPool, {})
  /\ phase' = "loop"
  /\ UNCHANGED <<inputs, cyc_diff, visited_m, curpool_m, todo>>

(* Head of the while loop: take the next pools as the current ones. *)
EnterLevel ==
  /\ phase = "loop"
  /\ nextpool_c # {} \/ nextpool_m # {}
  /\ curpool' = nextpool_c
  /\ curpool_m' = nextpool_m
  /\ todo' = nextpool_c
  /\ phase' = "reg"
  /\ UNCHANGED <<inputs, cyc_diff, diff, visited, visited_m, nextpool_c, nextpool_m>>

(* One iteration of the register loop; a visited register is skipped. *)
SettleReg(r) ==
  /\ phase = "reg"
  /\ r \in todo
  /\ diff' = IF r \in visited THEN diff ELSE [diff EXCEPT ![r] = cyc_diff]
  /\ todo' = todo \ {r}
  /\ UNCHANGED <<inputs, phase, cyc_diff, visited, visited_m,
                 curpool, curpool_m, nextpool_c, nextpool_m>>

(* visited.insert(curpool) once the register loop is over. *)
RegsSettled ==
  /\ phase = "reg"
  /\ todo = {}
  /\ visited' = visited \cup curpool
  /\ todo' = curpool_m
  /\ phase' = "mem"
  /\ UNCHANGED <<inputs, cyc_diff, diff, visited_m,
                 curpool, curpool_m, nextpool_c, nextpool_m>>

(* Mutant of SettleMem: no test of visited_m. *)
MutSettleMem(m) ==
  /\ phase = "mem"
  /\ m \in todo
  /\ diff' = [diff EXCEPT ![m] = cyc_diff]
  /\ visited_m' = visited_m \cup {m}
  /\ todo' = todo \ {m}
  /\ UNCHANGED <<inputs, phase, cyc_diff, visited,
                 curpool, curpool_m, nextpool_c, nextpool_m>>

(* One iteration of the memory loop: memories are sinks of the walk. *)
SettleMem(m) ==
  /\ phase = "mem"
  /\ m \in todo
  /\ diff' = IF m \in visited_m THEN diff ELSE [diff EXCEPT ![m] = cyc_diff]
  /\ visited_m' = visited_m \cup {m}
  /\ todo' = todo \ {m}
  /\ UNCHANGED <<inputs, phase, cyc_diff, visited,
                 curpool, curpool_m, nextpool_c, nextpool_m>>

(* Mutants of LeaveLevel: memories fed by the next pool instead of the     *)
(* current one; a `continue` that skips the end of the body.               *)
MutLeaveLevel ==
  /\ phase = "mem"
  /\ todo = {}
  /\ nextpool_c' = NextRegs(curpool, visited)
  /\ nextpool_m' = NextMems(nextpool_c', visited_m)
  /\ cyc_diff' = cyc_diff + 1
  /\ phase' = "loop"
  /\ UNCHANGED <<inputs, diff, visited, visited_m, curpool, curpool_m, todo>>
MutLeaveLevelEarly ==
  /\ phase = "mem"
  /\ todo = {}
  /\ phase' = "loop"
  /\ UNCHANGED <<inputs, cyc_diff, diff, visited, visited_m,
                 curpool, curpool_m, nextpool_c, nextpool_m, todo>>

(* End of the loop body: the next pools, and one more cycle. *)
LeaveLevel ==
  /\ phase = "mem"
  /\ todo = {}
  /\ nextpool_c' = NextRegs(curpool, visited)
  /\ nextpool_m' = NextMems(curpool, visited_m)
  /\ cyc_diff' = cyc_diff + 1
  /\ phase' = "loop"
  /\ UNCHANGED <<inputs, diff, visited, visited_m, curpool, curpool_m, todo>>

(* Mutant of Return: leaves when one of the pools is empty. *)
MutReturn ==
  /\ phase = "loop"
  /\ nextpool_c = {} \/ nextpool_m = {}
  /\ phase' = "done"
  /\ UNCHANGED <<inputs, cyc_diff, diff, visited, visited_m,
                 curpool, curpool_m, nextpool_c, nextpool_m, todo>>

Return ==
  /\ phase = "loop"
  /\ nextpool_c = {} /\ nextpool_m = {}
  /\ phase' = "done"
  /\ UNCHANGED <<inputs, cyc_diff, diff, visited, visited_m,
                 curpool, curpool_m, nextpool_c, nextpool_m, todo>>

(* two_trace_tar_sigs.clear() and the locals of the function; the inputs   *)
(* are any relations the earlier phases may have produced.                 *)
InitLocals ==
  /\ phase = "seed"
  /\ cyc_diff = 1
  /\ diff = [n \in Nodes |-> Absent]
  /\ visited = {} /\ visited_m = {}
  /\ curpool = {} /\ curpool_m = {}
  /\ nextpool_c = {} /\ nextpool_m = {}
  /\ todo = {}

Init ==
  /\ cells \in SUBSET SUBSET Regs
  /\ design_reg_reg \in [Regs -> SUBSET Regs]
  /\ design_reg_mem \in [Regs -> SUBSET Mems]
  /\ InitLocals

Next ==
  \/ Seed
  \/ EnterLevel
  \/ \E r \in Regs : SettleReg(r)
  \/ RegsSettled
  \/ \E m \in Mems : SettleMem(m)
  \/ LeaveLevel
  \/ Return

Spec == Init /\ [][Next]_vars

(* The function is sequential code: it keeps running until it returns. *)
FairSpec == Spec /\ WF_vars(Next)

-----------------------------------------------------------------------------
(* Reference definitions: walks of the data-flow graph, and the registers  *)
(* reachable from the start pool (members of every closed superset of it). *)

Walk(p, n) ==
  /\ p \in [0 .. n -> Regs]
  /\ p[0] \in StartPool
  /\ \A i \in 1 .. n : p[i] \in design_reg_reg[p[i - 1]]

WalksTo(r, n) == {p \in [0 .. n -> Regs] : Walk(p, n) /\ p[n] = r}

Closed(S) ==
  /\ StartPool \subseteq S
  /\ \A u \in S : design_reg_reg[u] \subseteq S

Reachable == {r \in Regs : \A S \in SUBSET Regs : Closed(S) => r \in S}

(* The distance recorded for a register is the length of a shortest walk   *)
(* to it: it never changes which pipeline stage a register is checked in,  *)
(* whatever the order in which the pools are iterated.                     *)
ShortestDiff ==
  \A r \in Regs : diff[r] # Absent =>
    /\ WalksTo(r, diff[r]) # {}
    /\ \A n \in 0 .. diff[r] - 1 : WalksTo(r, n) = {}

(* A memory is one cycle behind the closest register that writes it. *)
MemBehindNearestWriter ==
  \A m \in Mems : diff[m] # Absent =>
    /\ \E u \in Regs : /\ diff[u] # Absent
                       /\ m \in design_reg_mem[u] /\ diff[m] = diff[u] + 1
    /\ \A u \in Regs : diff[u] # Absent /\ m \in design_reg_mem[u]
                         => diff[m] <= diff[u] + 1

(* On return the map holds exactly the reachable registers and the         *)
(* memories they write: no state element of the pipeline is left out of    *)
(* the properties generated later.                                         *)
CompleteOnReturn ==
  phase = "done" =>
    Settled = Reachable \cup UNION {design_reg_mem[u] : u \in Reachable}

(* A recorded distance is final: the two guards on the visited pools keep  *)
(* a later level from overwriting it.                                      *)
DiffIsFinal ==
  [][\A n \in Nodes : diff[n] # Absent => diff'[n] = diff[n]]_vars

(* The walk ends whatever cycles the data-flow graph has. *)
Terminates == <>(phase = "done")
=============================================================================
