-------------------------------- MODULE Cdfg --------------------------------
(***************************************************************************)
(* The netlist analysis (Full_design_cdfg, cdfg.h; the edges of            *)
(* RTLDataFlow, dataflow.h).  collect_sig_cell reads off which cells every *)
(* wire feeds, find_downstream_reg walks depth first from every cell and   *)
(* records which registers and memory ports its outputs reach, reusing     *)
(* what is known of cells that were walked before, and                     *)
(* find_downstream_handle_mem relates memory read ports to what they feed. *)
(* The result, relations between registers and memories, is all that the   *)
(* distance walk and the intra-instruction phase see of the design.  Cells *)
(* and wires are kept in hash tables: every order of them is possible.     *)
(***************************************************************************)
EXTENDS Naturals, Sequences, FiniteSets
LOCAL INSTANCE FiniteSetsExt

CONSTANTS
  Netlists,  \* possible netlists
  None       \* no cell

(* A netlist: a record with                                                *)
(*   wire : its wires, one for each class of SigMap                        *)
(*   kind : cell -> comb, reg, mem, or custom (a module left as it is)     *)
(*   in, out : cell -> the wires at its inputs, at its outputs             *)
(*   conn : pairs of wires, the second driven by (a part of) the first     *)
(*   port : memory -> pairs of an input port's name and a wire on it       *)
(*   rd   : memory -> the wires [addr, data] of each read port             *)
(*   clocked : memories with a synchronous read port                       *)
Kinds == {"comb", "reg", "mem", "custom"}
WrPorts == {"WR_ADDR", "WR_DATA", "WR_EN", "WR_CLK"}
Ports == WrPorts \cup {"RD_ADDR", "RD_EN"}

CellsOf(n) == DOMAIN n.kind
Kind(n, k) == {c \in CellsOf(n) : n.kind[c] = k}

ASSUME NetlistsAssumption ==
  \A n \in Netlists :
    /\ None \notin CellsOf(n)
    /\ \A c \in CellsOf(n) : n.kind[c] \in Kinds /\ n.in[c] \cup n.out[c] \subseteq n.wire
    /\ n.conn \subseteq n.wire \X n.wire
    /\ \A m \in Kind(n, "mem") : /\ n.port[m] \subseteq Ports \X n.wire
                                 /\ n.rd[m] \in Seq([addr : n.wire, data : n.out[m]])

-----------------------------------------------------------------------------
(* collect_sig_cell: the maps between wires and cells.  The wires of       *)
(* custom cells are left out.                                              *)
IgnoreSigs(n) == UNION {n.in[c] \cup n.out[c] : c \in Kind(n, "custom")}
InvSigToNextCell(n, c) == n.in[c] \ IgnoreSigs(n)
CellToNextSig(n, c) == n.out[c] \ IgnoreSigs(n)
SigToNextCell(n, s) == {c \in CellsOf(n) : s \in InvSigToNextCell(n, c)}

(* The cells a wire feeds, itself or as the driver of another wire. *)
CellsDown(n, s) == UNION {SigToNextCell(n, t) : t \in {s} \cup {e[2] : e \in {d \in n.conn : d[1] = s}}}

(* The outputs of a cell that are no inputs of it. *)
DownSigs(n, c) == CellToNextSig(n, c) \ InvSigToNextCell(n, c)

(* What a wire s reaches at a memory: the write ports it is on, and        *)
(* whether it is on another port; the cells fed by the read data it        *)
(* selects.                                                                *)
WritesOf(n, m, s) == {[mem |-> m, port |-> p, sig |-> s] : p \in {q \in WrPorts : <<q, s>> \in n.port[m]}}
OnReadPort(n, m, s) == \E p \in Ports \ WrPorts : <<p, s>> \in n.port[m]
ReadBy(n, m, s) ==
  UNION {SigToNextCell(n, n.rd[m][i].data) : i \in {j \in DOMAIN n.rd[m] : n.rd[m][j].addr = s}}

VARIABLES
  net,
  stage,      \* walk, mems, end, or abort
  done,       \* RTLDataFlow::visited: cells walked from
  origin,     \* the cell walked from, or None
  outs,       \* its outputs that are still to be visited
  stack,      \* calls of dfs_visit: its wire sig, the cells of cells_down and
              \* the outputs of the current cell that are still to be taken
  visiting, visited,
  downRegs,   \* cellDownRegs
  downMems,   \* cellDownMems_
  regReg,     \* design_reg_reg
  todo,       \* mem_pool_: memories still to be handled
  upRdport,   \* reg_to_upstream_rdport
  rdToWr,     \* rd_data_to_wports
  regMem      \* design_reg_mem

walk == <<origin, outs, stack, visiting, visited>>
down == <<downRegs, downMems>>
result == <<regReg, todo, upRdport, rdToWr, regMem>>
vars == <<net, stage, done, walk, down, result>>

Cells == CellsOf(net)
Regs == Kind(net, "reg")
Mems == Kind(net, "mem")

(* RTLDataFlow::set, and the objects as they are constructed. *)
Init ==
  /\ net \in Netlists
  /\ stage = "walk" /\ done = {}
  /\ origin = None /\ outs = {} /\ stack = << >> /\ visiting = {} /\ visited = {}
  /\ downRegs = [c \in Cells |-> {}] /\ downMems = [c \in Cells |-> {}]
  /\ regReg = [r \in Regs |-> {}]
  /\ todo = Mems /\ upRdport = [r \in Regs |-> {}]
  /\ rdToWr = << >> /\ regMem = [r \in Regs |-> {}]

-----------------------------------------------------------------------------
(* find_downstream_reg: the walk from one cell, output by output. *)
MutStartCell(c) ==  \* mutant: visited is kept from the cell before
  /\ stage = "walk" /\ origin = None /\ c \in Cells \ done
  /\ origin' = c /\ outs' = DownSigs(net, c)
  /\ visiting' = {}
  /\ UNCHANGED <<net, stage, done, stack, visited, down, result>>
StartCell(c) ==
  /\ stage = "walk" /\ origin = None /\ c \in Cells \ done
  /\ origin' = c /\ outs' = DownSigs(net, c)
  /\ visiting' = {} /\ visited' = {}
  /\ UNCHANGED <<net, stage, done, stack, down, result>>

EndCell ==
  /\ stage = "walk" /\ origin # None /\ outs = {} /\ stack = << >>
  /\ done' = done \cup {origin} /\ origin' = None
  /\ UNCHANGED <<net, stage, outs, stack, visiting, visited, down, result>>

(* The head of dfs_visit on wire s: nothing to do for a wire that is being *)
(* visited or has been.  A wire that feeds no cell stays in visiting.      *)
Visit(s, calls) ==
  IF s \in visited \cup visiting
  THEN stack' = calls /\ UNCHANGED visiting
  ELSE /\ visiting' = visiting \cup {s}
       /\ stack' = IF CellsDown(net, s) = {} THEN calls
                   ELSE Append(calls, [sig |-> s, cells |-> CellsDown(net, s), cell |-> None, sigs |-> {}])

VisitOutput(s) ==
  /\ stage = "walk" /\ origin # None /\ stack = << >> /\ s \in outs
  /\ outs' = outs \ {s}
  /\ Visit(s, << >>)
  /\ UNCHANGED <<net, stage, done, origin, visited, down, result>>

Top == stack[Len(stack)]
Callers == SubSeq(stack, 1, Len(stack) - 1)
(* paths_c: the cells through which the wire at the top was reached. *)
PathCells == {Callers[i].cell : i \in DOMAIN Callers}

VisitNext(s) ==
  /\ stack # << >> /\ s \in Top.sigs
  /\ Visit(s, Append(Callers, [Top EXCEPT !.sigs = @ \ {s}]))
  /\ UNCHANGED <<net, stage, done, origin, outs, visited, down, result>>

(* check_exist: what is known of cell c holds of the cell walked from. *)
MutKnown(c) == c \in done  \* mutant: memories take it over as well
Known(c) == c \in done /\ ~ origin \in Mems

(* The rest of dfs_visit: a cell c down of the wire at the top. *)
Take(c) ==
  /\ stack # << >> /\ Top.sigs = {} /\ c \in Top.cells
  /\ UNCHANGED <<net, stage, done, origin, outs, visiting, visited, result>>
Pass(c, sigs) == stack' = Append(Callers, [Top EXCEPT !.cells = @ \ {c}, !.cell = c, !.sigs = sigs])
Skip(c) == Pass(c, {})
MutCopySwapped(c) ==  \* mutant: copied the other way round
  /\ downRegs' = [downRegs EXCEPT ![c] = @ \cup downRegs[origin]]
  /\ downMems' = [downMems EXCEPT ![c] = @ \cup downMems[origin]]
CopyDown(c) ==
  /\ downRegs' = [downRegs EXCEPT ![origin] = @ \cup downRegs[c]]
  /\ downMems' = [downMems EXCEPT ![origin] = @ \cup downMems[c]]

TakeCycle(c) == Take(c) /\ c \in PathCells /\ Skip(c) /\ UNCHANGED down

TakeReg(c) ==
  /\ Take(c) /\ c \in Regs \ PathCells /\ Skip(c)
  /\ downRegs' = IF origin \in Mems THEN downRegs ELSE [downRegs EXCEPT ![origin] = @ \cup {c}]
  /\ UNCHANGED downMems

(* A write port is recorded; behind a read address or an enable, the walk  *)
(* goes on with the outputs of the cells that the read data feed.          *)
TakeMem(c) ==
  LET s == Top.sig
      written == downMems[origin] \cup WritesOf(net, c, s)
  IN /\ Take(c) /\ c \in Mems \ PathCells
     /\ \/ /\ ~ OnReadPort(net, c, s) /\ Skip(c)
           /\ downMems' = [downMems EXCEPT ![origin] = written] /\ UNCHANGED downRegs
        \/ /\ OnReadPort(net, c, s) /\ Known(c) /\ Skip(c)
           /\ downRegs' = [downRegs EXCEPT ![origin] = @ \cup downRegs[c]]
           /\ downMems' = [downMems EXCEPT ![origin] = written \cup downMems[c]]
        \/ /\ OnReadPort(net, c, s) /\ ~ Known(c)
           /\ Pass(c, UNION {CellToNextSig(net, d) : d \in ReadBy(net, c, s)})
           /\ downMems' = [downMems EXCEPT ![origin] = written] /\ UNCHANGED downRegs

TakeComb(c) ==
  /\ Take(c) /\ c \in Kind(net, "comb") \ PathCells
  /\ \/ Known(c) /\ Skip(c) /\ CopyDown(c)
     \/ ~ Known(c) /\ Pass(c, CellToNextSig(net, c)) /\ UNCHANGED down

Return ==
  /\ stack # << >> /\ Top.sigs = {} /\ Top.cells = {}
  /\ stack' = Callers
  /\ visiting' = visiting \ {Top.sig} /\ visited' = visited \cup {Top.sig}
  /\ UNCHANGED <<net, stage, done, origin, outs, down, result>>

(* Its end: the relation between registers. *)
RelateRegs ==
  /\ stage = "walk" /\ done = Cells /\ origin = None
  /\ stage' = "mems" /\ regReg' = [r \in Regs |-> downRegs[r]]
  /\ UNCHANGED <<net, done, walk, down, todo, upRdport, rdToWr, regMem>>

-----------------------------------------------------------------------------
(* find_downstream_handle_mem, one memory: which registers, and which      *)
(* write ports of other memories, are fed by the data of its read ports.   *)
(* A synchronous port, or a memory fed by the data itself, stops the pass. *)
Data(m, i) == net.rd[m][i].data
MutDataRegs(m, i) == UNION {downRegs[c] : c \in SigToNextCell(net, Data(m, i)) \ Regs}  \* mutant: only registers behind other cells
DataRegs(m, i) ==
  LET cpool == SigToNextCell(net, Data(m, i))
  IN (cpool \cap Regs) \cup UNION {downRegs[c] : c \in cpool \ Regs}
DataMems(m, i) ==
  {p.mem : p \in {q \in UNION {downMems[c] : c \in SigToNextCell(net, Data(m, i)) \ Regs} :
                    q.mem # m /\ q.port # "WR_CLK"}}
Supported(m) ==
  /\ m \notin net.clocked
  /\ \A i \in DOMAIN net.rd[m] : SigToNextCell(net, Data(m, i)) \cap Mems = {}

HandleMem(m) ==
  /\ stage = "mems" /\ m \in todo /\ Supported(m) /\ todo' = todo \ {m}
  /\ LET ports == DOMAIN net.rd[m]
         from(i) == [mem |-> m, addr |-> net.rd[m][i].addr]
         targets == UNION {DataMems(m, i) : i \in ports}
     IN /\ upRdport' = [r \in Regs |-> upRdport[r] \cup {from(i) : i \in {j \in ports : r \in DataRegs(m, j)}}]
        /\ rdToWr' = [t \in DOMAIN rdToWr \cup targets |->
                        IF t \in targets THEN from(Max({i \in ports : t \in DataMems(m, i)})) ELSE rdToWr[t]]
  /\ UNCHANGED <<net, stage, done, walk, down, regReg, regMem>>

Unsupported ==
  /\ stage = "mems" /\ \E m \in todo : ~ Supported(m)
  /\ stage' = "abort"
  /\ UNCHANGED <<net, done, walk, down, result>>

RelateMems ==
  /\ stage = "mems" /\ todo = {}
  /\ stage' = "end"
  /\ regMem' = [r \in Regs |-> {p \in downMems[r] : p.port # "WR_CLK"}]
  /\ UNCHANGED <<net, done, walk, down, regReg, todo, upRdport, rdToWr>>

Next ==
  \/ \E c \in Cells : \/ StartCell(c)
                      \/ TakeCycle(c) \/ TakeReg(c) \/ TakeMem(c) \/ TakeComb(c)
  \/ \E s \in net.wire : VisitOutput(s) \/ VisitNext(s)
  \/ Return \/ EndCell \/ RelateRegs
  \/ \E m \in Mems : HandleMem(m)
  \/ Unsupported \/ RelateMems

Spec == Init /\ [][Next]_vars

-----------------------------------------------------------------------------
(* What is connected in the netlist: along a set of steps, a wire reaches  *)
(* what no set of wires closed under the steps keeps apart from it.        *)
Closed(n, steps) == {S \in SUBSET n.wire : \A e \in steps : e[1] \in S => e[2] \in S}
Apart(n, steps) == UNION {S \X (n.wire \ S) : S \in Closed(n, steps)}
Reach(n, steps) == (n.wire \X n.wire) \ Apart(n, steps)

(* From an input of one of cs to one of its outputs. *)
StepsOf(n, cs) == {e \in n.wire \X n.wire : \E c \in CellsDown(n, e[1]) \cap cs : e[2] \in CellToNextSig(n, c)}
(* From a read address (or another read input) to the outputs of what the  *)
(* data feed, a register there included: the walk takes it for an ordinary *)
(* cell.                                                                   *)
ReadSteps(n) ==
  {e \in n.wire \X n.wire : \E m \in CellsDown(n, e[1]) \cap Kind(n, "mem") :
     OnReadPort(n, m, e[1]) /\ \E c \in ReadBy(n, m, e[1]) : e[2] \in CellToNextSig(n, c)}
(* From a read input to the data of any read port. *)
AnyReadSteps(n) ==
  {e \in n.wire \X n.wire : \E m \in CellsDown(n, e[1]) \cap Kind(n, "mem") :
     OnReadPort(n, m, e[1]) /\ e[2] \in CellToNextSig(n, m)}
(* From the address of a read port to its data. *)
AddrSteps(n) ==
  UNION {{<<n.rd[m][i].addr, n.rd[m][i].data>> : i \in DOMAIN n.rd[m]} : m \in Kind(n, "mem")}

(* The cells none of whose inputs is one of their outputs. *)
Plain(n) == {c \in CellsOf(n) : DownSigs(n, c) = CellToNextSig(n, c)}

Comb == Kind(net, "comb")
CombReach == Reach(net, StepsOf(net, Comb \cap Plain(net)))
WalkReach == Reach(net, StepsOf(net, Comb) \cup ReadSteps(net))
MemReach == Reach(net, StepsOf(net, Comb) \cup ReadSteps(net) \cup AnyReadSteps(net))
FlowReach == Reach(net, StepsOf(net, Comb) \cup AddrSteps(net))

(* The cells, and write ports, that the wires ss lead to. *)
CellsBehind(reach, ss) == UNION {CellsDown(net, t) : t \in {u \in net.wire : \E s \in ss : <<s, u>> \in reach}}
WritesBehind(reach, ss) ==
  UNION {WritesOf(net, e[1], e[2]) : e \in
           {d \in Mems \X net.wire : d[1] \in CellsDown(net, d[2]) /\ \E s \in ss : <<s, d[2]>> \in reach}}

-----------------------------------------------------------------------------
WritePorts == [mem : Mems, port : WrPorts, sig : net.wire]
Frames == [sig : net.wire, cells : SUBSET Cells, cell : Cells \cup {None}, sigs : SUBSET net.wire]
ReadPorts == [mem : Mems, addr : net.wire]

(* Type invariant: what the walk and the relations hold.  No registers are *)
(* recorded of a memory, as find_downstream_reg asserts (cdfg.h:366).      *)
TypeOK ==
  /\ stage \in {"walk", "mems", "end", "abort"}
  /\ done \subseteq Cells /\ origin \in Cells \cup {None} /\ outs \subseteq net.wire
  /\ \A i \in DOMAIN stack : stack[i] \in Frames
  /\ visiting \subseteq net.wire /\ visited \subseteq net.wire
  /\ downRegs \in [Cells -> SUBSET Regs] /\ downMems \in [Cells -> SUBSET WritePorts]
  /\ \A m \in Mems : downRegs[m] = {}
  /\ regReg \in [Regs -> SUBSET Regs] /\ regMem \in [Regs -> SUBSET WritePorts]
  /\ todo \subseteq Mems /\ upRdport \in [Regs -> SUBSET ReadPorts]
  /\ DOMAIN rdToWr \subseteq Mems /\ \A t \in DOMAIN rdToWr : rdToWr[t] \in ReadPorts

(* Whatever the order of the walk, what it records of a cell is connected  *)
(* to the cell: a register through other cells and memory reads without a  *)
(* register in between, but for one that takes read data directly; a write *)
(* port the same way, where a memory leads to all of its read ports.       *)
EdgesAreFlows ==
  stage = "mems" =>
    LET walked == WalkReach
        reads == MemReach
    IN \A c \in Cells :
         LET ss == CellToNextSig(net, c)
         IN /\ downRegs[c] \subseteq CellsBehind(walked, ss)
            /\ downMems[c] \subseteq WritesBehind(reads, ss)

(* The registers that register r reaches through cells alone; its write    *)
(* ports of memories that it does not also read: while the walk is behind  *)
(* a memory's read data, that memory's write ports are passed over.        *)
RegFlowsFound(comb, r) == CellsBehind(comb, CellToNextSig(net, r)) \cap Regs \subseteq regReg[r]
ReadBehind(walked, ss) ==
  {m \in Mems : \E s \in ss, t \in net.wire : <<s, t>> \in walked /\ OnReadPort(net, m, t)}
MemFlowsFound(comb, walked, r) ==
  LET ss == CellToNextSig(net, r)
  IN {w \in WritesBehind(comb, ss) : w.port # "WR_CLK" /\ w.mem \notin ReadBehind(walked, ss)} \subseteq regMem[r]

(* Whatever the order, what a register reaches through cells alone is      *)
(* related to it: neither cycles nor wires that meet again, nor the reuse  *)
(* of what was recorded before, lose a register or a write port.  It holds *)
(* of registers and cells with no input among their outputs; the others    *)
(* are not walked.                                                         *)
FlowsFound ==
  stage = "end" =>
    LET comb == CombReach
        walked == WalkReach
    IN \A r \in Regs \cap Plain(net) : RegFlowsFound(comb, r) /\ MemFlowsFound(comb, walked, r)

(* What reading memory m at the address of port i feeds; the memory that   *)
(* is entered as feeding a write port of memory t.                         *)
OutputsOf(cs) == UNION {CellToNextSig(net, c) : c \in cs \ Regs}
ReadFeeds(comb, walked, m, i) ==
  LET from == [mem |-> m, addr |-> net.rd[m][i].addr]
      cpool == ReadBy(net, m, from.addr)
      fed == {r \in Regs : from \in upRdport[r]}
  IN /\ (cpool \cup CellsBehind(comb, OutputsOf(cpool \cap Plain(net)))) \cap Regs \subseteq fed
     /\ fed \subseteq cpool \cup CellsBehind(walked, OutputsOf(cpool))
FedByRead(reads, t) ==
  LET m == rdToWr[t].mem
  IN /\ m # t
     /\ \E i \in DOMAIN net.rd[m] :
          /\ net.rd[m][i].addr = rdToWr[t].addr
          /\ \E w \in WritesBehind(reads, {Data(m, i)}) : w.mem = t

(* What a memory holds at an address is related to the registers that its  *)
(* read ports for this address reach through cells, directly or not, and   *)
(* to no others; a memory whose write port is entered as fed by read data  *)
(* is fed by those of that port, and is another one than the memory read.  *)
ReadDataFlows ==
  stage = "end" =>
    LET comb == CombReach
        walked == WalkReach
        reads == MemReach
    IN /\ \A m \in Mems : \A i \in DOMAIN net.rd[m] : ReadFeeds(comb, walked, m, i)
       /\ \A t \in DOMAIN rdToWr : FedByRead(reads, t)

(* "Dataflow relation between state elements": a register is related to    *)
(* exactly the registers its value reaches in one cycle, through cells and *)
(* asynchronous memory reads.                                              *)
RegRelationIsDataflow ==
  stage = "end" =>
    \A r \in Regs : regReg[r] = CellsBehind(FlowReach, CellToNextSig(net, r)) \cap Regs
=============================================================================
