# rtl2uspec in TLA+

rtl2uspec (`src/src_revised/`) is a Yosys pass that synthesises a µspec model of
a processor from its netlist. It walks the netlist from the program counter,
proposes properties about when each instruction updates each state element, has
an external property checker decide them, and writes `vscale.uarch`, the axioms
that `pipecheck` then uses to check memory-consistency tests. Whatever the pass
gets wrong (a wrong pipeline stage, a verdict applied to the wrong hypothesis,
an element left out) ends up silently in the axioms.

This directory holds TLA+ modules for the core of the pass, the TLC runs that
check them and the theorems proved about them. All line numbers refer to
`src/src_revised/`.

## The system

The program is sequential C++. What makes it hard is not threads but

* **unspecified order**: Yosys `pool` and `dict` are iterated in hash order, and
  many results are built while iterating, so they must not depend on it;
* **phases that exchange files with another program**: the pass is run once per
  phase (`-intradone`, `-interdone`), every run redoes the phases before it, and
  verdicts come back from the property checker in text files that are polled
  for, matched by number and read while they may still be written;
* **state that outlives a call**: most objects are global (main.cc:35-50), so a
  second execution in one Yosys session starts from what the first one left;
* **shared verdicts**: one SVA file answers several hypotheses, and several files
  in a chain answer one.

### Components

| Component | State | Operations | Interacts with |
|---|---|---|---|
| Netlist analysis: `Full_design_cdfg` (cdfg.h), `RTLDataFlow` edges (dataflow.h:214-269) | cell visit map, per-cell downstream registers and memories, `design_reg_reg`, `design_reg_mem`, memory port maps | `collect_sig_cell`, `find_downstream_reg`, `dfs_visit`, `find_downstream_handle_mem`, `check_exist`, `add_edge` | feeds the walk and the graphs |
| Distance walk: `RTLDataFlow::find_reachable_set` (dataflow.h:284-409) | `two_trace_tar_sigs`, two visited pools, two current and two next pools, `cyc_diff` | one call | feeds stage numbers to everything later |
| Intra-instruction phase: `DFG` (dfg.h), `MyGraph` (util.h) | `cyc_diff`, `sva_results`, `stage`, graph edges, `seq_uhb`, `loc_per_reg`, static `eventual_progress_remote` | `intra_hbi_instn`, `parse_intra_hbi_res`, `build_dfg`, `uhb_anchor`, `deps_anchor` | writes SVA files, polls for `<meta>.res`, gives each instruction its stages |
| Inter-instruction hypotheses: `Inter_HBI` (inter_hbi.h) | `hbi_cntr`, numbered `.sv` files, `hbi_checkings`, `hbi_meta`, `hbi_inferred`, `pcr_inorder_hbi` | `generate` and the file writers it calls | reads the graphs; its files and `hbi_meta.txt` go to the checker |
| Verdict reader: `USPEC_GEN::parse_result` (dumpuspec.h:231-350) | `sva_result`, fold state `track`/`stack_res`, three bins of hypotheses | wait, read lines, fold, place | polls for `hbi_meta.txt.res` |
| Node merging: `uhb_gen_merge`, `compare_prop` (dumpuspec.h), `My_Disjoint_Set` (container.h) | one disjoint set per instruction and stage, `all_uhb_parents` | compare, union, dump | reads the bins and the graphs |
| Specification writer: `USPEC_GEN` dump functions | axiom text, `visited`, stage names, `shared_resource` | emit axioms for merged nodes | writes `vscale.uarch` |
| Pass driver: `execute` (main.cc) | globals | three invocations | everything |
| SVA builder (uspec.h), Verilog back end (util_verilogbackend.h) | text under construction; global `fin_cell` | append, finish | used by the two hypothesis phases |
| Scripts, Makefiles, sample `vscale.uarch` | files | run the phases | outside the pass |

### What makes each correct

* Walk: the recorded distance is the shortest, whatever the order; nothing
  reachable is missing; it ends on cyclic graphs.
* Hypotheses: every pair of updates that needs an order has a hypothesis; the
  file a hypothesis names asserts that hypothesis; every file is listed for the
  checker; chains are linked and closed.
* Verdict reader: proven only if its files were reported proven, however the
  verdict file was caught; every hypothesis gets a verdict.
* Merging and writing: merged nodes have the same proven orders; every proven
  order appears on the representatives of its nodes; every node that appears in
  an axiom is a declared stage.
* Intra phase: the stages of an instruction are the distances at which it was
  proven to update elements; graph edges connect adjacent stages.
* Netlist analysis: an edge exists exactly when there is a combinational path,
  whatever order the netlist is walked in.
* Verilog of a signal: everything behind it is printed, and a file has what it
  needs to be checked by itself.

PROJECT.json lists the hazards at their lines; the properties below are aimed at
them.

## Modules

| Module | Models | Checked by | Proved in |
|---|---|---|---|
| `Cdfg` | `collect_sig_cell`, `find_downstream_reg`, `dfs_visit`, `check_exist`, `find_downstream_handle_mem` | `MCCdfg` | `CdfgProofs` |
| `ReachableSet` | `find_reachable_set`, `get_next_pools` | `MCReachableSet` | `ReachableSetProofs` |
| `IntraHbi` | `intra_hbi_per_s`, `intra_hbi_instn`, `parse_intra_hbi_res`, `build_dfg`, `uhb_anchor`, `deps_anchor` | `MCIntraHbi` | `IntraHbiProofs` |
| `VerilogCone` | `get_sig_verilog`, `verilog_dump_cell`, `dump_sigchunk` | `MCVerilogCone` | `VerilogConeProofs` |
| `UhbDesign` | what the graphs of all instructions tell the later phases, and the queries on it | with the modules that extend it | |
| `DesignOrders` | the orders a design calls for, and the file that answers each | with `InterHbi`, `UhbMerge` | |
| `InterHbi` | `Inter_HBI::generate` and the writers it calls | `MCInterHbi` | `InterHbiProofs` |
| `ParseResult` | `parse_result`, `get_res`, `place_bin` | through `InterPhase` | `InterPhaseProofs` |
| `InterPhase` | generate, the checker, parse_result | `MCInterPhase` | `InterPhaseProofs` |
| `UhbMerge` | `compare_prop` and what it calls; `uhb_gen_merge` lines 511-553 | through `UspecGen` | `UspecGenProofs` |
| `UspecGen` | `uhb_gen_merge` lines 555-705, the dump functions, `header_inferred` | `MCUspecGen` | `UspecGenProofs` |
| `Tables` | writing a `std::map` or a Yosys dict | through the modules that extend it | |
| `DisjointSet` | `My_Disjoint_Set` | `MCDisjointSet` | `DisjointSetProofs` |
| `Partition` | what `My_Disjoint_Set` promises | as a property of `DisjointSet` | |

How they fit: `Cdfg` ends with relations between registers and memories.
`regReg` and `regMem` are the input relations of `ReachableSet`, which are
arbitrary there, and the `reg_reg` and `reg_mem` of a netlist of `IntraHbi`,
whose `rdport` and `wrport` are `upRdport` and `rdToWr`. `ReachableSet` gives the distances that `IntraHbi` takes as the
`diff` of a netlist. `IntraHbi` ends with a design in the sense of `UhbDesign`
(`ProducesDesign`), which is what `InterHbi`, `InterPhase`, `UhbMerge` and
`UspecGen` take as a constant. `InterHbi` shows that `generate` makes the orders
of `DesignOrders` (`OrdersOfDesign`); `UhbMerge` starts from these orders with
every verdict `parse_result` can give them. `UhbMerge` unites sets in one step,
as `Partition` does; `DisjointSet` shows that the code behaves like that.
`VerilogCone` writes the texts that the assertions of `IntraHbi` (its remote
files are `eventual` there) and of `InterHbi` (files of kind `flow_local`)
declare their signals with.

Operators whose name starts with `Mut` are deliberately wrong variants of the
definition that follows them. Nothing uses them; each stands for a plausible
bug that one property must catch.

### Cdfg

A netlist is a record of wires and cells: what `collect_sig_cell` reads off the
Yosys module. A wire stands for a class of `SigMap`; slices of a wire are the
wire, as in the code (`chunk.wire`). Only the map the pass uses is modelled
(`full_s`, main.cc:76-84). `StartCell` begins the walk from one cell and clears
`visited` and `visiting`; `VisitOutput` and `VisitNext` are calls of `dfs_visit`,
whose frames are on `stack`; `TakeCycle`, `TakeReg`, `TakeMem` and `TakeComb` are
iterations of its loop over `cells_down`; `Return` its end. Cells, wires and
memories are taken in any order. `paths_c` is read off the stack (`PathCells`).
`HandleMem` is one iteration of `find_downstream_handle_mem`. Two ports of a
memory on one wire are taken together: in the code the second finds its wires
visited. An abort of the walk (a memory read port with a register clock, read data
that feed a memory directly) is `Unsupported`.

* `cdfg`: five handmade netlists (cells in a cycle that meet again, a connection
  and a custom cell; a memory that is read and written by the same logic; two
  memories with several ports; one that stops the pass; a memory with two read
  ports for one address), every wiring of two registers and two cells of one or
  two inputs, and every wiring of two registers, a cell and a memory: 3045
  netlists, 711 thousand states with all orders. Two
  registers and two cells are enough for a cycle of cells, wires that meet again
  and a cell that was walked before.
* `cdfg_read_data` (expected violation): see Findings.

What should come out is stated over reachability in the netlist, not over the
walk. `Reach` defines it without recursion, so that it can be proved about: a
wire is reached if every set of wires that holds the start and is closed under
the steps holds it. `EdgesAreFlows`: nothing is
recorded that is not connected, with two liberties the code takes, that registers
behind read data are walked through and that of a memory walked before all read
ports count. `FlowsFound`: nothing that is connected through cells is lost, by
reuse, by cycles or by order. It excludes what the code does lose, see Known
limits. `ReadDataFlows` is about the second function, which starts from the read
data and does find registers that take them directly; an entry is kept by the
address, so two read ports for one address share theirs. That the walk ends is not
claimed as a property: wires being visited and cells on the path each stop it
alone, so no single slip in the code would break it; the run explores all
behaviours, which are finite.

### VerilogCone

One behaviour is one execution with the texts it asks for. `DumpRoot` prints a
driver of the signal, `DumpNext` and `SkipNext` are iterations of the loop of
`verilog_dump_cell`, `DumpWires` the end of it, `EndCall` the end of
`get_sig_verilog`, with the files its text goes to (dfg.h:103-201,
inter_hbi.h:378-440). Printing a cell pushes the drivers of its wires that have
no `hdlname`, as often as the wire is printed. `ports` has the wires of a cell in
the order in which the case of its type in `dump_cell_expr` prints them, `outs` the
positions that are outputs. Most cases print the output first; `$shiftx` prints A
before Y (util_verilogbackend.h:783, 787), a flip-flop or latch its clock, resets,
enable and data before Q (957-1053), a signed `$divfloor` or `$modfloor` A and B
before Y, and A once more. A netlist may have any order. What a cell looks like in
Verilog is left out otherwise, so a cell that is printed as a comment counts as
printed.
The drivers of a wire come in an order fixed by the netlist: the pool is
not changed while the pass runs. A slot is one of them at one wire of the cell;
`InOrder` puts the drivers in the slots on the stack in the order of printing.
`Cone` is the least set closed under drivers, written without recursion.
`NetlistsAssumption` says what makes a netlist: wires and cells that exist, and at
least one text, for a signal that has drivers and no `hdlname`. Nothing is assumed
about the order of ports, nor about what drives what.

* `verilog_cone`: every wiring of three cells with one or two inputs. The first
  prints its output first, last or between its inputs, and may print an input
  twice; the second prints it first, or last after one input; the third drives one
  wire or two, one of them together with the second. Texts for one remote memory,
  for two, and for two local arrays of which one has a read address: 1.13 million
  states. Weak fairness: sequential code.
* `cone_files` (expected violation): see Findings. Its netlists print outputs first,
  so that the counterexample is about `fin_cell` and not about the order of ports.

`ConesPrinted` is about the loop, which never prints the cell left at the bottom of
the stack, and about `fin_cell`, whose cells are passed over. The bottom is the
root itself if an output that it alone drives comes first. If an input comes first
it is the driver of that input, and this driver is lost unless it is pushed again
or has been printed before: `MayLose` is what a root can lose. `BottomLost` says
that a printed cell lacks nothing but that, and only a root; `ConesWhole` that
behind a signal without such roots nothing is missing, whatever was passed over.
A text prints nothing twice; two texts of one file may declare a wire each.
`FilesComplete` says that, apart from such roots, only what was printed for other
files can be missing in a file, where `Printed` is all a text may print: its cone,
and what else drives the outputs of its cells. `ConesEnd` says that cycles of logic
do not keep the loop going.

### ReachableSet

The input relations are variables that never change, so one run covers every
graph over the given nodes. `phase` is the control point. A `for` over a Yosys
pool is a step (`SettleReg`, `SettleMem`) that takes any remaining element, so
every iteration order is covered. `Seed` is dataflow.h:328-352, `EnterLevel` the
loop head, `RegsSettled` the insertion into `visited` after the register loop,
`LeaveLevel` the end of the body. `diff` is the `diff` field of
`two_trace_tar_sigs`, `Absent` when there is no entry. Memory ports are
represented by their cell, which is what the walk distinguishes.

Run `reachable_set` takes all graphs over three registers and two memories, with
four shapes of PC consumers (none, logic feeding nothing, two registers, logic
feeding two registers): 1.1 million states. Three registers are enough for a
cycle, a diamond with a shortcut, and a register reached on two levels; two
memories for one visited and one not visited in the same set. Fairness is weak
fairness of the whole function: sequential code keeps running.

### IntraHbi

A netlist is what the phases before leave: the distance of each register and
memory, which feeds which, and the read and write ports of memories. Distances
come from a breadth-first walk, so an edge may go back or stay in a stage but
leads at most one stage on; whoever feeds anything is a register, and a netlist
has at least one instruction type and one PC register (`NetlistsAssumption`). `Ask` is
one iteration of `intra_hbi_per_s` (dict order: any), `Emit` is
`intra_hbi_instn`, then per instruction `Open`, `ReadLine`, `EndOfLines` or
`Abort` (`parse_intra_hbi_res`), `Build` (`build_dfg` up to the walk), `Anchor`
and `NextLevel` (`uhb_anchor`) and `Deps` (the data edges and `deps_anchor`). The
two graphs of the code are operators over the verdicts, because nothing reads
them while they are built: `UhbEdges` is the graph the walk sees, `AllEdges`
adds the red data edges that are inserted after the walk (dfg.h:410-456).

The checker is external. A file may be opened while it is being written: it then
ends after any line, in the name of an element, right after it, in the
answer, or with an empty line. A name cut short is taken to be unknown. A line
without a fourth token is indexed past its end (dfg.h:292), which gives any
verdict or a crash.

* `intra_hbi` (three netlists, `MaxTorn` = 1): three stages with two PC
  registers, edges back and one within a stage; a register file that is read at
  once and written from memory, and a buffer written by the instruction register;
  two instruction types. Every set of verdicts, any one file torn: 370 thousand
  states. Weak fairness of the pass, sequential code, and of the
  checker, which is run because its answers are waited for.

`LevelsAreDistances` is what all later phases assume of `seq_uhb`, and relates
the walk to the distances through the filter on adjacent stages; its part
`EveryElementAsked` relates the assertions, the rows and the elements. `PathsComplete`
says which updated elements are on the path and which are not; a memory fed
directly by the instruction register is not (dfg.h:376). `ProducesDesign` says
that memories are accessed where their data are used (`AccessesObserved`) and
that the phase ends with a design in the sense of `DesignOK`, which is all the
later modules assume of their designs: no stage is empty, all tables are finite,
two instructions update an element at the same stage, a memory that is read feeds
something, and a memory on the path of an instruction is one it accesses.

### InterHbi

One action is one iteration of the innermost loop of one section of `generate`:
`Spatial` (inter_hbi.h:106-129), `Interface` (132-254), `Pipeline` (257-293);
`EndSection` goes to the next section or instruction pair, `CallAgain` is a
second execution of the pass in one session. `files` is the directory of `.sv`
files, reduced to what each asserts: the order of a PC register for a pair
of instructions, one step (send, receive, process) of one pair of accesses, or
the flow of a value. `InterfaceAbort` collects the assertions that stop the
pass. `PCR[info2_dep]` at 428 is read without a bound check: the model lets it
give a garbage register or a crash.

* `inter_hbi` (seven designs, `MaxCalls` = 2): two instruction types, up to three
  stages, a shared and a local memory, reads feeding two registers. Among the
  designs are a third PC register, a local array written past the last PC
  register, read past it, or written before it is read, and a memory whose
  protocol is not described, so every abort is reached. The smallest design
  (`RerunDesigns`) is run twice in one session. 166 thousand states.

`FileAnswersHypothesis` is the property the rest of the pass relies on, because
verdicts come back as numbers; that files answer is claimed of the first
execution (see Known limits), that all are listed of every one. `ChainsClosed` is
what `parse_result` assumes of the vector. `OrdersOfDesign` compares the result
with `DesignOrders`; its part `HypothesesComplete` is stated from the graphs, not
from the loops, and holds of a second execution too.

### ParseResult and InterPhase

`ParseResult` has one action for the open, one per line, one for the end of the
lines and one per iteration of the fold over `hbi_checkings`. The end of the
lines follows `std::getline`: on a good stream it empties the string at an empty
line or at the end; after a last line without newline the stream is no longer
good, the string keeps that line and the loop never ends. Such a behaviour
stutters in stage `lines`. Verdicts of inferred hypotheses are bound to any
value, because no constructor of `hbi_res` initialises `assertion_res`.

`InterPhase` extends `InterHbi` with the checker (`WriteResults`, external) and an
instance of `ParseResult`. What can be read is any prefix of the checker's
output: nothing, a cut header, whole lines, a line without its newline, a line
cut inside its number or its verdict, or a trailing empty line. At end of file
`ifstream` stops for good, so one prefix per behaviour is enough.

* `inter_phase`: a store and a load with two stages, plus a design with nothing
  to check; at most one file (`MaxUnproven`) gets a verdict other than proven,
  which is enough to tell every file of a chain apart: 679 thousand states. Weak
  fairness is assumed of the pass, which is sequential, and of the checker,
  whose result file is the reason to start the next invocation.
  `VerdictsApplied` claims the end of the wait only for files whose last line is
  terminated.
* `inter_phase_fanout` (expected violation): see Findings.

The load in `inter_phase` is observed at one register, so each chain of files is
about one pair of nodes; with two registers `ProvenOnlyIfChainProven` fails.

### UhbMerge and UspecGen

`res` maps each order of the design to its verdict. The initial states are the
readings `parse_result` can give: every file proven except at most
`MaxUnproven`; of a chain of protocol files, the hypothesis that is folded first
can differ from the others (finding 3); inferred orders have any value. The pass
goes through the instructions (`idx`) and their stages (`dep`). `Stage` lays the
nodes of a stage out in a vector, in any order (`uhb_nodes`; the code copies a
pool); `TryMerge` is one round of the two loops over it (`pair`), with the union
in every instruction's stage of that depth, `MergeAbort` the assertion in
`compare_diff`, `EndStage` collects the roots, `NextInstn` goes on. Then
`DumpStage` emits the orders of the representatives of one stage, `DumpIntra` the
path of the instruction, `Header` what `header_inferred` adds.

* `uspec_gen` (three designs, `MaxUnproven` = 2): the first with a register file
  that feeds two operands, data memory that feeds the register file and a shared
  write-address register; the second without register file, with three nodes in
  a stage and paths of different length; the third with a register that takes no
  operand and an instruction type that updates nothing. Two unproven files are
  needed to tell three nodes apart pairwise. 533 thousand states. No liveness: the
  loops are over finite vectors.
* `uspec_gen_load_addr` (expected violation): see Findings.

`OneAnswer` says that `compare_prop` gives one answer for two nodes of a stage,
whichever comes first. It need not, see Known limits; `AxiomsFollowPaths` and the
first half of `ParentsFinal` speak of the readings for which it does.

`MergedNodesAgree` is the property of transitive merging: nodes are compared
pairwise and may meet through a third. `AxiomsHoldForMembers` and
`ProvenOrdersKept` say that axioms about representatives say nothing of a member
that was refuted and forget nothing that was proven. `DeclaredStages`, a part of
`AxiomsFollowPaths`, is what `pipecheck` needs to read the file; `NeverStops`, a
part of `AlikeNodesMerged`, says that the assertion in `compare_diff` is not
reached. Some of these depend on the design; `UspecGenProofs` says on what.

### DisjointSet

One action is one call in the recursion of `ds_find` or the return from it, which
compresses the path; `stack` is the C++ call stack. `rep` is a history variable,
the partition. `ForestImplementsPartition` reads the partition off `parents`
instead, so it does not depend on `rep`: `Roots` gives a node the root that every
set closed under parents and holding the node has in it.

Run `disjoint_set`: four nodes, every sequence of operations: 671 thousand states;
four nodes give chains of three links and two trees to unite. `FairSpec` lets an
operation that has begun go on; that another is called is not assumed.

## Findings

1. **Registers that take read data are walked through** (`cdfg_read_data`). Behind a
   read address `dfs_visit` goes on with the outputs of the cells that the read
   data feed, registers among them (cdfg.h:244). The register of the address is
   related to the registers a cycle further on, not to the one that takes the
   data; or to neither, if the memory was walked first.
2. **Logic missing from assertion files** (`cone_files`). `fin_cell` outlives a
   text, `verilog_dump_clean` is never called, and a file is checked by itself:
   logic behind the signals of two files is printed into the first one, and
   undriven in the second.
3. **Folded verdict of a chain reaches only the first pair** (`inter_phase_fanout`).
   Hypotheses are pushed file by file; with several pairs of nodes the fold ends
   at the first process hypothesis, and later pairs take the process verdict
   alone, which assumes the receive order.
4. **A register outside the cores that one instruction alone updates has two
   names** (`uspec_gen_load_addr`). `ismem` answers -1 for a node that is not in
   the graph it is asked on (util.h:494), and that converts to true: the order is
   written about `(0, register)`, which no `StageName` declares.

Known limits that no run is spent on; the models have these behaviours, and the
properties are stated so that they say what is left:

* On a second execution in one session `generate` restarts `hbi_cntr` and clears
  `hbi_checkings` and `hbi_meta`, but not `pcr_inorder_hbi`, and `inter_hbi_` is
  global: a hypothesis names the number of the first execution's file, which is
  now another assertion (inter_hbi.h:89, 690). `FileAnswersHypothesis` claims the
  first execution only.
* `compare_spatial` compares `assertion_res` of inferred hypotheses, which nothing
  sets (dumpuspec.h:61, util.h:518): an array can be merged with a register whose
  order was refuted.
* util.h:323 assumes that all nodes are on the path. An updated element whose
  updated predecessors are not reachable from the instruction register is in the
  graph and on no path, and no axiom mentions it. `PathsComplete` says which.
* An output that is also an input of its cell is not walked (cdfg.h:324). A register
  with a shift or a partial update loses everything behind it; `FlowsFound` leaves
  such cells out.
* While the walk is behind the read data of a memory, its write ports are passed over
  (cdfg.h:185), and found or not depending on what was walked before; `FlowsFound`
  leaves out registers that read the memory they write.
* A memory written from the read data of several others keeps one of them
  ('since only single W port', cdfg.h:443).
* A write enable that is a slice of a wider wire has no text (inter_hbi.h:399).
* The cell that drives a signal without an `hdlname` may print an input first:
  `$shiftx`, for instance the part-select behind a memory's address, or a flip-flop
  or latch. If that input has no `hdlname` either, its driver is at the bottom of
  the stack, where the loop ends without a look at it
  (util_verilogbackend.h:1470-1485). The wire is declared and undriven in the
  assertion file, unless the same cell prints another wire of that driver
  (`$divfloor` and `$modfloor` print A twice, flip-flops their resets) or another
  text has it. `ConesPrinted` and `FilesComplete` say that nothing else is lost.
* The waits (dfg.h:251, dumpuspec.h:288) are for the file, not for the evaluation
  that main.cc:188 speaks of: what is not there yet counts as not updated or not
  available.
* Memory that feeds two registers of one stage makes `compare_diff` run into
  `assert(0)` (dumpuspec.h:118). The designs of `uspec_gen` have none, which is
  what `NeverStops` depends on.
* `compare_prop` accepts any data flow of the second node as soon as the first has
  a flow from an array of its core (dumpuspec.h:86); this is why
  `MergedNodesAgree` speaks of spatial and temporal orders only. The second node
  is not asked, so the answer for two nodes depends on which comes first in the
  pool of the stage, and that may differ between instructions: two nodes that
  were left apart for one instruction can be merged for a later one, in the sets
  of the first as well, after its roots were collected (dumpuspec.h:547).
  `all_uhb_parents` then keeps a node that is no root any more, and an axiom can
  be written about a node that is on no path. Design `Imm` of `MCUspecGen` does
  this (a register fed by the register file, next to one that is not), and
  `OneAnswer` leaves it out.

## Theorems

`ReachableSetProofs` proves, for any sets of registers and memories with
`NodesAssumption` (they are disjoint and contain the start register), with
`Spec` whose inputs are arbitrary relations:

* `TypeCorrect`: `Spec => []TypeOK`;
* `DiffIsShortest`: `Spec => []ShortestDiff`;
* `MemDiffIsNearest`: `Spec => []MemBehindNearestWriter`;
* `MapIsComplete`: `Spec => []CompleteOnReturn`;
* `RecordedOnce`: `Spec => DiffIsFinal`.

None of the safety properties is inductive: `ShortestDiff` says nothing of the
registers still in the pools. The invariant `IInv` adds, for each phase, what is
in `visited`, what is in the next pools, and that every register with a shorter
walk is already recorded. One lemma per action shows the loop part of the
invariant preserved; the walk lemmas (`ZeroWalk`, `ExtendWalk`, `PrefixWalk`)
justify a distance by extending or cutting a walk by one edge, so no induction
over data is needed.

`DisjointSetProofs` proves, for any set of nodes, assuming only that `NoNode` is
not one (`NodesAssumption`):

* `TypeCorrect`: `Spec => []TypeOK`;
* `ForestCorrect`: `Spec => []ForestIsPartition`;
* `FindCorrect`: `Spec => []FindIsRep`;
* `DumpCorrect`: `Spec => []DumpIsRoots`;
* `Implements`: `Spec => ForestImplementsPartition`: read off the parents, the
  forest implements `Partition`.

`ForestIsPartition` alone is not inductive: returning from a recursive call
writes the root that call found into the caller's node, and nothing says they
are in one set. `SearchInv` says so of every node on the stack and of the value
on its way back, `RepOfRep` that representatives represent themselves, which
linking needs, and `DumpInv` how far `dump_stat` has come. `IInv` is the
conjunction; one lemma per action. For the refinement, `HistoryImplements` shows
first that `rep` is changed as `Partition` says, and `RootsAreReps` that the root
of a node is its `rep`. That needs the forest to have no cycle, which `NoCycle`
states without paths: nodes whose parents are all among them have a root among
them. It is inductive because a node is only ever hung below a root
(`HangNoCycle`), and that the value on its way back is a root follows from
`NoCycle` itself, applied to the set that `rep` calls one (`RepIsRoot`). That calls
return (`CallsReturn`) is liveness and only model-checked.

`CdfgProofs` proves, for any set of netlists with `NetlistsAssumption` (the wires
of cells and ports are wires of the netlist), finite or not, and any order of
the walk:

* `TypeCorrect`: `Spec => []TypeOK`;
* `EdgesCorrect`: `Spec => []EdgesAreFlows`;
* `FlowsCorrect`: `Spec => []FlowsFound`;
* `ReadDataCorrect`: `Spec => []ReadDataFlows`.

`WalkInv` says that the wires on the stack lie on a walk from the cell walked
from, `SoundInv` that what is recorded of any cell, finished or not, is connected
to it; `Known` may then copy it. `CompleteInv` is the argument that a depth-first
walk that gives up at visited wires, at cells on its path and at finished cells
loses nothing: every cell at a visited wire has been taken, which means that its
own entry is there and that its outputs are visited, under way, still to be
visited, or that everything known of it was copied. When the stack is empty the
visited wires are closed under the steps, and `Reach` says that nothing reachable
is outside. `ResultInv` says how far the two relations of the second function
have been entered.

`IntraHbiProofs` proves, for any set of netlists with `NetlistsAssumption`, any
number of instruction types, any answers of the checker, however torn:

* `TypeCorrect`: `Spec => []TypeOK`;
* `AskedOfEvery`: `Spec => []EveryElementAsked`;
* `LevelsCorrect`: `Spec => []LevelsAreDistances`;
* `PathsCorrect`: `Spec => []PathsComplete`;
* `DesignProduced`: `Spec => []ProducesDesign`.

`AskInv` counts the rows against the elements asked so far; `ReadInv` traces
what is called updated to a row of the answer; `LevelsInv` says that every stage
of a path is what lies below the stage before it and that the last has nothing
below, `WalkInv` relates the pools of the walk under way to that; `AccessInv` is
what `deps_anchor` has recorded. No step of these needs induction: that two
stages of a path cannot share a node follows from the distances.

`InterHbiProofs` proves, for any set of designs with `DesignOK` and any number of
executions:

* `TypeCorrect`: `Spec => []TypeOK`;
* `FilesCorrect`: `Spec => []FileAnswersHypothesis`;
* `ChainsCorrect`: `Spec => []ChainsClosed`;
* `AccessFilesCorrect`: in every execution, the file of a protocol or data-flow
  hypothesis asserts it; only those of PC registers go wrong on the second;
* `OrdersCorrect`: `Spec => []OrdersOfDesign`.

`FilesInv` has, besides the properties, that every number below `hbi_cntr` is a
file; `PcrInv` says of the cache `pcr_inorder_hbi` what the hypotheses that reuse
a number need; `InferredInv` types the inferred orders. The lemmas on division
(`Position`) find, in the order in which a loop over files and pairs of nodes
pushes hypotheses, the next step of each chain.

`OrdersOfDesign` speaks of the end only, and counts. `Made` is the set of orders
of the work items taken so far, of this pair and of those before it, and
`MadeInv` says that as many have been found as have been made, kind by kind. What
carries it is that no order belongs to two work items (`OneWork`, which needs that
a node is in one stage), so that taking an item makes new orders (`WorkTaken`);
that new hypotheses differ from those there are (by their number, or for the
orders of two updates, which share numbers, by their kind: `OneUpdateOrder`); and
that the hypotheses that end a chain are one for each pair of nodes
(`ProtocolEnds`, from quotient and remainder, and `VisitsAll`, that an order of a
finite set visits each element). Sets are counted with the theorems on
cardinality, so this needs no induction either.

`InterPhaseProofs` proves, of `AllSpec`, that is of `generate`, the checker and
`parse_result` together, from any prefix the checker's file can be caught at:

* `VerdictsCorrect`: `AllSpec => [](calls = 1 => VerdictMeansHypothesis)`;
* `ChainVerdictsCorrect`: `AllSpec => [](calls = 1 /\ OneNode => ProvenOnlyIfChainProven)`.

Both are about the first execution of a session, as `FileAnswersHypothesis` is.
`OneNode` (each access of a shared memory is observed at one node) excludes
exactly the designs of finding 3. `IInv` of `InterHbiProofs` is kept (`generate`
has ended when the parser starts), `LinksInv` says how chains lie in the vector,
and `ParserInv` how far the reader has come: `ReadInv` that a stored proven
verdict was a line of the file, `FoldInv` that the folded value stands for every
file of the chain so far, `PlacedInv` the same of what has been binned.

`UspecGenProofs` proves, for any set of designs with `DesignOK`, any
`CheckerVerdicts` and `MaxUnproven` (hence any verdicts), and any order of nodes:

* `TypeCorrect`: `Spec => []TypeOK`;
* `ParentsCorrect`: `Spec => []ParentsFinal`;
* `MergedAgree`: `Spec => []MergedNodesAgree`;
* `AlikeMerged`: `Spec => [](OnePlace \/ NeverStops => AlikeNodesMerged)`;
* `ReadsCorrect`: `Spec => []ReadsBeforeOverwrites`;
* `PathsFollowed`: `Spec => [](PathsKnown => AxiomsFollowPaths)`;
* `AxiomsForMembers`: `Spec => [](OneVerdict /\ ArraysApart => AxiomsHoldForMembers)`;
* `OrdersKept`: `Spec => [](PlacesKnown => ProvenOrdersKept)`.

`MergeInv` is about the first half. Sets are kept per instruction and stage, and
must agree across instructions although an instruction takes part in a merge only
if its stage has both nodes: `SetsInv` says that the members of a set are updated
by the same instructions. It holds because `compare_spatial` compares pools of
orders that contain one for each pair of instructions that update the node, so
equal sizes and a match for each leave no room for another instruction
(`MatchHolders`, by counting). `RootsKept` and `ApartInv` say that the roots of a
stage that has been dealt with are collected, and that nodes left apart there were
compared (`AllSeen`, over the two loops) and refused in one order at least; with
`OneAnswer`, `ParentsExact` says that such a stage is not merged further.

Merging is transitive and the comparison is not, so what makes two nodes one must
be found elsewhere. A node at which an access of a shared memory is observed
(`Observes`) has an order with itself, the one of that access with itself; no
other node can have the counterpart `compare_diff` asks for, so it is never
merged (`SelfNoCounterpart`, `LoneNode`). All other nodes have orders of stages
only. The verdict of such an order is that of the file of the stage (`PcrInv`: no
chain of files is folded for it), and to exchange the node for a peer in it gives
an order of the same file (`SwappedOrder`). So what merged nodes share is `Alike`,
which is an equivalence, and `ClassInv` says that the nodes of a set are alike.
`MergedAgree` needs nothing else. For `AlikeMerged` the pools that `compare_prop`
counts must be finite and of one size (`ItemsFinite`, `PlainCount`), and a design
must not make it look for an order that is not there: with `OnePlace`, no two
nodes of a stage that the same instructions update, both shared arrays or neither,
observe accesses (`NoAbort`); otherwise the theorem is about the runs in which the
assertion of `compare_diff` is not reached.

`AxiomsInv` says that an axiom is of an order that holds, and that every order that
has had its turn and holds has left one. With `ClassInv` this gives the last two
theorems. `AxiomsForMembers` needs that an order has one verdict whatever file
asserts it (`OneVerdict`: two accesses of an instruction that are observed at one
node have files of their own), and that no array is like a register (`ArraysApart`: the
order of an array is inferred and its verdict never read; see Known limits).
`OrdersKept` finds for a proven order one of the representatives that the same
file asserts, or the order itself if its nodes observe accesses; it needs these to
be on the path of the instruction (`PlacesKnown`), because an order of a node in no
stage is never dumped.

`DumpTypeInv` and `ReadInv` follow the write serialisation and reads-from
pairs into `header_inferred`; `NamesInv` says that the name an axiom gives to a
node is the one it has on the paths. `PathsKnown` is the condition finding 4
violates: the graph of an instruction holds every register shared by the cores
that no instruction up to it updates; and every node at which an access is
observed is on the path of the instruction. For `ReadsCorrect` it is again
`LoneNode` that counts: the memory a read takes its value from is merged with
nothing, so its own order is dumped and puts it into `shared_resource.ws`.

The three designs of `uspec_gen` satisfy `OnePlace`, `ArraysApart` and
`PathsKnown`, with every reading `OneVerdict`, so the run shows the conclusions
without a condition.

`VerilogConeProofs` proves, for any set of netlists with `NetlistsAssumption`,
with any number of texts and files:

* `TypeCorrect`: `Spec => []TypeOK`;
* `ConesCorrect`: `Spec => []ConesPrinted`;
* `FilesCorrect`: `Spec => []FilesComplete`.

`ConesPrinted` is about the moments when a call returns. The invariant that
carries it, `InputsInv`, is that what a printed cell needs is printed or waits
*above the bottom* of the stack, for the bottom is dropped; a root may lack one
driver that is at the bottom, or was (`Due`). Of a cell printed on top of others
that is plain (`AboveOf`). Of a root: a driver of an input that is not pushed above
the bottom is in `MayLose` (`PushedAbove`, from the numbering of slots in `Ranks`:
the root is not in `fin_cell` yet when its own wires are printed, so it would be
pushed by an output before, and so would a second printing of the wire), and there
is only one bottom (`OneBottom`). When the stack is empty `InputsInv` says
`BottomLost` (`IdleBottom`), and with `LosesNothing` what was printed is closed
under drivers where a cone goes, so it has the cone (`ConeClosed`, `ConeOfOne`,
`IdlePrinted`). `RootsInv` is about the drivers of the signals, `OnceInv` is the
argument for `PrintedOnce`. `FileInv` traces a printed cell: it is in the file, in
the text under way, or was printed by a call that was for other files and can print
it (`Elsewhere`); signals whose roots lose nothing (`Clean`) get their cones in the
file when their calls return. The closure
arguments (`ConeLeast`, `ConeOfMany`) only use that a cone is a least set, so
there is no induction over the netlist.

Only model-checked:

* `RegRelationIsDataflow`, `FilesSelfContained`, `DeclaredStages`: refuted.
* All liveness (`Terminates`, `VerdictsApplied`, `CallsReturn`, `IntraEnds`,
  `ConesEnd`), which is beyond the prover.

## Not modelled

* Formatting of SVA, Verilog and µspec text, logging and graph drawings: no
  property depends on the wording.
* The vendored part of the Verilog back end: how a cell is printed. A cell of a type
  that `dump_cell_expr` does not know becomes a comment. Such a cell as the driver of
  a signal asked for goes through the general case (util_verilogbackend.h:1498),
  after the loop: what it pushes stays for the next call.
* `USPEC_SVA` and `EXPR_` (uspec.h) build strings and keep no state that a later
  call depends on. The annotations (design.h) are constants: they are in the
  designs and netlists. Scripts and Makefiles are glue.
* The maps of `collect_sig_cell` for `half_s` and `nos`, and the inverse maps of
  `RTLDataFlow`: their only readers are commented out.
* The hand-off between the three invocations of the pass: verdict files of an
  earlier generation are accepted by number (dumpuspec.h:314), and neither
  the pass nor the Makefiles remove them.
* `output_port_cycdiff` (dataflow.h:151-212): never called.
* The second execution of the intra phase, where the static
  `eventual_progress_remote` still holds the files of the first.

## Plan

Done: every module above, and the proofs of its safety properties. Left is
`Handoff`: the three invocations, the result files, a checker that answers an
earlier generation, a rerun. Property: a verdict is applied to the assertion it
was given for.
