----------------------------- MODULE VerilogCone -----------------------------
(***************************************************************************)
(* The cone writer: get_sig_verilog (cdfg.h) writes Verilog for the logic  *)
(* behind a signal that has no name of its own, with the dumping functions *)
(* that util_verilogbackend.h adapts from Yosys.  Its texts become part of *)
(* the assertion files of the two phases.  Printing a cell names its       *)
(* wires; the drivers of a wire without an hdlname go on a stack and are   *)
(* printed in turn, unless fin_cell has them.  fin_cell is a global        *)
(* variable: it lives through all texts of an execution.                   *)
(***************************************************************************)
EXTENDS Integers, SequencesExt

CONSTANTS Netlists  \* possible netlists, with the texts asked for

(* A netlist: a record with                                                *)
(*   ports   : cell -> its wires in the order they are printed, each as    *)
(*             often as it is: by most cases of dump_cell_expr what it     *)
(*             drives comes first, but $shiftx prints A before Y, and a    *)
(*             flip-flop its clock, resets, enable and D before Q          *)
(*   outs    : cell -> the positions among them that it drives             *)
(*   auto    : the wires without an hdlname                                *)
(*   drivers : wire -> the cells that drive it, in the order of their pool *)
(*             (invCellToNextSig_)                                         *)
(*   asked   : the calls of get_sig_verilog, in order: the signal, and the *)
(*             files its text goes to.  An intra-phase text goes to the    *)
(*             file of all updates, and to one of its own if the memory is *)
(*             remote (dfg.h:116-201); the texts of dataflow_relation_     *)
(*             localarr go to its file, but that of the read address goes  *)
(*             nowhere (inter_hbi.h:391-437)                               *)
(* A text is asked for a wire without an hdlname, by what drives it.       *)
ASSUME NetlistsAssumption ==
  \A n \in Netlists :
    /\ \A c \in DOMAIN n.ports :
         n.ports[c] \in Seq(ToSet(n.ports[c])) /\ n.outs[c] \subseteq DOMAIN n.ports[c]
    /\ \A w \in DOMAIN n.drivers : n.drivers[w] \in Seq(DOMAIN n.ports)
    /\ n.asked # << >> /\ n.asked \in Seq([sig : n.auto \cap DOMAIN n.drivers, files : SUBSET STRING])

VARIABLES
  net,
  call,      \* number of the call of get_sig_verilog under way
  roots,     \* cells of its cell_pool_addr still to be dumped
  dep_cell,  \* the stack, its top last
  dep_wire,
  fin_cell,
  text,      \* [cells, decl]: what the call has printed
  file       \* file -> [asked, cells, decl]: what was written to it

vars == <<net, call, roots, dep_cell, dep_wire, fin_cell, text, file>>

Calls == 1 .. Len(net.asked)
Files == UNION {net.asked[k].files : k \in Calls}
Blank == [cells |-> << >>, decl |-> << >>]
Drivers(w) == IF w \in DOMAIN net.drivers THEN net.drivers[w] ELSE << >>
WiresOf(c) == ToSet(net.ports[c])

Init ==
  /\ net \in Netlists
  /\ call = 1
  /\ roots = net.drivers[net.asked[1].sig]
  /\ dep_cell = << >> /\ dep_wire = {} /\ fin_cell = {}
  /\ text = Blank
  /\ file = [f \in Files |-> [asked |-> {}, cells |-> {}, decl |-> {}]]

-----------------------------------------------------------------------------
(* dump_cell_expr, through dump_sigspec and dump_sigchunk: the drivers of  *)
(* each wire are pushed, as often as the wire is printed, wire by wire: a  *)
(* slot <<i, j>> is driver j of wire i.                                    *)
Driver(c, s) == net.drivers[net.ports[c][s[1]]][s[2]]
Slots(c) ==
  {s \in UNION {{i} \X DOMAIN Drivers(net.ports[c][i]) : i \in DOMAIN net.ports[c]} :
     net.ports[c][s[1]] \in net.auto /\ Driver(c, s) \notin fin_cell}
Earlier(S, s) == {t \in S : t[1] < s[1] \/ (t[1] = s[1] /\ t[2] < s[2])}
InOrder(c, S) ==
  [n \in 1 .. Cardinality(S) |-> Driver(c, CHOOSE s \in S : Cardinality(Earlier(S, s)) = n - 1)]
MutPushed(c) == InOrder(c, {s \in Slots(c) : s[1] = 1})  \* mutant: the drivers of the first wire alone
Pushed(c) == InOrder(c, Slots(c))

(* Prints c on top of what is on the stack. *)
MutDumpCellExpr(c, cells) ==  \* mutant: wires with an hdlname are declared as well
  /\ dep_cell' = cells \o Pushed(c)
  /\ dep_wire' = dep_wire \cup WiresOf(c)
  /\ fin_cell' = fin_cell \cup {c}
  /\ text' = [text EXCEPT !.cells = Append(@, c)]
DumpCellExpr(c, cells) ==
  /\ dep_cell' = cells \o Pushed(c)
  /\ dep_wire' = dep_wire \cup (WiresOf(c) \cap net.auto)
  /\ fin_cell' = fin_cell \cup {c}
  /\ text' = [text EXCEPT !.cells = Append(@, c)]

(* verilog_dump_cell for the next root, which is printed in any case. *)
DumpRoot ==
  /\ roots # << >> /\ dep_cell = << >> /\ dep_wire = {}
  /\ roots' = Tail(roots)
  /\ DumpCellExpr(Head(roots), << >>)
  /\ UNCHANGED <<net, call, file>>

(* Its loop.  A cell that is popped is printed as long as another one is   *)
(* on the stack below it: the one pushed first never is.  That is the root *)
(* itself if its output is printed first; if an input is, its driver.      *)
Top == Last(dep_cell)
MutDumpNext ==  \* mutant: fin_cell is not looked up
  /\ Len(dep_cell) > 1
  /\ DumpCellExpr(Top, Front(dep_cell))
  /\ UNCHANGED <<net, call, roots, file>>
DumpNext ==
  /\ Len(dep_cell) > 1 /\ Top \notin fin_cell
  /\ DumpCellExpr(Top, Front(dep_cell))
  /\ UNCHANGED <<net, call, roots, file>>

MutSkipNext ==  \* mutant: not popped
  /\ Len(dep_cell) > 1 /\ Top \in fin_cell
  /\ UNCHANGED vars
SkipNext ==
  /\ Len(dep_cell) > 1 /\ Top \in fin_cell
  /\ dep_cell' = Front(dep_cell)
  /\ UNCHANGED <<net, call, roots, dep_wire, fin_cell, text, file>>

(* The wires named are declared. *)
MutDumpWires ==  \* mutant: cleared before they are declared
  /\ Len(dep_cell) <= 1 /\ dep_wire # {}
  /\ dep_cell' = << >> /\ dep_wire' = {}
  /\ UNCHANGED <<net, call, roots, fin_cell, text, file>>
DumpWires ==
  /\ Len(dep_cell) <= 1 /\ dep_wire # {}
  /\ text' = [text EXCEPT !.decl = @ \o SetToSeq(dep_wire)]
  /\ dep_cell' = << >> /\ dep_wire' = {}
  /\ UNCHANGED <<net, call, roots, fin_cell, file>>

(* The end of get_sig_verilog, and the next call.  The lines are written   *)
(* in reverse, which puts the declarations first. *)
EndCall ==
  /\ roots = << >> /\ dep_wire = {} /\ call \in Calls
  /\ file' = [f \in Files |->
                IF f \in net.asked[call].files
                THEN [asked |-> file[f].asked \cup {net.asked[call].sig},
                      cells |-> file[f].cells \cup ToSet(text.cells),
                      decl |-> file[f].decl \cup ToSet(text.decl)]
                ELSE file[f]]
  /\ call' = call + 1
  /\ roots' = IF call < Len(net.asked) THEN Drivers(net.asked[call + 1].sig) ELSE << >>
  /\ text' = Blank
  /\ UNCHANGED <<net, dep_cell, dep_wire, fin_cell>>

Next == DumpRoot \/ DumpNext \/ SkipNext \/ DumpWires \/ EndCall

Spec == Init /\ [][Next]_vars
FairSpec == Spec /\ WF_vars(Next)

-----------------------------------------------------------------------------
Ended == call = Len(net.asked) + 1
Cells == DOMAIN net.ports

(* Type invariant; only auto wires are ever declared. *)
TypeOK ==
  /\ call \in 1 .. Len(net.asked) + 1
  /\ ToSet(roots) \cup ToSet(dep_cell) \cup fin_cell \subseteq Cells
  /\ dep_wire \subseteq net.auto
  /\ text.cells \in Seq(Cells) /\ ToSet(text.decl) \subseteq net.auto
  /\ \A f \in Files : /\ file[f].asked \subseteq DOMAIN net.drivers
                      /\ file[f].cells \subseteq Cells /\ file[f].decl \subseteq net.auto

(* The cells whose text gives value to wires ws: their drivers, and behind *)
(* auto wires the drivers of those. *)
Inputs(c) == {net.ports[c][i] : i \in DOMAIN net.ports[c] \ net.outs[c]}
DriversOf(ws) == UNION {ToSet(Drivers(w)) : w \in ws}
Behind(ws, feeds) ==
  {c \in Cells : \A S \in SUBSET Cells :
                   DriversOf(ws) \subseteq S /\ (\A d \in S : DriversOf(feeds[d]) \subseteq S) => c \in S}
Cone(ws) == Behind(ws, [c \in Cells |-> Inputs(c) \cap net.auto])

(* What root c may leave at the bottom of the stack: the driver of an auto *)
(* input that it prints before any auto wire of its own, if c prints no    *)
(* other auto wire of that driver.                                         *)
MayLose(c) ==
  {d \in Cells : \E i \in DOMAIN net.ports[c] \ net.outs[c] :
     /\ net.ports[c][i] \in net.auto /\ d \in ToSet(Drivers(net.ports[c][i]))
     /\ \A j \in DOMAIN net.ports[c] : net.ports[c][j] \in net.auto =>
          /\ j < i => c \notin ToSet(Drivers(net.ports[c][j]))
          /\ j # i => d \notin ToSet(Drivers(net.ports[c][j]))}

(* A text prints all drivers of its signal, and what feeds a cell that was *)
(* printed has been printed, but for one driver of a root: the one left at *)
(* the bottom of the stack.                                                *)
Roots(k) == ToSet(Drivers(net.asked[k].sig))
Lacks(c) == DriversOf(Inputs(c) \cap net.auto) \ fin_cell
BottomLost ==
  /\ \A k \in 1 .. call : Roots(k) \subseteq fin_cell
  /\ \A c \in fin_cell : Lacks(c) # {} =>
       (\E k \in 1 .. call : c \in Roots(k)) /\ \E d \in MayLose(c) : Lacks(c) = {d}

(* Behind a signal nothing is missing from all that was printed, unless a  *)
(* root among it, of whatever text, may lose a driver.                     *)
LosesNothing(k, ks) == \A j \in ks : \A c \in Roots(j) \cap Cone({net.asked[k].sig}) : MayLose(c) = {}
ConesWhole ==
  \A k \in 1 .. call : LosesNothing(k, 1 .. call) => Cone({net.asked[k].sig}) \subseteq fin_cell

(* No text prints a cell or declares a wire twice, if one cell drives its  *)
(* signal.                                                                 *)
PrintedOnce ==
  Len(Drivers(net.asked[call].sig)) = 1 => IsInjective(text.cells) /\ IsInjective(text.decl)

(* Whatever texts came before, when a call returns only the driver at the  *)
(* bottom of a root's stack is lost, and nothing of what was passed over   *)
(* because fin_cell has it.                                                *)
ConesPrinted ==
  roots = << >> /\ dep_wire = {} /\ call \in Calls => BottomLost /\ ConesWhole /\ PrintedOnce

(* A file declares every auto wire in it.  It is complete, with the cones  *)
(* of the signals it is about, if no root of these signals may lose a      *)
(* driver and nothing behind them was printed for other files only.  A     *)
(* text may print more than a cone: what else drives the other outputs of  *)
(* its cells.                                                              *)
Printed(k) == Behind({net.asked[k].sig}, [c \in Cells |-> WiresOf(c) \cap net.auto])
FilesComplete ==
  Ended =>
    \A f \in Files :
      LET mine == {k \in Calls : f \in net.asked[k].files}
          others == {k \in Calls \ mine : \E j \in mine : k < j}
      IN /\ (UNION {WiresOf(c) : c \in file[f].cells}) \cap net.auto \subseteq file[f].decl
         /\ /\ \A k \in mine : \A c \in Roots(k) : MayLose(c) = {}
            /\ \A k \in others : Printed(k) \cap Cone(file[f].asked) = {}
            => Cone(file[f].asked) \subseteq file[f].cells

(* Every text ends, also where the logic has cycles. *)
ConesEnd == <>Ended

(* Each file can be given to the checker by itself. *)
FilesSelfContained == Ended => \A f \in Files : Cone(file[f].asked) \subseteq file[f].cells
=============================================================================
