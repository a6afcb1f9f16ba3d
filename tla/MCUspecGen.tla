----------------------------- MODULE MCUspecGen -----------------------------
(* Small designs in the shape of vscale: a store (1) and a load (2), one   *)
(* data memory shared by the cores, a register file local to each.         *)
EXTENDS UspecGen

Rd(d) == [dep |-> d, write |-> FALSE]
Wr(d) == [dep |-> d, write |-> TRUE]

(* The register file feeds the operands of both; memory feeds the register *)
(* file; the write address is a register shared by the cores, updated by   *)
(* the store alone.                                                        *)
Vscale ==
  [uhb   |-> << <<{"opA", "opB", "waddr"}, {"mem", "csr"}>>, <<{"opA", "opB"}, {"regs", "csr"}>> >>,
   loc   |-> << [mem |-> {Wr(2)}, regs |-> {Rd(0)}], [mem |-> {Rd(1)}, regs |-> {Rd(0), Wr(2)}] >>,
   down  |-> << [mem |-> {}, regs |-> {"opA", "opB", "waddr"}], [mem |-> {"regs"}, regs |-> {"opA", "opB"}] >>,
   local |-> {"opA", "opB", "regs", "csr"},
   core_req |-> {"mem"},
   pcrs  |-> 2]

(* No register file, and a store with a stage more than the load; memory   *)
(* feeds one of the two registers the load updates.                        *)
Wide ==
  [uhb   |-> << <<{"opA", "opB", "opC"}, {"stA", "stB", "wb"}, {"mem"}>>, <<{"opA", "opB", "opC"}, {"rd", "rx"}>> >>,
   loc   |-> << [mem |-> {Wr(3)}], [mem |-> {Rd(1)}] >>,
   down  |-> << [mem |-> {}], [mem |-> {"rd"}] >>,
   local |-> {"opA", "opB", "opC", "stA", "rd", "rx"},
   core_req |-> {"mem"},
   pcrs  |-> 2]

(* Both update a register that takes no operand; a third instruction type  *)
(* updates nothing.                                                        *)
Imm ==
  [Vscale EXCEPT !.uhb = << <<{"opA", "imm"}, {"mem"}>>, <<{"opA", "imm"}, {"regs"}>>, << >> >>,
                 !.loc = Append(@, << >>),
                 !.down = << [mem |-> {}, regs |-> {"opA"}], [mem |-> {"regs"}, regs |-> {"opA"}], << >> >>,
                 !.local = {"opA", "imm", "regs"}]
MCDesigns == {Vscale, Wide, Imm}

(* A register shared by the cores that only the load updates. *)
MCLoadAddrDesigns == {[Vscale EXCEPT !.uhb[2][1] = {"opA", "opB", "raddr"}]}
=============================================================================
