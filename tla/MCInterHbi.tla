----------------------------- MODULE MCInterHbi -----------------------------
(* Small designs in the shape of vscale: a store (1) and a load (2), one   *)
(* data memory shared by the cores, a register file local to each.         *)
EXTENDS InterHbi

Rd(d) == [dep |-> d, write |-> FALSE]
Wr(d) == [dep |-> d, write |-> TRUE]

(* Two PC registers and three stages, so the last two share the last PC    *)
(* register; the load feeds two registers from memory, and writes the      *)
(* register file two stages after it reads it.                             *)
Vscale ==
  [uhb   |-> << <<{"opA"}, {"mem", "wb"}, {"st"}>>, <<{"opA", "opB"}, {"wb", "regs"}, {"rd", "rx"}>> >>,
   loc   |-> << [mem |-> {Wr(2)}], [mem |-> {Rd(2)}, regs |-> {Rd(0), Wr(2)}] >>,
   down  |-> << [mem |-> {}], [mem |-> {"rd", "rx"}, regs |-> {"opA"}] >>,
   local |-> {"opA", "opB", "wb", "regs", "rd", "rx", "st"},
   core_req |-> {"mem"},
   pcrs  |-> 2]

(* Smaller variants: a third PC register; and the register file written    *)
(* past the last PC register, read past it, or written before it is read;  *)
(* and a data memory whose protocol is not described.                      *)
Small == [Vscale EXCEPT !.uhb = << <<{"opA"}, {"mem"}>>, <<{"opA"}, {"regs"}, {"rd", "rx"}>> >>]
ThreePcrs  == [Vscale EXCEPT !.pcrs = 3]
LateWrite  == [Small EXCEPT !.uhb[2] = <<{"opA"}, {"wb"}, {"rd", "regs"}>>,
                            !.loc[2].regs = {Rd(0), Wr(3)}]
LateRead   == [Small EXCEPT !.loc[2].regs = {Rd(2), Wr(2)}, !.down[2].regs = {"rd"}]
EarlyWrite == [Small EXCEPT !.uhb[2] = <<{"opA", "regs"}, {"wb"}, {"rd", "rx"}>>,
                            !.loc[2].regs = {Rd(2), Wr(1)}, !.down[2].regs = {"rd"}]
NoProtocol == [Small EXCEPT !.core_req = {}]

(* For a second execution of the pass: fewer orders of the loops.          *)
MCRerunDesigns == {[Small EXCEPT !.uhb[1] = <<{"opA"}, {"mem", "st"}>>, !.uhb[2] = <<{"opA"}, {"rd", "wb"}>>,
                                 !.loc[2] = [mem |-> {Rd(1)}], !.down[2] = [mem |-> {"rd"}]]}

MCDesigns == {Vscale, ThreePcrs, LateWrite, LateRead, EarlyWrite, NoProtocol} \cup MCRerunDesigns
=============================================================================
