----------------------------- MODULE MCInterPhase -----------------------------
(* Designs of two stages; a load observes the data memory at one register, *)
(* so every chain of protocol files is about one pair of nodes.            *)
EXTENDS InterPhase

Rd(d) == [dep |-> d, write |-> FALSE]
Wr(d) == [dep |-> d, write |-> TRUE]

StoreLoad ==
  [uhb   |-> << <<{"op"}, {"mem"}>>, <<{"op"}, {"rd", "wb"}>> >>,
   loc   |-> << [mem |-> {Wr(2)}], [mem |-> {Rd(1)}] >>,
   down  |-> << [mem |-> {}], [mem |-> {"rd"}] >>,
   local |-> {"op", "rd", "wb"},
   core_req |-> {"mem"},
   pcrs  |-> 2]

(* One instruction type that only writes a local array: nothing to check.  *)
Nothing ==
  [uhb |-> << <<{"regs"}>> >>, loc |-> << [regs |-> {Wr(1)}] >>, down |-> << [regs |-> {}] >>,
   local |-> {"regs"}, core_req |-> {}, pcrs |-> 2]

MCDesigns == {StoreLoad, Nothing}

(* The load feeds two registers: four pairs of nodes share a chain.        *)
MCFanoutDesigns == {[StoreLoad EXCEPT !.uhb[2][2] = {"rd", "rx"}, !.down[2].mem = {"rd", "rx"}]}
=============================================================================
