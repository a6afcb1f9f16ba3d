------------------------------- MODULE MCCdfg -------------------------------
(* Small netlists; cells are named after their outputs where they can be.  *)
EXTENDS Cdfg, TLC

(* Registers of a pipeline behind cells that feed each other (g, h) and    *)
(* meet again, a driven wire, a shift register, and a module left as it    *)
(* is, whose wires are ignored. *)
Loops ==
  [wire |-> {"a", "b", "c", "sh", "g", "h", "gd", "x"},
   kind |-> ("ra" :> "reg" @@ "rb" :> "reg" @@ "rc" :> "reg" @@ "rsh" :> "reg"
             @@ "cg" :> "comb" @@ "ch" :> "comb" @@ "core" :> "custom"),
   in |-> ("ra" :> {"h", "x"} @@ "rb" :> {"gd"} @@ "rc" :> {"h"} @@ "rsh" :> {"sh", "a"}
           @@ "cg" :> {"a", "h"} @@ "ch" :> {"g", "b"} @@ "core" :> {"c"}),
   out |-> ("ra" :> {"a"} @@ "rb" :> {"b"} @@ "rc" :> {"c"} @@ "rsh" :> {"sh"}
            @@ "cg" :> {"g"} @@ "ch" :> {"h"} @@ "core" :> {"x"}),
   conn |-> {<<"g", "gd">>},
   port |-> << >>, rd |-> << >>, clocked |-> {}]

(* A memory whose data, behind a cell, are written back to it together     *)
(* with its address, and into a register. *)
Update ==
  [wire |-> {"a", "b", "d", "g", "k"},
   kind |-> ("ra" :> "reg" @@ "rb" :> "reg" @@ "m" :> "mem" @@ "cg" :> "comb" @@ "ck" :> "comb"),
   in |-> ("ra" :> {"g"} @@ "rb" :> {"k"} @@ "m" :> {"a", "b", "g"} @@ "cg" :> {"d", "a", "k"} @@ "ck" :> {"b"}),
   out |-> ("ra" :> {"a"} @@ "rb" :> {"b"} @@ "m" :> {"d"} @@ "cg" :> {"g"} @@ "ck" :> {"k"}),
   conn |-> {},
   port |-> ("m" :> {<<"RD_ADDR", "a">>, <<"WR_ADDR", "b">>, <<"WR_DATA", "g">>, <<"WR_EN", "b">>}),
   rd |-> ("m" :> <<[addr |-> "a", data |-> "d"]>>), clocked |-> {}]

(* A register file with two read ports: one feeds a register directly and  *)
(* through a cell, the other the write data of a buffer. *)
Files ==
  [wire |-> {"a", "b", "c", "d1", "d2", "e", "g", "h"},
   kind |-> ("ra" :> "reg" @@ "rb" :> "reg" @@ "rc" :> "reg" @@ "m" :> "mem" @@ "n" :> "mem"
             @@ "cg" :> "comb" @@ "ch" :> "comb"),
   in |-> ("ra" :> {"h"} @@ "rb" :> {"d1"} @@ "rc" :> {"b"} @@ "m" :> {"a", "c"} @@ "n" :> {"a", "g"}
           @@ "cg" :> {"d2"} @@ "ch" :> {"d1", "e"}),
   out |-> ("ra" :> {"a"} @@ "rb" :> {"b"} @@ "rc" :> {"c"} @@ "m" :> {"d1", "d2"} @@ "n" :> {"e"}
            @@ "cg" :> {"g"} @@ "ch" :> {"h"}),
   conn |-> {},
   port |-> ("m" :> {<<"RD_ADDR", "a">>, <<"RD_ADDR", "c">>} @@ "n" :> {<<"RD_ADDR", "a">>, <<"WR_DATA", "g">>, <<"WR_CLK", "a">>}),
   rd |-> ("m" :> <<[addr |-> "a", data |-> "d1"], [addr |-> "c", data |-> "d2"]>>
           @@ "n" :> <<[addr |-> "a", data |-> "e"]>>),
   clocked |-> {}]

(* A memory copied into another one, which has a synchronous port. *)
Copied ==
  [wire |-> {"a", "d", "e"},
   kind |-> ("ra" :> "reg" @@ "m" :> "mem" @@ "n" :> "mem"),
   in |-> ("ra" :> {"e"} @@ "m" :> {"a"} @@ "n" :> {"a", "d"}),
   out |-> ("ra" :> {"a"} @@ "m" :> {"d"} @@ "n" :> {"e"}),
   conn |-> {},
   port |-> ("m" :> {<<"RD_ADDR", "a">>} @@ "n" :> {<<"RD_ADDR", "a">>, <<"RD_EN", "a">>, <<"WR_DATA", "d">>}),
   rd |-> ("m" :> <<[addr |-> "a", data |-> "d"]>> @@ "n" :> <<[addr |-> "a", data |-> "e"]>>),
   clocked |-> {"n"}]

(* A memory with two read ports for one address. *)
Twice ==
  [wire |-> {"a", "b", "d1", "d2", "g"},
   kind |-> ("ra" :> "reg" @@ "rb" :> "reg" @@ "m" :> "mem" @@ "cg" :> "comb"),
   in |-> ("ra" :> {"g"} @@ "rb" :> {"d1"} @@ "m" :> {"a", "b"} @@ "cg" :> {"d2"}),
   out |-> ("ra" :> {"a"} @@ "rb" :> {"b"} @@ "m" :> {"d1", "d2"} @@ "cg" :> {"g"}),
   conn |-> {},
   port |-> ("m" :> {<<"RD_ADDR", "a">>, <<"WR_DATA", "b">>}),
   rd |-> ("m" :> <<[addr |-> "a", data |-> "d1"], [addr |-> "a", data |-> "d2"]>>),
   clocked |-> {}]

(* Every way to wire two registers and two cells, a cell taking one or two *)
(* wires. *)
Small ==
  LET wires == {"a", "b", "g", "h"}
      pairs == {{s, t} : s, t \in wires}
  IN {[wire |-> wires,
       kind |-> ("ra" :> "reg" @@ "rb" :> "reg" @@ "cg" :> "comb" @@ "ch" :> "comb"),
       in |-> ("ra" :> {da} @@ "rb" :> {db} @@ "cg" :> ig @@ "ch" :> ih),
       out |-> ("ra" :> {"a"} @@ "rb" :> {"b"} @@ "cg" :> {"g"} @@ "ch" :> {"h"}),
       conn |-> {}, port |-> << >>, rd |-> << >>, clocked |-> {}]
      : da, db \in wires, ig, ih \in pairs}

(* Every way to wire two registers, a cell and a memory whose data do not  *)
(* go straight into it. *)
SmallMem ==
  LET wires == {"a", "b", "d", "g"}
      pairs == {{s, t} : s, t \in wires}
  IN {[wire |-> wires,
       kind |-> ("ra" :> "reg" @@ "rb" :> "reg" @@ "cg" :> "comb" @@ "m" :> "mem"),
       in |-> ("ra" :> {da} @@ "rb" :> {db} @@ "cg" :> ig @@ "m" :> {ra, wd}),
       out |-> ("ra" :> {"a"} @@ "rb" :> {"b"} @@ "cg" :> {"g"} @@ "m" :> {"d"}),
       conn |-> {},
       port |-> ("m" :> {<<"RD_ADDR", ra>>, <<"WR_DATA", wd>>}),
       rd |-> ("m" :> <<[addr |-> ra, data |-> "d"]>>), clocked |-> {}]
      : da, db \in wires, ig \in pairs, ra, wd \in wires \ {"d"}}

MCNetlists == {Loops, Update, Files, Copied, Twice} \cup Small \cup SmallMem

(* Read data taken by a register, and that register by another one. *)
Direct ==
  [wire |-> {"a", "b", "c", "d", "g"},
   kind |-> ("ra" :> "reg" @@ "rb" :> "reg" @@ "rc" :> "reg" @@ "m" :> "mem" @@ "cg" :> "comb"),
   in |-> ("ra" :> {"g"} @@ "rb" :> {"d"} @@ "rc" :> {"b"} @@ "m" :> {"a", "c"} @@ "cg" :> {"c"}),
   out |-> ("ra" :> {"a"} @@ "rb" :> {"b"} @@ "rc" :> {"c"} @@ "m" :> {"d"} @@ "cg" :> {"g"}),
   conn |-> {},
   port |-> ("m" :> {<<"RD_ADDR", "a">>, <<"WR_DATA", "c">>}),
   rd |-> ("m" :> <<[addr |-> "a", data |-> "d"]>>),
   clocked |-> {}]
MCReadNetlists == {Direct}
=============================================================================
