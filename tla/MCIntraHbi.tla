----------------------------- MODULE MCIntraHbi -----------------------------
(* Small netlists in the shape of vscale, behind the instruction register. *)
EXTENDS IntraHbi, TLC

(* Three stages and two PC registers, edges back (one to the register that *)
(* the PC feeds) and one within a stage; memory read in the second stage.  *)
Pipe ==
  [instns |-> 1, instn |-> "ir",
   diff |-> ("pc" :> 0 @@ "ir" :> 0 @@ "op" :> 1 @@ "pc1" :> 1 @@ "wb" :> 2 @@ "mem" :> 2 @@ "rd" :> 3),
   mems |-> {"mem"}, local |-> {"pc", "ir", "op", "pc1", "wb", "rd"},
   reg_reg |-> {<<"pc", "pc">>, <<"pc", "pc1">>, <<"ir", "ir">>, <<"ir", "op">>, <<"op", "op">>, <<"op", "wb">>,
                <<"wb", "op">>, <<"wb", "pc1">>, <<"wb", "rd">>},
   reg_mem |-> {<<"op", "mem">>, <<"wb", "mem">>},
   rdport |-> {<<"mem", "op", "rd">>}, wrport |-> {},
   pcrs |-> 2]

(* A register file read by the first stage and written from memory, and a  *)
(* buffer written by the instruction register itself.                      *)
Files ==
  [instns |-> 1, instn |-> "ir", diff |-> ("ir" :> 0 @@ "op" :> 1 @@ "buf" :> 1 @@ "mem" :> 2 @@ "rf" :> 2),
   mems |-> {"buf", "mem", "rf"}, local |-> {"ir", "op", "rf"},
   reg_reg |-> {<<"ir", "op">>, <<"op", "op">>},
   reg_mem |-> {<<"ir", "buf">>, <<"op", "mem">>, <<"op", "rf">>},
   rdport |-> {<<"rf", "ir", "op">>, <<"buf", "ir", "op">>}, wrport |-> {<<"mem", "op", "rf">>},
   pcrs |-> 2]

(* Two instruction types. *)
Types ==
  [instns |-> 2, instn |-> "ir", diff |-> ("ir" :> 0 @@ "op" :> 1 @@ "wb" :> 2 @@ "mem" :> 2),
   mems |-> {"mem"}, local |-> {"ir", "op", "wb"},
   reg_reg |-> {<<"ir", "op">>, <<"op", "wb">>},
   reg_mem |-> {<<"op", "mem">>},
   rdport |-> {<<"mem", "op", "wb">>}, wrport |-> {},
   pcrs |-> 2]

MCNetlists == {Pipe, Files, Types}
=============================================================================
