---------------------------- MODULE MCVerilogCone ----------------------------
(* Small netlists behind the write ports of memories.                      *)
EXTENDS VerilogCone, TLC

(* Every way to wire three cells, two of them behind the signals "x" and   *)
(* "y" that are asked for; cell "cz" may drive a wire together with "cy".  *)
(* "n" is a wire with an hdlname.                                          *)
Inner == {"x", "y", "z"}
Singles == {<<s>> : s \in Inner \cup {"n"}}
Ins == Singles \cup {<<s, t>> : s, t \in Inner}
Orders == {<<"cy", "cz">>, <<"cz", "cy">>}

(* The orders of printing: the output first, last (a flip-flop), or after  *)
(* the first input ($shiftx).  An input may be printed twice.              *)
Ports(w, ins, at) == SubSeq(ins, 1, at - 1) \o <<w>> \o SubSeq(ins, at, Len(ins))
Cell(w, ins, at) == [ports |-> Ports(w, ins, at), outs |-> {at}]
OutputFirst(w) == {Cell(w, ins, 1) : ins \in Ins}
AnyOrder(w) == UNION {{Cell(w, ins, at) : at \in 1 .. Len(ins) + 1} : ins \in Ins}
Clocked(w) == {Cell(w, ins, 2) : ins \in Singles}
Third(outs) == {[ports |-> outs \o ins, outs |-> DOMAIN outs] : ins \in Ins}

(* The texts: an enable and an address for the file of updates and that of *)
(* a remote memory; then a second memory's, and those of a local array.    *)
One == <<[sig |-> "x", files |-> {"updates", "remote_0"}], [sig |-> "y", files |-> {"updates", "remote_0"}]>>
Two == <<[sig |-> "x", files |-> {"updates", "remote_0"}], [sig |-> "y", files |-> {"updates", "remote_1"}]>>
Array == <<[sig |-> "x", files |-> {"array_0"}], [sig |-> "y", files |-> {}],
           [sig |-> "z", files |-> {"array_1"}]>>

Wired(X, Y) ==
  {[ports |-> [cx |-> x.ports, cy |-> y.ports, cz |-> z.ports],
    outs |-> [cx |-> x.outs, cy |-> y.outs, cz |-> z.outs],
    auto |-> Inner,
    drivers |-> [x |-> <<"cx">>, y |-> IF 2 \in z.outs THEN yo ELSE <<"cy">>, z |-> <<"cz">>],
    asked |-> asked]
   : x \in X, y \in Y, z \in Third(<<"z">>) \cup Third(<<"y", "z">>), yo \in Orders,
     asked \in {One, Two, Array}}

MCNetlists == Wired(AnyOrder("x"), OutputFirst("y") \cup Clocked("y"))

(* Cells that print their outputs first.                                   *)
MCOutputFirst == Wired(OutputFirst("x"), OutputFirst("y"))
=============================================================================
