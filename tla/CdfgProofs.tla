----------------------------- MODULE CdfgProofs -----------------------------
(***************************************************************************)
(* The netlist analysis is right for every netlist and every order in      *)
(* which its hash tables are walked: what it records is connected, and     *)
(* what is connected through cells alone is recorded.  MCCdfg checks the   *)
(* same invariants on small netlists.                                      *)
(***************************************************************************)
EXTENDS Cdfg, SequenceTheorems, WellFoundedInduction, TLAPS
LOCAL INSTANCE FiniteSetsExt

WalkSteps == StepsOf(net, Comb) \cup ReadSteps(net)
MemSteps == WalkSteps \cup AnyReadSteps(net)
CombSteps == StepsOf(net, Comb \cap Plain(net))

(* Wires that a walk from cell c may get to, and what it may record of c.  *)
OnWalk(c, s) == \E t \in CellToNextSig(net, c) : <<t, s>> \in WalkReach
FlowRegs(c) == CellsBehind(WalkReach, CellToNextSig(net, c)) \cap Regs
FlowWrites(c) == WritesBehind(MemReach, CellToNextSig(net, c))

(* What it has to record: what is behind cells alone, but for the write    *)
(* ports of memories that are read on the way.                             *)
ReadOnWalk(c) == {m \in Mems : \E s \in net.wire : OnWalk(c, s) /\ OnReadPort(net, m, s)}
CombRegs(c) == CellsBehind(CombReach, CellToNextSig(net, c)) \cap Regs
CombWrites(c) == {w \in WritesBehind(CombReach, CellToNextSig(net, c)) : w.mem \notin ReadOnWalk(c)}

(* The calls of dfs_visit are on a walk from the cell walked from. *)
GoodFrames ==
  {f \in Frames : /\ OnWalk(origin, f.sig) /\ f.cells \subseteq CellsDown(net, f.sig)
                  /\ \A s \in f.sigs : OnWalk(origin, s)}
WalkInv ==
  /\ net \in Netlists /\ stage \in {"walk", "mems", "end", "abort"}
  /\ done \subseteq Cells /\ origin \in Cells \cup {None}
  /\ visiting \subseteq net.wire /\ visited \subseteq net.wire
  /\ stack \in Seq(GoodFrames)
  /\ origin = None => stack = << >> /\ outs = {}
  /\ origin # None => origin \notin done /\ outs \subseteq DownSigs(net, origin)
  /\ stage # "walk" => origin = None /\ done = Cells

(* What is recorded of a cell is connected to it. *)
SoundInv ==
  /\ downRegs \in [Cells -> SUBSET Regs] /\ downMems \in [Cells -> SUBSET WritePorts]
  /\ \A c \in Cells : downRegs[c] \subseteq FlowRegs(c) /\ downMems[c] \subseteq FlowWrites(c)
  /\ \A m \in Mems : downRegs[m] = {}

(* A cell at a wire has been taken: what it is is recorded, and so is what *)
(* is known of it, or its outputs have been or are still to be visited.    *)
Seen(s) == s \in visited \cup visiting
Pending(c, s) == \E i \in 1 .. Len(stack) : stack[i].cell = c /\ s \in stack[i].sigs
Entered(c) ==
  \/ /\ c \in done /\ downRegs[c] \subseteq downRegs[origin] /\ downMems[c] \subseteq downMems[origin]
     /\ ReadOnWalk(c) \subseteq ReadOnWalk(origin)
  \/ \A s \in CellToNextSig(net, c) : Seen(s) \/ Pending(c, s)
Taken(s, c) ==
  /\ c \in Regs => c \in downRegs[origin]
  /\ c \in Mems => WritesOf(net, c, s) \subseteq downMems[origin] \/ c \in ReadOnWalk(origin)
  /\ c \in Comb \cap Plain(net) => Entered(c)

(* Every cell at a wire that was visited has been taken; of the calls that *)
(* are still under way, those that are not left to be taken have been.     *)
Complete(c) == c \in Plain(net) \ Mems => CombRegs(c) \subseteq downRegs[c] /\ CombWrites(c) \subseteq downMems[c]
Inside(i) == i < Len(stack) \/ stack[i].sigs # {}
CompleteInv ==
  /\ \A c \in done : Complete(c)
  /\ origin \in Plain(net) \ Mems =>
       /\ \A s \in CellToNextSig(net, origin) : Seen(s) \/ s \in outs
       /\ \A s \in visiting : CellsDown(net, s) = {} \/ \E i \in 1 .. Len(stack) : stack[i].sig = s
       /\ \A s \in visited : \A c \in CellsDown(net, s) : Taken(s, c)
       /\ \A i \in 1 .. Len(stack) :
            /\ \A c \in CellsDown(net, stack[i].sig) \ stack[i].cells : Taken(stack[i].sig, c)
            /\ Inside(i) => /\ stack[i].cell \in ((Comb \cup Mems) \cap CellsDown(net, stack[i].sig)) \ stack[i].cells
                            /\ stack[i].cell \in Mems => OnReadPort(net, stack[i].cell, stack[i].sig)

(* The relations, as far as they have been entered. *)
ReadPort(m, i) == [mem |-> m, addr |-> net.rd[m][i].addr]
ResultInv ==
  /\ stage = "walk" => /\ regReg = [r \in Regs |-> {}] /\ todo = Mems
                       /\ upRdport = [r \in Regs |-> {}] /\ rdToWr = << >>
  /\ stage # "walk" => regReg = [r \in Regs |-> downRegs[r]]
  /\ stage # "end" => regMem = [r \in Regs |-> {}]
  /\ stage = "end" => /\ regMem = [r \in Regs |-> {p \in downMems[r] : p.port # "WR_CLK"}]
                      /\ todo = {}
  /\ todo \subseteq Mems /\ \A m \in Mems \ todo : Supported(m)
  /\ upRdport \in [Regs -> SUBSET ReadPorts]
  /\ \A r \in Regs : \A from \in ReadPorts : from \in upRdport[r] <=>
       \E m \in Mems \ todo : \E i \in DOMAIN net.rd[m] : from = ReadPort(m, i) /\ r \in DataRegs(m, i)
  /\ \A t \in DOMAIN rdToWr : \E m \in Mems \ todo : \E i \in DOMAIN net.rd[m] :
       rdToWr[t] = ReadPort(m, i) /\ t \in DataMems(m, i)

IInv == WalkInv /\ SoundInv /\ CompleteInv /\ ResultInv

-----------------------------------------------------------------------------
(* What is connected along steps: every wire to itself, one step further,  *)
(* and along two connections; by more steps, no less.                      *)
LEMMA ReachFacts ==
  ASSUME NEW n, NEW steps, NEW s \in n.wire, NEW t \in n.wire
  PROVE  /\ <<s, t>> \in Reach(n, steps) <=> \A S \in Closed(n, steps) : s \in S => t \in S
         /\ <<s, s>> \in Reach(n, steps)
         /\ \A u \in n.wire : <<s, t>> \in Reach(n, steps) /\ <<t, u>> \in steps => <<s, u>> \in Reach(n, steps)
         /\ \A u \in n.wire : <<s, t>> \in Reach(n, steps) /\ <<t, u>> \in Reach(n, steps)
                                => <<s, u>> \in Reach(n, steps)
<1>1. ASSUME NEW st, NEW x \in n.wire, NEW y \in n.wire
      PROVE  <<x, y>> \in Reach(n, st) <=> \A S \in Closed(n, st) : x \in S => y \in S
  <2>1. <<x, y>> \in Apart(n, st) <=> \E S \in Closed(n, st) : x \in S /\ y \in n.wire \ S
    BY DEF Apart
  <2> QED
    BY <2>1 DEF Reach
<1>2. ASSUME NEW u \in n.wire, <<s, t>> \in Reach(n, steps), <<t, u>> \in steps
      PROVE  <<s, u>> \in Reach(n, steps)
  BY <1>1, <1>2 DEF Closed
<1>3. ASSUME NEW u \in n.wire, <<s, t>> \in Reach(n, steps), <<t, u>> \in Reach(n, steps)
      PROVE  <<s, u>> \in Reach(n, steps)
  BY <1>1, <1>3
<1> QED
  BY <1>1, <1>2, <1>3

(* More steps reach no less. *)
LEMMA ReachMore ==
  ASSUME NEW n, NEW steps, NEW more, steps \subseteq more
  PROVE  Reach(n, steps) \subseteq Reach(n, more)
<1>1. Closed(n, more) \subseteq Closed(n, steps)
  BY DEF Closed
<1>2. Apart(n, more) \subseteq Apart(n, steps)
  BY <1>1 DEF Apart
<1> QED
  BY <1>2 DEF Reach

(* What is known of a netlist. *)
LEMMA NetFacts ==
  ASSUME net \in Netlists
  PROVE  /\ None \notin Cells
         /\ \A c \in Cells : /\ CellToNextSig(net, c) \subseteq net.wire
                             /\ DownSigs(net, c) \subseteq CellToNextSig(net, c)
                             /\ c \in Plain(net) => DownSigs(net, c) = CellToNextSig(net, c)
         /\ \A s : CellsDown(net, s) \subseteq Cells
         /\ \A m \in Mems : \A s : \A c \in ReadBy(net, m, s) : c \in Cells
         /\ Regs \subseteq Cells /\ Mems \subseteq Cells /\ Comb \subseteq Cells
         /\ Regs \cap Mems = {} /\ Regs \cap Comb = {} /\ Mems \cap Comb = {}
         /\ \A m \in Mems : net.rd[m] \in Seq([addr : net.wire, data : net.out[m]])
         /\ \A m \in Mems : net.out[m] \subseteq net.wire
<1>1. None \notin Cells /\ \A c \in Cells : net.out[c] \subseteq net.wire
  BY NetlistsAssumption DEF Cells
<1>2. \A c \in Cells : /\ CellToNextSig(net, c) \subseteq net.wire
                       /\ DownSigs(net, c) \subseteq CellToNextSig(net, c)
  BY <1>1 DEF CellToNextSig, DownSigs
<1>3. \A c \in Plain(net) : DownSigs(net, c) = CellToNextSig(net, c)
  BY DEF Plain
<1>4. \A t : SigToNextCell(net, t) \subseteq Cells
  BY DEF SigToNextCell, Cells
<1>5. (\A s : CellsDown(net, s) \subseteq Cells) /\ \A m \in Mems : \A s : \A c \in ReadBy(net, m, s) : c \in Cells
  BY <1>4 DEF CellsDown, ReadBy
<1>6. /\ Regs \subseteq Cells /\ Mems \subseteq Cells /\ Comb \subseteq Cells
      /\ Regs \cap Mems = {} /\ Regs \cap Comb = {} /\ Mems \cap Comb = {}
  BY DEF Regs, Mems, Comb, Kind, Cells
<1>7. \A m \in Mems : net.rd[m] \in Seq([addr : net.wire, data : net.out[m]])
  BY NetlistsAssumption DEF Mems
<1> QED
  BY <1>1, <1>2, <1>3, <1>5, <1>6, <1>7

(* The outputs of a cell are on a walk from it. *)
LEMMA WalkStarts ==
  ASSUME net \in Netlists, NEW c \in Cells
  PROVE  /\ \A s \in CellToNextSig(net, c) : OnWalk(c, s)
         /\ \A s : OnWalk(c, s) => s \in net.wire
<1>1. CellToNextSig(net, c) \subseteq net.wire
  BY NetFacts
<1>2. \A s \in CellToNextSig(net, c) : OnWalk(c, s)
  BY <1>1, ReachFacts DEF OnWalk, WalkReach
<1>3. \A t, s : <<t, s>> \in WalkReach => s \in net.wire
  BY DEF WalkReach, Reach
<1> QED
  BY <1>2, <1>3 DEF OnWalk

(* A walk goes on behind a cell, and behind the data of a memory that it   *)
(* reads (cdfg.h:204-330).                                                 *)
LEMMA WalkGoesOn ==
  ASSUME net \in Netlists, NEW c \in Cells, NEW s, OnWalk(c, s), NEW d \in CellsDown(net, s)
  PROVE  /\ d \in Comb => \A t \in CellToNextSig(net, d) : OnWalk(c, t)
         /\ d \in Mems /\ OnReadPort(net, d, s) =>
              \A e \in ReadBy(net, d, s) : \A t \in CellToNextSig(net, e) : OnWalk(c, t)
<1>1. PICK o \in CellToNextSig(net, c) : <<o, s>> \in Reach(net, WalkSteps)
  BY DEF OnWalk, WalkReach, WalkSteps
<1>2. s \in net.wire /\ o \in net.wire /\ d \in Cells
  BY WalkStarts, NetFacts
<1>3. \A t \in net.wire : <<s, t>> \in WalkSteps => OnWalk(c, t)
  BY <1>1, <1>2, ReachFacts DEF OnWalk, WalkReach, WalkSteps
<1>4. d \in Comb => \A t \in CellToNextSig(net, d) : t \in net.wire /\ <<s, t>> \in WalkSteps
  <2> SUFFICES ASSUME d \in Comb, NEW t \in CellToNextSig(net, d) PROVE t \in net.wire /\ <<s, t>> \in WalkSteps
    OBVIOUS
  <2>1. t \in net.wire
    BY <1>2, NetFacts
  <2>2. <<s, t>> \in net.wire \X net.wire /\ <<s, t>>[1] = s /\ <<s, t>>[2] = t
    BY <1>2, <2>1
  <2> QED
    BY <2>1, <2>2 DEF WalkSteps, StepsOf
<1>5. d \in Mems /\ OnReadPort(net, d, s) =>
        \A e \in ReadBy(net, d, s) : \A t \in CellToNextSig(net, e) : t \in net.wire /\ <<s, t>> \in WalkSteps
  <2> SUFFICES ASSUME d \in Mems, OnReadPort(net, d, s), NEW e \in ReadBy(net, d, s), NEW t \in CellToNextSig(net, e)
               PROVE  t \in net.wire /\ <<s, t>> \in WalkSteps
    OBVIOUS
  <2>1. t \in net.wire
    BY <1>2, NetFacts
  <2>2. <<s, t>> \in net.wire \X net.wire /\ <<s, t>>[1] = s /\ <<s, t>>[2] = t
    BY <1>2, <2>1
  <2> QED
    BY <2>1, <2>2 DEF WalkSteps, ReadSteps, Mems
<1> QED
  BY <1>3, <1>4, <1>5

(* What is behind a cell on a walk is behind the cell walked from: its     *)
(* registers, and its write ports; of a memory that is read, the latter.   *)
LEMMA WalkTakesOver ==
  ASSUME net \in Netlists, NEW c \in Cells, NEW s, OnWalk(c, s), NEW d \in CellsDown(net, s)
  PROVE  /\ d \in Regs => d \in FlowRegs(c)
         /\ d \in Mems => WritesOf(net, d, s) \subseteq FlowWrites(c)
         /\ d \in Comb => FlowRegs(d) \subseteq FlowRegs(c)
         /\ d \in Comb \/ (d \in Mems /\ OnReadPort(net, d, s)) => FlowWrites(d) \subseteq FlowWrites(c)
<1>1. PICK o \in CellToNextSig(net, c) : <<o, s>> \in Reach(net, WalkSteps)
  BY DEF OnWalk, WalkReach, WalkSteps
<1>2. s \in net.wire /\ o \in net.wire /\ d \in Cells /\ CellToNextSig(net, d) \subseteq net.wire
  BY WalkStarts, NetFacts
<1>3. <<o, s>> \in Reach(net, MemSteps)
  <2>1. WalkSteps \subseteq MemSteps
    BY DEF MemSteps
  <2> QED
    BY <1>1, <2>1, ReachMore
<1>4. WalkReach = Reach(net, WalkSteps) /\ MemReach = Reach(net, MemSteps)
  BY DEF WalkReach, MemReach, WalkSteps, MemSteps
<1>5. d \in Regs => d \in FlowRegs(c)
  BY <1>1, <1>2, <1>4 DEF FlowRegs, CellsBehind
<1>6. ASSUME d \in Mems PROVE WritesOf(net, d, s) \subseteq FlowWrites(c)
  <2>1. <<d, s>> \in Mems \X net.wire /\ <<d, s>>[1] = d /\ <<d, s>>[2] = s
    BY <1>2, <1>6
  <2> QED
    BY <1>1, <1>3, <1>4, <2>1 DEF FlowWrites, WritesBehind
<1>7. ASSUME d \in Comb PROVE FlowRegs(d) \subseteq FlowRegs(c)
  <2> SUFFICES ASSUME NEW t \in CellToNextSig(net, d), NEW u \in net.wire, <<t, u>> \in Reach(net, WalkSteps)
               PROVE  \E q \in CellToNextSig(net, c) : <<q, u>> \in Reach(net, WalkSteps)
    BY <1>4 DEF FlowRegs, CellsBehind
  <2>1. OnWalk(c, t)
    BY <1>7, WalkGoesOn
  <2>2. PICK q \in CellToNextSig(net, c) : <<q, t>> \in Reach(net, WalkSteps)
    BY <1>4, <2>1 DEF OnWalk
  <2>3. q \in net.wire /\ t \in net.wire
    BY <1>2, NetFacts
  <2> QED
    BY <2>2, <2>3, ReachFacts
<1>8. ASSUME d \in Comb \/ (d \in Mems /\ OnReadPort(net, d, s)) PROVE FlowWrites(d) \subseteq FlowWrites(c)
  <2>1. \A t \in CellToNextSig(net, d) : <<s, t>> \in MemSteps
    <3> SUFFICES ASSUME NEW t \in CellToNextSig(net, d) PROVE <<s, t>> \in MemSteps
      OBVIOUS
    <3>1. <<s, t>> \in net.wire \X net.wire /\ <<s, t>>[1] = s /\ <<s, t>>[2] = t
      BY <1>2
    <3> QED
      BY <1>8, <3>1 DEF MemSteps, WalkSteps, StepsOf, AnyReadSteps, Mems
  <2>2. \A t \in CellToNextSig(net, d) : <<o, t>> \in Reach(net, MemSteps)
    BY <1>2, <1>3, <2>1, ReachFacts
  <2>3. \A t \in CellToNextSig(net, d), u \in net.wire :
          <<t, u>> \in Reach(net, MemSteps) => <<o, u>> \in Reach(net, MemSteps)
    BY <1>2, <2>2, ReachFacts
  <2>4. \A e \in Mems \X net.wire : e[2] \in net.wire
    OBVIOUS
  <2> QED
    BY <1>4, <2>3, <2>4 DEF FlowWrites, WritesBehind
<1> QED
  BY <1>5, <1>6, <1>7, <1>8

-----------------------------------------------------------------------------
(* A sequence and what is below its last element. *)
LEMMA PopFacts ==
  ASSUME NEW S, NEW s \in Seq(S), s # << >>
  PROVE  /\ Len(s) \in Nat \ {0} /\ s[Len(s)] \in S
         /\ SubSeq(s, 1, Len(s) - 1) \in Seq(S)
         /\ Len(SubSeq(s, 1, Len(s) - 1)) = Len(s) - 1
         /\ \A i \in 1 .. Len(s) - 1 : SubSeq(s, 1, Len(s) - 1)[i] = s[i]
<1>1. Len(s) \in Nat \ {0} /\ \A i \in 1 .. Len(s) : s[i] \in S
  BY EmptySeq, LenProperties, ElementOfSeq
<1>2. \A i \in 1 .. Len(s) - 1 : s[i] \in S /\ s[1 + i - 1] = s[i]
  BY <1>1
<1>3. /\ SubSeq(s, 1, Len(s) - 1) \in Seq(S)
      /\ Len(SubSeq(s, 1, Len(s) - 1)) = IF 1 <= Len(s) - 1 THEN Len(s) - 1 - 1 + 1 ELSE 0
      /\ \A i \in 1 .. Len(s) - 1 - 1 + 1 : SubSeq(s, 1, Len(s) - 1)[i] = s[1 + i - 1]
  BY <1>1, <1>2, SubSeqProperties
<1>4. /\ Len(s) \in 1 .. Len(s) /\ Len(s) - 1 - 1 + 1 = Len(s) - 1
      /\ (IF 1 <= Len(s) - 1 THEN Len(s) - 1 - 1 + 1 ELSE 0) = Len(s) - 1
  BY <1>1
<1>5. Len(SubSeq(s, 1, Len(s) - 1)) = Len(s) - 1
  BY <1>3, <1>4
<1>6. \A i \in 1 .. Len(s) - 1 : SubSeq(s, 1, Len(s) - 1)[i] = s[i]
  BY <1>2, <1>3, <1>4
<1> QED
  BY <1>1, <1>3, <1>4, <1>5, <1>6

(* A sequence and one more element. *)
LEMMA PushFacts ==
  ASSUME NEW S, NEW s \in Seq(S), NEW e \in S
  PROVE  /\ Append(s, e) \in Seq(S)
         /\ Len(s) \in Nat /\ Len(Append(s, e)) = Len(s) + 1
         /\ \A i \in 1 .. Len(s) : Append(s, e)[i] = s[i]
         /\ Append(s, e)[Len(s) + 1] = e
BY AppendProperties, LenProperties

(* The netlist is given; nothing about it changes. *)
LEMMA NetFrame ==
  ASSUME net' = net
  PROVE  /\ Cells' = Cells /\ Regs' = Regs /\ Mems' = Mems /\ Comb' = Comb
         /\ Frames' = Frames /\ WritePorts' = WritePorts
         /\ \A c, s : OnWalk(c, s)' = OnWalk(c, s)
         /\ \A c : /\ FlowRegs(c)' = FlowRegs(c) /\ FlowWrites(c)' = FlowWrites(c)
                   /\ CombRegs(c)' = CombRegs(c) /\ CombWrites(c)' = CombWrites(c)
                   /\ ReadOnWalk(c)' = ReadOnWalk(c)
         /\ origin' = origin => GoodFrames' = GoodFrames
<1>1. /\ Cells' = Cells /\ Regs' = Regs /\ Mems' = Mems /\ Comb' = Comb
      /\ Frames' = Frames /\ WritePorts' = WritePorts
  BY DEF Cells, Regs, Mems, Comb, Frames, WritePorts
<1>2. WalkReach' = WalkReach /\ MemReach' = MemReach /\ CombReach' = CombReach
  BY <1>1 DEF WalkReach, MemReach, CombReach
<1>3. \A c, s : OnWalk(c, s)' = OnWalk(c, s)
  BY <1>2 DEF OnWalk
<1>4. \A reach, ss : /\ CellsBehind(reach, ss)' = CellsBehind(reach, ss)
                     /\ WritesBehind(reach, ss)' = WritesBehind(reach, ss)
  BY <1>1 DEF CellsBehind, WritesBehind
<1>5. \A c : FlowRegs(c)' = FlowRegs(c) /\ FlowWrites(c)' = FlowWrites(c) /\ CombRegs(c)' = CombRegs(c)
  BY <1>1, <1>2 DEF FlowRegs, FlowWrites, CombRegs, CellsBehind, WritesBehind
<1>6. \A c : ReadOnWalk(c)' = ReadOnWalk(c)
  BY <1>1, <1>3 DEF ReadOnWalk
<1>7. \A c : CombWrites(c)' = CombWrites(c)
  BY <1>1, <1>2, <1>6 DEF CombWrites, WritesBehind
<1>8. origin' = origin => GoodFrames' = GoodFrames
  BY <1>1, <1>3 DEF GoodFrames
<1> QED
  BY <1>1, <1>3, <1>5, <1>6, <1>7, <1>8

(* While a wire is visited, it is on a walk from some cell. *)
LEMMA TopFacts ==
  ASSUME WalkInv, stack # << >>
  PROVE  /\ origin \in Cells /\ origin \notin done /\ stage = "walk"
         /\ Len(stack) \in Nat \ {0} /\ Top \in GoodFrames /\ Top = stack[Len(stack)]
         /\ Callers \in Seq(GoodFrames) /\ Len(Callers) = Len(stack) - 1
         /\ \A i \in 1 .. Len(stack) - 1 : Callers[i] = stack[i]
<1>1. origin \in Cells /\ origin \notin done /\ stage = "walk" /\ stack \in Seq(GoodFrames)
  BY DEF WalkInv
<1> QED
  BY <1>1, PopFacts DEF Top, Callers

(* The walk has not begun. *)
LEMMA InitWalk == Init => WalkInv /\ SoundInv
<1> SUFFICES ASSUME Init PROVE WalkInv /\ SoundInv
  OBVIOUS
<1>1. WalkInv
  BY EmptySeq DEF Init, WalkInv
<1>2. Mems \subseteq Cells
  BY NetFacts DEF Init
<1>3. SoundInv
  BY <1>2 DEF Init, SoundInv
<1> QED
  BY <1>1, <1>3

(* The head of dfs_visit (cdfg.h:204-222). *)
LEMMA VisitWalk ==
  ASSUME WalkInv, origin \in Cells, NEW calls \in Seq(GoodFrames), NEW s, OnWalk(origin, s), Visit(s, calls)
  PROVE  stack' \in Seq(GoodFrames) /\ visiting' \subseteq net.wire
<1>1. s \in net.wire /\ CellsDown(net, s) \subseteq Cells
  BY WalkStarts, NetFacts DEF WalkInv
<1> DEFINE f == [sig |-> s, cells |-> CellsDown(net, s), cell |-> None, sigs |-> {}]
<1>2. f \in GoodFrames
  BY <1>1 DEF GoodFrames, Frames
<1>3. Append(calls, f) \in Seq(GoodFrames)
  BY <1>2, PushFacts
<1> QED
  BY <1>1, <1>3 DEF Visit, WalkInv

(* A cell has been taken; the walk goes on with some wires behind it       *)
(* (cdfg.h:223-340).                                                       *)
LEMMA PassWalk ==
  ASSUME WalkInv, NEW c \in Cells, NEW sigs \in SUBSET net.wire, Take(c), Pass(c, sigs),
         \A s \in sigs : OnWalk(origin, s)
  PROVE  WalkInv'
<1>1. /\ UNCHANGED <<net, stage, done, origin, outs, visiting, visited>> /\ stack # << >>
      /\ Cells' = Cells /\ GoodFrames' = GoodFrames
  BY NetFrame DEF Take
<1>2. stack' \in Seq(GoodFrames)
  <2>1. Top \in GoodFrames /\ Callers \in Seq(GoodFrames)
    BY <1>1, TopFacts
  <2> DEFINE f == [Top EXCEPT !.cells = @ \ {c}, !.cell = c, !.sigs = sigs]
  <2>2. f \in Frames /\ f.sig = Top.sig /\ f.cells \subseteq Top.cells /\ f.sigs = sigs
    BY <2>1 DEF GoodFrames, Frames
  <2>3. f \in GoodFrames
    BY <2>1, <2>2 DEF GoodFrames
  <2>4. Append(Callers, f) \in Seq(GoodFrames)
    BY <2>1, <2>3, PushFacts
  <2> QED
    BY <2>4 DEF Pass
<1>3. origin # None
  BY <1>1, TopFacts, NetFacts DEF WalkInv
<1> QED
  BY <1>1, <1>2, <1>3 DEF WalkInv

(* Every step of the walk stays on a walk from the cell walked from.        *)
LEMMA WalkNext == WalkInv /\ [Next]_vars => WalkInv'
<1> SUFFICES ASSUME WalkInv, [Next]_vars PROVE WalkInv'
  OBVIOUS
<1>0. net \in Netlists
  BY DEF WalkInv
<1>1. ASSUME NEW c \in Cells, StartCell(c) PROVE WalkInv'
  <2>1. /\ UNCHANGED <<net, stage, done, stack>> /\ stack = << >> /\ stage = "walk"
        /\ Cells' = Cells /\ origin' = c /\ c \in Cells \ done
    BY <1>1, NetFrame DEF StartCell, WalkInv
  <2>2. stack' \in Seq(GoodFrames')
    BY <2>1, EmptySeq
  <2> QED
    BY <1>0, <1>1, <2>1, <2>2, NetFacts DEF StartCell, WalkInv
<1>2. CASE EndCell
  <2>1. UNCHANGED <<net, stage, outs, stack, visiting, visited>> /\ stack = << >> /\ Cells' = Cells
    BY <1>2, NetFrame DEF EndCell
  <2>2. stack' \in Seq(GoodFrames')
    BY <2>1, EmptySeq
  <2> QED
    BY <1>2, <2>1, <2>2 DEF EndCell, WalkInv
<1>3. ASSUME NEW s \in net.wire, VisitOutput(s) PROVE WalkInv'
  <2>1. /\ UNCHANGED <<net, stage, done, origin, visited>> /\ outs' \subseteq outs /\ s \in outs
        /\ Cells' = Cells /\ GoodFrames' = GoodFrames /\ origin \in Cells /\ Visit(s, << >>)
    BY <1>3, NetFrame DEF VisitOutput, WalkInv
  <2>2. OnWalk(origin, s)
    BY <1>0, <2>1, NetFacts, WalkStarts DEF WalkInv
  <2>3. stack' \in Seq(GoodFrames) /\ visiting' \subseteq net.wire
    BY <2>1, <2>2, VisitWalk, EmptySeq
  <2> QED
    BY <1>0, <2>1, <2>3, NetFacts DEF WalkInv
<1>4. ASSUME NEW s \in net.wire, VisitNext(s) PROVE WalkInv'
  <2>1. /\ UNCHANGED <<net, stage, done, origin, outs, visited>> /\ stack # << >> /\ s \in Top.sigs
        /\ Cells' = Cells /\ GoodFrames' = GoodFrames
    BY <1>4, NetFrame DEF VisitNext
  <2>2. origin \in Cells /\ Top \in GoodFrames /\ Callers \in Seq(GoodFrames)
    BY <2>1, TopFacts
  <2>3. OnWalk(origin, s)
    BY <2>1, <2>2 DEF GoodFrames
  <2>4. [Top EXCEPT !.sigs = @ \ {s}] \in GoodFrames
    BY <2>2 DEF GoodFrames, Frames
  <2>5. Append(Callers, [Top EXCEPT !.sigs = @ \ {s}]) \in Seq(GoodFrames)
    BY <2>2, <2>4, PushFacts
  <2>6. stack' \in Seq(GoodFrames) /\ visiting' \subseteq net.wire
    BY <1>4, <2>2, <2>3, <2>5, VisitWalk DEF VisitNext
  <2> QED
    BY <1>0, <2>1, <2>2, <2>6, NetFacts DEF WalkInv
<1>5. ASSUME NEW c \in Cells, TakeCycle(c) \/ TakeReg(c) PROVE WalkInv'
  BY <1>5, PassWalk DEF TakeCycle, TakeReg, Skip
<1>6. ASSUME NEW c \in Cells, TakeMem(c) PROVE WalkInv'
  <2>1. CASE Skip(c)
    BY <1>6, <2>1, PassWalk DEF TakeMem, Skip
  <2> DEFINE sigs == UNION {CellToNextSig(net, d) : d \in ReadBy(net, c, Top.sig)}
  <2>2. CASE OnReadPort(net, c, Top.sig) /\ Pass(c, sigs)
    <3>1. stack # << >> /\ c \in Top.cells /\ c \in Mems /\ Take(c)
      BY <1>6 DEF TakeMem, Take
    <3>2. origin \in Cells /\ OnWalk(origin, Top.sig) /\ c \in CellsDown(net, Top.sig)
      BY <3>1, TopFacts DEF GoodFrames
    <3>3. \A s \in sigs : OnWalk(origin, s)
      BY <1>0, <2>2, <3>1, <3>2, WalkGoesOn
    <3>4. sigs \in SUBSET net.wire
      BY <1>0, <3>2, <3>3, WalkStarts
    <3> QED
      BY <2>2, <3>1, <3>3, <3>4, PassWalk
  <2> QED
    BY <1>6, <2>1, <2>2 DEF TakeMem
<1>7. ASSUME NEW c \in Cells, TakeComb(c) PROVE WalkInv'
  <2>1. CASE Skip(c)
    BY <1>7, <2>1, PassWalk DEF TakeComb, Skip
  <2>2. CASE Pass(c, CellToNextSig(net, c))
    <3>1. stack # << >> /\ c \in Top.cells /\ c \in Comb /\ Take(c)
      BY <1>7 DEF TakeComb, Take, Comb
    <3>2. origin \in Cells /\ OnWalk(origin, Top.sig) /\ c \in CellsDown(net, Top.sig)
      BY <3>1, TopFacts DEF GoodFrames
    <3>3. \A s \in CellToNextSig(net, c) : OnWalk(origin, s)
      BY <1>0, <3>1, <3>2, WalkGoesOn
    <3>4. CellToNextSig(net, c) \in SUBSET net.wire
      BY <1>0, NetFacts
    <3> QED
      BY <2>2, <3>1, <3>3, <3>4, PassWalk
  <2> QED
    BY <1>7, <2>1, <2>2 DEF TakeComb
<1>8. CASE Return
  <2>1. /\ UNCHANGED <<net, stage, done, origin, outs>> /\ stack # << >> /\ stack' = Callers
        /\ Cells' = Cells /\ GoodFrames' = GoodFrames
    BY <1>8, NetFrame DEF Return
  <2>2. origin \in Cells /\ Top \in GoodFrames /\ Callers \in Seq(GoodFrames)
    BY <2>1, TopFacts
  <2>3. Top.sig \in net.wire
    BY <2>2 DEF GoodFrames, Frames
  <2> QED
    BY <1>0, <1>8, <2>1, <2>2, <2>3, NetFacts DEF Return, WalkInv
<1>9. ASSUME \/ RelateRegs \/ Unsupported \/ RelateMems \/ \E m \in Mems : HandleMem(m)
      PROVE  WalkInv'
  <2>1. /\ net' = net /\ done' = done /\ UNCHANGED walk
        /\ \/ stage' = stage
           \/ done = Cells /\ origin = None /\ stage' \in {"mems", "end", "abort"}
    BY <1>9 DEF RelateRegs, HandleMem, Unsupported, RelateMems, WalkInv
  <2>2. Cells' = Cells /\ GoodFrames' = GoodFrames
    BY <2>1, NetFrame DEF walk
  <2> QED
    BY <2>1, <2>2 DEF WalkInv, walk
<1>10. CASE UNCHANGED vars
  <2>1. Cells' = Cells /\ GoodFrames' = GoodFrames
    BY <1>10, NetFrame DEF vars, walk
  <2> QED
    BY <1>10, <2>1 DEF WalkInv, vars, walk
<1> QED
  BY <1>1, <1>2, <1>3, <1>4, <1>5, <1>6, <1>7, <1>8, <1>9, <1>10 DEF Next

-----------------------------------------------------------------------------
(* A cell at the wire that is being visited. *)
LEMMA TakeFacts ==
  ASSUME WalkInv, NEW c, Take(c)
  PROVE  /\ net \in Netlists /\ stack # << >> /\ c \in Top.cells /\ c \in CellsDown(net, Top.sig)
         /\ origin \in Cells /\ origin \notin done /\ OnWalk(origin, Top.sig) /\ Top.sigs = {}
         /\ UNCHANGED <<net, stage, done, origin, outs, visiting, visited>>
<1>1. stack # << >> /\ Top \in GoodFrames
  BY TopFacts DEF Take
<1> QED
  BY <1>1, TopFacts DEF Take, GoodFrames, WalkInv

(* What is connected to a cell are registers and write ports. *)
LEMMA FlowTypes ==
  ASSUME net \in Netlists, NEW c
  PROVE  FlowRegs(c) \subseteq Regs /\ FlowWrites(c) \subseteq WritePorts
<1>1. \A m \in Mems, s \in net.wire : WritesOf(net, m, s) \subseteq WritePorts
  <2> SUFFICES ASSUME NEW m \in Mems, NEW s \in net.wire, NEW w \in WritesOf(net, m, s) PROVE w \in WritePorts
    OBVIOUS
  <2>1. PICK p \in WrPorts : w = [mem |-> m, port |-> p, sig |-> s]
    BY DEF WritesOf
  <2> QED
    BY <2>1 DEF WritePorts
<1>2. \A e \in Mems \X net.wire : WritesOf(net, e[1], e[2]) \subseteq WritePorts
  BY <1>1
<1> QED
  BY <1>2 DEF FlowRegs, FlowWrites, WritesBehind

(* Something connected is recorded of the cell walked from. *)
LEMMA SoundGrows ==
  ASSUME WalkInv, SoundInv, net' = net, origin \in Cells,
         NEW R \in SUBSET FlowRegs(origin), NEW W \in SUBSET FlowWrites(origin), origin \in Mems => R = {},
         downRegs' = [downRegs EXCEPT ![origin] = @ \cup R],
         downMems' = [downMems EXCEPT ![origin] = @ \cup W]
  PROVE  SoundInv'
<1>1. /\ Cells' = Cells /\ Regs' = Regs /\ Mems' = Mems /\ WritePorts' = WritePorts
      /\ \A c : FlowRegs(c)' = FlowRegs(c) /\ FlowWrites(c)' = FlowWrites(c)
  BY NetFrame
<1>2. R \subseteq Regs /\ W \subseteq WritePorts
  BY FlowTypes DEF WalkInv
<1>3. downRegs' \in [Cells -> SUBSET Regs] /\ downMems' \in [Cells -> SUBSET WritePorts]
  BY <1>2 DEF SoundInv
<1>4. \A c \in Cells : /\ downRegs'[c] = IF c = origin THEN downRegs[c] \cup R ELSE downRegs[c]
                       /\ downMems'[c] = IF c = origin THEN downMems[c] \cup W ELSE downMems[c]
  BY DEF SoundInv
<1>5. \A c \in Cells : downRegs'[c] \subseteq FlowRegs(c) /\ downMems'[c] \subseteq FlowWrites(c)
  BY <1>4 DEF SoundInv
<1>6. Mems \subseteq Cells
  BY NetFacts DEF WalkInv
<1>7. \A m \in Mems : downRegs'[m] = {}
  BY <1>4, <1>6 DEF SoundInv
<1> QED
  BY <1>1, <1>3, <1>5, <1>7 DEF SoundInv

(* What a step takes down, as one union (cdfg.h:223-340). *)
LEMMA TakeRecords ==
  ASSUME WalkInv, SoundInv, NEW c \in Cells, TakeCycle(c) \/ TakeReg(c) \/ TakeMem(c) \/ TakeComb(c)
  PROVE  \E R \in SUBSET FlowRegs(origin), W \in SUBSET FlowWrites(origin) :
           /\ origin \in Mems => R = {}
           /\ downRegs' = [downRegs EXCEPT ![origin] = @ \cup R]
           /\ downMems' = [downMems EXCEPT ![origin] = @ \cup W]
<1>0. /\ net \in Netlists /\ origin \in Cells /\ OnWalk(origin, Top.sig) /\ c \in CellsDown(net, Top.sig)
  BY TakeFacts DEF TakeCycle, TakeReg, TakeMem, TakeComb
<1>1. /\ downRegs = [downRegs EXCEPT ![origin] = @ \cup {}]
      /\ downMems = [downMems EXCEPT ![origin] = @ \cup {}]
  BY <1>0 DEF SoundInv
<1>2. CASE TakeCycle(c)
  BY <1>1, <1>2 DEF TakeCycle, down
<1>3. CASE TakeReg(c)
  <2>1. {c} \subseteq FlowRegs(origin)
    BY <1>0, <1>3, WalkTakesOver DEF TakeReg
  <2>2. CASE origin \in Mems
    BY <1>1, <1>3, <2>2 DEF TakeReg
  <2>3. CASE origin \notin Mems
    BY <1>1, <1>3, <2>1, <2>3 DEF TakeReg
  <2> QED
    BY <2>2, <2>3
<1>4. CASE TakeMem(c)
  <2>1. c \in Mems /\ WritesOf(net, c, Top.sig) \subseteq FlowWrites(origin)
    BY <1>0, <1>4, WalkTakesOver DEF TakeMem
  <2>2. CASE OnReadPort(net, c, Top.sig) /\ Known(c)
    <3>1. downRegs[c] = {} /\ downMems[c] \subseteq FlowWrites(c)
      BY <2>1 DEF SoundInv
    <3>2. WritesOf(net, c, Top.sig) \cup downMems[c] \subseteq FlowWrites(origin)
      BY <1>0, <2>1, <2>2, <3>1, WalkTakesOver
    <3>3. /\ downRegs' = [downRegs EXCEPT ![origin] = @ \cup {}]
          /\ downMems' = [downMems EXCEPT ![origin] = @ \cup (WritesOf(net, c, Top.sig) \cup downMems[c])]
      BY <1>4, <2>2, <3>1, <1>0 DEF TakeMem, SoundInv
    <3> QED
      BY <3>2, <3>3
  <2>3. CASE ~ (OnReadPort(net, c, Top.sig) /\ Known(c))
    <3>1. /\ downRegs' = [downRegs EXCEPT ![origin] = @ \cup {}]
          /\ downMems' = [downMems EXCEPT ![origin] = @ \cup WritesOf(net, c, Top.sig)]
      BY <1>1, <1>4, <2>3 DEF TakeMem
    <3> QED
      BY <2>1, <3>1
  <2> QED
    BY <2>2, <2>3
<1>5. CASE TakeComb(c)
  <2>1. CASE Known(c)
    <3>1. /\ downRegs' = [downRegs EXCEPT ![origin] = @ \cup downRegs[c]]
          /\ downMems' = [downMems EXCEPT ![origin] = @ \cup downMems[c]]
      BY <1>5, <2>1 DEF TakeComb, CopyDown
    <3>2. c \in Comb /\ downRegs[c] \subseteq FlowRegs(c) /\ downMems[c] \subseteq FlowWrites(c)
      BY <1>5 DEF TakeComb, Comb, SoundInv
    <3>3. downRegs[c] \subseteq FlowRegs(origin) /\ downMems[c] \subseteq FlowWrites(origin)
      BY <1>0, <3>2, WalkTakesOver
    <3> QED
      BY <2>1, <3>1, <3>3 DEF Known
  <2>2. CASE ~ Known(c)
    BY <1>1, <1>5, <2>2 DEF TakeComb, down
  <2> QED
    BY <2>1, <2>2
<1> QED
  BY <1>2, <1>3, <1>4, <1>5

(* Every step records only what is connected (cdfg.h:187-366).             *)
LEMMA SoundNext == WalkInv /\ SoundInv /\ [Next]_vars => SoundInv'
<1> SUFFICES ASSUME WalkInv, SoundInv, [Next]_vars PROVE SoundInv'
  OBVIOUS
<1>1. ASSUME NEW c \in Cells, TakeCycle(c) \/ TakeReg(c) \/ TakeMem(c) \/ TakeComb(c) PROVE SoundInv'
  <2>1. net' = net /\ origin \in Cells
    BY <1>1, TakeFacts DEF TakeCycle, TakeReg, TakeMem, TakeComb
  <2> QED
    BY <1>1, <2>1, TakeRecords, SoundGrows
<1>2. ASSUME UNCHANGED <<net, down>> PROVE SoundInv'
  BY <1>2, NetFrame DEF SoundInv, down
<1>3. CASE UNCHANGED vars
  BY <1>2, <1>3 DEF vars
<1>4. CASE \/ \E c \in Cells : StartCell(c)
           \/ \E s \in net.wire : VisitOutput(s) \/ VisitNext(s)
           \/ Return \/ EndCell \/ RelateRegs \/ Unsupported \/ RelateMems
           \/ \E m \in Mems : HandleMem(m)
  BY <1>2, <1>4 DEF StartCell, VisitOutput, VisitNext, Return, EndCell, RelateRegs, Unsupported, RelateMems, HandleMem
<1> QED
  BY <1>1, <1>3, <1>4 DEF Next

-----------------------------------------------------------------------------
(* A wire from which everything behind cells alone is recorded. *)
Recorded(s) ==
  \A d \in CellsDown(net, s) :
    /\ d \in Regs => d \in downRegs[origin]
    /\ d \in Mems \ ReadOnWalk(origin) => WritesOf(net, d, s) \subseteq downMems[origin]
Covered(s) == Seen(s) \/ \A u \in net.wire : <<s, u>> \in CombReach => Recorded(u)

(* A write port is known by its memory. *)
LEMMA WritesNamed ==
  ASSUME NEW n, NEW m, NEW s, NEW w \in WritesOf(n, m, s)
  PROVE  w.mem = m
<1>1. PICK p \in WrPorts : w = [mem |-> m, port |-> p, sig |-> s]
  BY DEF WritesOf
<1> QED
  BY <1>1

(* What is behind the outputs of a cell, one by one. *)
LEMMA BehindFacts ==
  ASSUME net \in Netlists, NEW c \in Cells
  PROVE  /\ \A d : d \in CombRegs(c) <=>
              d \in Regs /\ \E s \in CellToNextSig(net, c), u \in net.wire :
                              <<s, u>> \in CombReach /\ d \in CellsDown(net, u)
         /\ \A w : w \in CombWrites(c) <=>
              \E s \in CellToNextSig(net, c), u \in net.wire : \E d \in Mems \cap CellsDown(net, u) :
                 <<s, u>> \in CombReach /\ w \in WritesOf(net, d, u) /\ d \notin ReadOnWalk(c)
<1>1. \A d : d \in CombRegs(c) <=>
        d \in Regs /\ \E s \in CellToNextSig(net, c), u \in net.wire :
                        <<s, u>> \in CombReach /\ d \in CellsDown(net, u)
  BY DEF CombRegs, CellsBehind
<1>2. ASSUME NEW w \in CombWrites(c)
      PROVE  \E s \in CellToNextSig(net, c), u \in net.wire : \E d \in Mems \cap CellsDown(net, u) :
               <<s, u>> \in CombReach /\ w \in WritesOf(net, d, u) /\ d \notin ReadOnWalk(c)
  <2>1. PICK e \in Mems \X net.wire :
               /\ e[1] \in CellsDown(net, e[2]) /\ w \in WritesOf(net, e[1], e[2])
               /\ \E s \in CellToNextSig(net, c) : <<s, e[2]>> \in CombReach
    BY DEF CombWrites, WritesBehind
  <2>2. e[1] = w.mem /\ w.mem \notin ReadOnWalk(c)
    BY <2>1, WritesNamed DEF CombWrites
  <2>3. e[1] \in Mems /\ e[2] \in net.wire
    OBVIOUS
  <2> QED
    BY <2>1, <2>2, <2>3
<1>3. ASSUME NEW s \in CellToNextSig(net, c), NEW u \in net.wire, NEW d \in Mems \cap CellsDown(net, u),
             NEW w \in WritesOf(net, d, u), <<s, u>> \in CombReach, d \notin ReadOnWalk(c)
      PROVE  w \in CombWrites(c)
  <2>1. <<d, u>> \in Mems \X net.wire /\ <<d, u>>[1] = d /\ <<d, u>>[2] = u
    OBVIOUS
  <2>2. w.mem = d
    BY WritesNamed
  <2> QED
    BY <1>3, <2>1, <2>2 DEF CombWrites, WritesBehind
<1> QED
  BY <1>1, <1>2, <1>3

(* The walk from a cell has come to its end: along cells, the wires that   *)
(* were visited lead only to others, or to what was known (cdfg.h:187-203, *)
(* 341-366).                                                               *)
LEMMA WalkEnds ==
  ASSUME WalkInv, CompleteInv, origin \in Plain(net) \ Mems, stack = << >>, outs = {}
  PROVE  /\ CombRegs(origin) \subseteq downRegs[origin]
         /\ CombWrites(origin) \subseteq downMems[origin]
<1>1. net \in Netlists /\ origin \in Cells /\ CombReach = Reach(net, CombSteps) /\ Len(stack) = 0
  BY DEF WalkInv, Plain, Cells, CombReach, CombSteps
<1>2. \A c, s : ~ Pending(c, s)
  BY <1>1 DEF Pending
<1>3. \A s \in net.wire : \A c \in CellsDown(net, s) : Seen(s) => s \in visited /\ Taken(s, c)
  BY <1>1 DEF CompleteInv, Seen
<1>4. ASSUME NEW s \in net.wire, Covered(s) PROVE Recorded(s)
  <2>1. CASE Seen(s)
    BY <1>3, <2>1 DEF Taken, Recorded
  <2>2. CASE \A u \in net.wire : <<s, u>> \in CombReach => Recorded(u)
    BY <1>1, <2>2, ReachFacts
  <2> QED
    BY <1>4, <2>1, <2>2 DEF Covered
<1>5. ASSUME NEW s \in net.wire, NEW t \in net.wire, <<s, t>> \in CombSteps, Covered(s)
      PROVE  Covered(t)
  <2>1. PICK c \in CellsDown(net, s) : c \in Comb \cap Plain(net) /\ t \in CellToNextSig(net, c)
    <3>1. <<s, t>>[1] = s /\ <<s, t>>[2] = t
      OBVIOUS
    <3> QED
      BY <1>5, <3>1 DEF CombSteps, StepsOf
  <2>2. CASE Seen(s)
    <3>1. Entered(c)
      BY <1>3, <2>1, <2>2 DEF Taken
    <3>2. CASE \A q \in CellToNextSig(net, c) : Seen(q) \/ Pending(c, q)
      BY <1>2, <2>1, <3>2 DEF Covered
    <3>3. CASE /\ c \in done /\ downRegs[c] \subseteq downRegs[origin] /\ downMems[c] \subseteq downMems[origin]
               /\ ReadOnWalk(c) \subseteq ReadOnWalk(origin)
      <4>1. c \in Cells /\ c \in Plain(net) \ Mems
        BY <1>1, <2>1, NetFacts
      <4>2. CombRegs(c) \subseteq downRegs[origin] /\ CombWrites(c) \subseteq downMems[origin]
        BY <3>3, <4>1 DEF CompleteInv, Complete
      <4>3. ASSUME NEW u \in net.wire, <<t, u>> \in CombReach PROVE Recorded(u)
        <5> SUFFICES ASSUME NEW d \in CellsDown(net, u)
                     PROVE  /\ d \in Regs => d \in downRegs[origin]
                            /\ d \in Mems \ ReadOnWalk(origin) => WritesOf(net, d, u) \subseteq downMems[origin]
          BY DEF Recorded
        <5>1. d \in Regs => d \in CombRegs(c)
          BY <1>1, <2>1, <4>1, <4>3, BehindFacts
        <5>2. d \in Mems \ ReadOnWalk(c) => WritesOf(net, d, u) \subseteq CombWrites(c)
          BY <1>1, <2>1, <4>1, <4>3, BehindFacts
        <5> QED
          BY <3>3, <4>2, <5>1, <5>2
      <4> QED
        BY <4>3 DEF Covered
    <3> QED
      BY <3>1, <3>2, <3>3 DEF Entered
  <2>3. CASE \A u \in net.wire : <<s, u>> \in CombReach => Recorded(u)
    <3>1. <<s, t>> \in CombReach
      BY <1>1, <1>5, ReachFacts
    <3>2. \A u \in net.wire : <<t, u>> \in CombReach => <<s, u>> \in CombReach
      BY <1>1, <3>1, ReachFacts
    <3> QED
      BY <2>3, <3>2 DEF Covered
  <2> QED
    BY <1>5, <2>2, <2>3 DEF Covered
<1>6. {s \in net.wire : Covered(s)} \in Closed(net, CombSteps)
  <2> SUFFICES ASSUME NEW e \in CombSteps, e[1] \in net.wire, Covered(e[1])
               PROVE  e[2] \in net.wire /\ Covered(e[2])
    BY DEF Closed
  <2>1. e \in net.wire \X net.wire
    BY DEF CombSteps, StepsOf
  <2>2. e = <<e[1], e[2]>> /\ e[2] \in net.wire
    BY <2>1
  <2>3. <<e[1], e[2]>> \in CombSteps
    BY <2>2
  <2>4. Covered(e[2])
    BY <1>5, <2>2, <2>3
  <2> QED
    BY <2>2, <2>4
<1>7. \A s \in CellToNextSig(net, origin) : s \in net.wire /\ Covered(s)
  BY <1>1, NetFacts DEF CompleteInv, Covered
<1>8. ASSUME NEW s \in CellToNextSig(net, origin), NEW u \in net.wire, <<s, u>> \in CombReach
      PROVE  Recorded(u)
  <2>1. s \in {q \in net.wire : Covered(q)}
    BY <1>7
  <2>2. \A S \in Closed(net, CombSteps) : s \in S => u \in S
    BY <1>1, <1>8, <2>1, ReachFacts
  <2>3. u \in {q \in net.wire : Covered(q)}
    BY <1>6, <2>1, <2>2
  <2> QED
    BY <1>4, <2>3
<1>9. CombRegs(origin) \subseteq downRegs[origin]
  BY <1>1, <1>8, BehindFacts DEF Recorded
<1>10. CombWrites(origin) \subseteq downMems[origin]
  BY <1>1, <1>8, BehindFacts DEF Recorded
<1> QED
  BY <1>9, <1>10

(* What has been taken stays taken while more is recorded and visited. *)
LEMMA TakenGrows ==
  ASSUME UNCHANGED <<net, origin, done>>,
         downRegs[origin] \subseteq downRegs'[origin], downMems[origin] \subseteq downMems'[origin],
         \A d \in done : downRegs'[d] = downRegs[d] /\ downMems'[d] = downMems[d],
         \A s : Seen(s) => Seen(s)',
         \A c, s : Pending(c, s) => Pending(c, s)' \/ Seen(s)'
  PROVE  \A s, c : Taken(s, c) => Taken(s, c)'
<1>1. /\ Regs' = Regs /\ Mems' = Mems /\ Comb' = Comb
      /\ \A c : ReadOnWalk(c)' = ReadOnWalk(c)
  BY NetFrame
<1>2. ReadOnWalk(origin)' = ReadOnWalk(origin)
  <2>1. PICK o : o = origin
    OBVIOUS
  <2>2. ReadOnWalk(o)' = ReadOnWalk(o)
    BY <1>1
  <2> QED
    BY <2>1, <2>2
<1>3. ASSUME NEW c, Entered(c) PROVE Entered(c)'
  <2>1. CASE /\ c \in done /\ downRegs[c] \subseteq downRegs[origin] /\ downMems[c] \subseteq downMems[origin]
             /\ ReadOnWalk(c) \subseteq ReadOnWalk(origin)
    BY <1>1, <1>2, <2>1 DEF Entered
  <2>2. CASE \A s \in CellToNextSig(net, c) : Seen(s) \/ Pending(c, s)
    <3>1. \A s \in CellToNextSig(net, c) : Seen(s)' \/ Pending(c, s)'
      BY <2>2
    <3> QED
      BY <3>1 DEF Entered
  <2> QED
    BY <1>3, <2>1, <2>2 DEF Entered
<1> QED
  BY <1>1, <1>2, <1>3 DEF Taken

(* Nothing more is recorded of the cells that are done. *)
LEMMA DoneStays ==
  ASSUME net' = net, done' = done, \A c \in done : Complete(c),
         \A d \in done : downRegs'[d] = downRegs[d] /\ downMems'[d] = downMems[d]
  PROVE  (\A c \in done : Complete(c))'
<1>1. Mems' = Mems /\ \A c : CombRegs(c)' = CombRegs(c) /\ CombWrites(c)' = CombWrites(c)
  BY NetFrame
<1> QED
  BY <1>1 DEF Complete

(* One more wire is visited (cdfg.h:204-222). *)
LEMMA VisitComplete ==
  ASSUME WalkInv, CompleteInv, origin \in Cells, UNCHANGED <<net, origin, done, visited, down>>,
         NEW calls \in Seq(GoodFrames), NEW s \in net.wire, Visit(s, calls), outs \subseteq outs' \cup {s},
         Len(calls) = Len(stack),
         \A i \in 1 .. Len(stack) :
           /\ calls[i].sig = stack[i].sig /\ calls[i].cells = stack[i].cells /\ calls[i].cell = stack[i].cell
           /\ calls[i].sigs \subseteq stack[i].sigs /\ stack[i].sigs \subseteq calls[i].sigs \cup {s}
           /\ stack[i].sigs # {} \/ i < Len(stack)
  PROVE  CompleteInv'
<1>0. Mems' = Mems /\ Comb' = Comb /\ Len(calls) \in Nat /\ UNCHANGED <<downRegs, downMems>>
  BY NetFrame, LenProperties DEF down
<1> DEFINE new == [sig |-> s, cells |-> CellsDown(net, s), cell |-> None, sigs |-> {}]
<1>1. CellsDown(net, s) \subseteq Cells /\ s \in net.wire
  BY NetFacts DEF WalkInv
<1>2. /\ Seen(s)' /\ \A t : Seen(t) => Seen(t)'
      /\ visiting \subseteq visiting' /\ visiting' \subseteq visiting \cup {s}
  BY DEF Visit, Seen
<1>3. \/ stack' = calls /\ (s \in visiting' => s \in visiting \/ CellsDown(net, s) = {})
      \/ stack' = Append(calls, new)
  BY DEF Visit
<1>4. /\ Len(stack') \in {Len(stack), Len(stack) + 1}
      /\ \A i \in 1 .. Len(stack) : stack'[i] = calls[i]
      /\ Len(stack') = Len(stack) + 1 => stack'[Len(stack) + 1] = new
      /\ stack' = calls => Len(stack') = Len(stack)
      /\ stack' = Append(calls, new) => Len(stack') = Len(stack) + 1
  <2>1. CASE stack' = calls
    BY <1>0, <2>1
  <2>2. CASE stack' = Append(calls, new)
    BY <1>0, <2>2, AppendProperties
  <2> QED
    BY <1>3, <2>1, <2>2
<1>5. \A c, t : Pending(c, t) => Pending(c, t)' \/ Seen(t)'
  <2> SUFFICES ASSUME NEW c, NEW t, NEW i \in 1 .. Len(stack), stack[i].cell = c, t \in stack[i].sigs,
                      t # s
               PROVE  i \in 1 .. Len(stack') /\ stack'[i].cell = c /\ t \in stack'[i].sigs
    BY <1>2 DEF Pending
  <2> QED
    BY <1>0, <1>4
<1>6. \A t, c : Taken(t, c) => Taken(t, c)'
  BY <1>0, <1>2, <1>5, TakenGrows
<1>7. (\A c \in done : Complete(c))'
  BY <1>0, DoneStays DEF CompleteInv
<1> SUFFICES ASSUME origin \in Plain(net) \ Mems
    PROVE  (/\ \A t \in CellToNextSig(net, origin) : Seen(t) \/ t \in outs
            /\ \A t \in visiting : CellsDown(net, t) = {} \/ \E i \in 1 .. Len(stack) : stack[i].sig = t
            /\ \A t \in visited : \A c \in CellsDown(net, t) : Taken(t, c)
            /\ \A i \in 1 .. Len(stack) :
                 /\ \A c \in CellsDown(net, stack[i].sig) \ stack[i].cells : Taken(stack[i].sig, c)
                 /\ Inside(i) => /\ stack[i].cell \in ((Comb \cup Mems) \cap CellsDown(net, stack[i].sig)) \ stack[i].cells
                                 /\ stack[i].cell \in Mems => OnReadPort(net, stack[i].cell, stack[i].sig))'
  BY <1>0, <1>7 DEF CompleteInv
<1>8. (\A t \in CellToNextSig(net, origin) : Seen(t) \/ t \in outs)'
  BY <1>2 DEF CompleteInv
<1>9. (\A t \in visiting : CellsDown(net, t) = {} \/ \E i \in 1 .. Len(stack) : stack[i].sig = t)'
  <2> SUFFICES ASSUME NEW t \in visiting', CellsDown(net, t) # {}
               PROVE  \E i \in 1 .. Len(stack') : stack'[i].sig = t
    OBVIOUS
  <2>1. CASE t \in visiting
    <3>1. PICK i \in 1 .. Len(stack) : stack[i].sig = t
      BY <2>1 DEF CompleteInv
    <3> QED
      BY <3>1, <1>0, <1>4
  <2>2. CASE t \notin visiting
    <3>1. t = s /\ stack' = Append(calls, new)
      BY <1>2, <1>3, <2>2
    <3> QED
      BY <3>1, <1>0, <1>4
  <2> QED
    BY <2>1, <2>2
<1>10. (\A t \in visited : \A c \in CellsDown(net, t) : Taken(t, c))'
  BY <1>6 DEF CompleteInv
<1>11. (\A i \in 1 .. Len(stack) : \A c \in CellsDown(net, stack[i].sig) \ stack[i].cells : Taken(stack[i].sig, c))'
  <2> SUFFICES ASSUME NEW i \in 1 .. Len(stack'), NEW t, t = stack'[i].sig,
                      NEW c \in CellsDown(net, t) \ stack'[i].cells
               PROVE  Taken(t, c)'
    OBVIOUS
  <2>1. CASE i \in 1 .. Len(stack)
    <3>1. t = stack[i].sig /\ c \in CellsDown(net, t) \ stack[i].cells
      BY <1>4, <2>1
    <3>2. Taken(t, c)
      BY <2>1, <3>1 DEF CompleteInv
    <3> QED
      BY <1>6, <3>2
  <2>2. CASE i \notin 1 .. Len(stack)
    <3>1. stack'[i] = new
      BY <1>0, <1>4, <2>2
    <3> QED
      BY <3>1
  <2> QED
    BY <2>1, <2>2
<1>12. (\A i \in 1 .. Len(stack) :
          Inside(i) => /\ stack[i].cell \in ((Comb \cup Mems) \cap CellsDown(net, stack[i].sig)) \ stack[i].cells
                       /\ stack[i].cell \in Mems => OnReadPort(net, stack[i].cell, stack[i].sig))'
  <2> SUFFICES ASSUME NEW i \in 1 .. Len(stack'), Inside(i)'
               PROVE  (/\ stack[i].cell \in ((Comb \cup Mems) \cap CellsDown(net, stack[i].sig)) \ stack[i].cells
                       /\ stack[i].cell \in Mems => OnReadPort(net, stack[i].cell, stack[i].sig))'
    OBVIOUS
  <2>1. i \in 1 .. Len(stack)
    <3> SUFFICES ASSUME i \notin 1 .. Len(stack) PROVE FALSE
      OBVIOUS
    <3>1. i = Len(stack') /\ stack'[i] = new
      BY <1>0, <1>4
    <3> QED
      BY <1>0, <1>4, <3>1 DEF Inside
  <2>2. Inside(i)
    BY <2>1 DEF Inside
  <2> QED
    BY <1>0, <1>4, <2>1, <2>2 DEF CompleteInv
<1> QED
  BY <1>8, <1>9, <1>10, <1>11, <1>12

(* The wire that is visited has one cell less to take, and the outputs     *)
(* behind that cell to visit.                                              *)
LEMMA PassStack ==
  ASSUME WalkInv, NEW c, NEW sigs, Take(c), Pass(c, sigs)
  PROVE  \E f : /\ f.sig = Top.sig /\ f.cells = Top.cells \ {c} /\ f.cell = c /\ f.sigs = sigs
                /\ Len(stack') = Len(stack) /\ stack'[Len(stack)] = f
                /\ \A i \in 1 .. Len(stack) - 1 : stack'[i] = stack[i]
<1> DEFINE f == [Top EXCEPT !.cells = @ \ {c}, !.cell = c, !.sigs = sigs]
<1>1. /\ Top \in Frames /\ Len(stack) \in Nat \ {0}
      /\ Callers \in Seq(GoodFrames) /\ Len(Callers) = Len(stack) - 1
      /\ \A i \in 1 .. Len(stack) - 1 : Callers[i] = stack[i]
  BY TakeFacts, TopFacts DEF GoodFrames
<1>2. f.sig = Top.sig /\ f.cells = Top.cells \ {c} /\ f.cell = c /\ f.sigs = sigs
  BY <1>1 DEF Frames
<1>3. stack' = Append(Callers, f)
  BY DEF Pass
<1> HIDE DEF f
<1>4. Len(Append(Callers, f)) = Len(Callers) + 1 /\ Append(Callers, f)[Len(Callers) + 1] = f
  BY <1>1, AppendProperties
<1>5. \A i \in 1 .. Len(Callers) : Append(Callers, f)[i] = Callers[i]
  BY <1>1, AppendProperties
<1> QED
  BY <1>1, <1>2, <1>3, <1>4, <1>5

(* One more cell at the wire that is visited is taken (cdfg.h:223-340). *)
LEMMA TakeComplete ==
  ASSUME WalkInv, CompleteInv, NEW c \in Cells, NEW sigs, NEW s, s = Top.sig, Take(c), Pass(c, sigs),
         downRegs[origin] \subseteq downRegs'[origin], downMems[origin] \subseteq downMems'[origin],
         \A d \in done : downRegs'[d] = downRegs[d] /\ downMems'[d] = downMems[d],
         sigs # {} => c \in Comb \cup Mems /\ (c \in Mems => OnReadPort(net, c, s)),
         origin \in Plain(net) \ Mems => Taken(s, c)'
  PROVE  CompleteInv'
<1>0. /\ UNCHANGED <<net, done, origin, outs, visiting, visited>> /\ Top.sigs = {} /\ c \in Top.cells
      /\ c \in CellsDown(net, s) /\ stack # << >>
  BY TakeFacts
<1>1. Mems' = Mems /\ Comb' = Comb
  BY <1>0, NetFrame
<1>2. Top = stack[Len(stack)] /\ Len(stack) \in Nat \ {0}
  BY <1>0, TopFacts
<1>3. PICK f : /\ f.sig = s /\ f.cells = Top.cells \ {c} /\ f.cell = c /\ f.sigs = sigs
               /\ Len(stack') = Len(stack) /\ stack'[Len(stack)] = f
               /\ \A i \in 1 .. Len(stack) - 1 : stack'[i] = stack[i]
  BY PassStack
<1>6. /\ \A t : Seen(t) => Seen(t)'
      /\ \A d, t : Pending(d, t) => Pending(d, t)'
  <2>1. \A t : Seen(t) => Seen(t)'
    BY <1>0 DEF Seen
  <2> SUFFICES ASSUME NEW d, NEW t, NEW i \in 1 .. Len(stack), stack[i].cell = d, t \in stack[i].sigs
               PROVE  i \in 1 .. Len(stack') /\ stack'[i].cell = d /\ t \in stack'[i].sigs
    BY <2>1 DEF Pending
  <2>2. i # Len(stack)
    BY <1>0, <1>2
  <2>3. i \in 1 .. Len(stack) - 1
    BY <1>2, <2>2
  <2> QED
    BY <1>3, <2>3
<1>7. \A t, d : Taken(t, d) => Taken(t, d)'
  BY <1>0, <1>6, TakenGrows
<1>8. (\A d \in done : Complete(d))'
  BY <1>0, DoneStays DEF CompleteInv
<1> SUFFICES ASSUME origin \in Plain(net) \ Mems
    PROVE  (/\ \A t \in CellToNextSig(net, origin) : Seen(t) \/ t \in outs
            /\ \A t \in visiting : CellsDown(net, t) = {} \/ \E i \in 1 .. Len(stack) : stack[i].sig = t
            /\ \A t \in visited : \A d \in CellsDown(net, t) : Taken(t, d)
            /\ \A i \in 1 .. Len(stack) :
                 /\ \A d \in CellsDown(net, stack[i].sig) \ stack[i].cells : Taken(stack[i].sig, d)
                 /\ Inside(i) => /\ stack[i].cell \in ((Comb \cup Mems) \cap CellsDown(net, stack[i].sig)) \ stack[i].cells
                                 /\ stack[i].cell \in Mems => OnReadPort(net, stack[i].cell, stack[i].sig))'
  BY <1>0, <1>1, <1>8 DEF CompleteInv
<1>9. (\A t \in CellToNextSig(net, origin) : Seen(t) \/ t \in outs)'
  BY <1>0, <1>6 DEF CompleteInv
<1>10. (\A t \in visiting : CellsDown(net, t) = {} \/ \E i \in 1 .. Len(stack) : stack[i].sig = t)'
  <2> SUFFICES ASSUME NEW t \in visiting, CellsDown(net, t) # {}
               PROVE  \E i \in 1 .. Len(stack') : stack'[i].sig = t
    BY <1>0
  <2>1. PICK i \in 1 .. Len(stack) : stack[i].sig = t
    BY DEF CompleteInv
  <2>2. CASE i = Len(stack)
    BY <1>2, <1>3, <2>1, <2>2
  <2>3. CASE i # Len(stack)
    <3>1. i \in 1 .. Len(stack) - 1
      BY <1>2, <2>3
    <3> QED
      BY <1>3, <2>1, <3>1
  <2> QED
    BY <2>2, <2>3
<1>11. (\A t \in visited : \A d \in CellsDown(net, t) : Taken(t, d))'
  BY <1>0, <1>7 DEF CompleteInv
<1>12. ASSUME NEW i \in 1 .. Len(stack'), NEW t, t = stack'[i].sig, NEW d \in CellsDown(net, t) \ stack'[i].cells
       PROVE  Taken(t, d)'
  <2>1. CASE i = Len(stack)
    <3>1. t = s /\ stack'[i].cells = Top.cells \ {c} /\ Top.sig = s
      BY <1>3, <1>12, <2>1
    <3>2. CASE d = c
      BY <3>1, <3>2
    <3>3. CASE d # c
      <4>1. d \in CellsDown(net, stack[i].sig) \ stack[i].cells /\ stack[i].sig = t
        BY <1>2, <2>1, <3>1, <3>3
      <4>2. Taken(t, d)
        BY <1>2, <2>1, <4>1 DEF CompleteInv
      <4> QED
        BY <1>7, <4>2
    <3> QED
      BY <3>2, <3>3
  <2>2. CASE i # Len(stack)
    <3>1. i \in 1 .. Len(stack) - 1 /\ i \in 1 .. Len(stack)
      BY <1>2, <1>3, <2>2
    <3>2. t = stack[i].sig /\ d \in CellsDown(net, t) \ stack[i].cells
      BY <1>3, <1>12, <3>1
    <3>3. Taken(t, d)
      BY <3>1, <3>2 DEF CompleteInv
    <3> QED
      BY <1>7, <3>3
  <2> QED
    BY <2>1, <2>2
<1>13. (\A i \in 1 .. Len(stack) :
          Inside(i) => /\ stack[i].cell \in ((Comb \cup Mems) \cap CellsDown(net, stack[i].sig)) \ stack[i].cells
                       /\ stack[i].cell \in Mems => OnReadPort(net, stack[i].cell, stack[i].sig))'
  <2> SUFFICES ASSUME NEW i \in 1 .. Len(stack'), Inside(i)'
               PROVE  (/\ stack[i].cell \in ((Comb \cup Mems) \cap CellsDown(net, stack[i].sig)) \ stack[i].cells
                       /\ stack[i].cell \in Mems => OnReadPort(net, stack[i].cell, stack[i].sig))'
    OBVIOUS
  <2>1. CASE i = Len(stack)
    <3>1. sigs # {} /\ stack'[i] = f
      BY <1>3, <2>1 DEF Inside
    <3>2. f.cell = c /\ f.sig = s /\ f.cells = Top.cells \ {c}
      BY <1>3
    <3> QED
      BY <1>0, <1>1, <3>1, <3>2
  <2>2. CASE i # Len(stack)
    <3>1. i \in 1 .. Len(stack) - 1 /\ i \in 1 .. Len(stack) /\ i < Len(stack)
      BY <1>2, <1>3, <2>2
    <3>2. stack'[i] = stack[i] /\ Inside(i)
      BY <1>3, <3>1 DEF Inside
    <3> QED
      BY <1>0, <1>1, <3>1, <3>2 DEF CompleteInv
  <2> QED
    BY <2>1, <2>2
<1>14. (\A i \in 1 .. Len(stack) : \A d \in CellsDown(net, stack[i].sig) \ stack[i].cells : Taken(stack[i].sig, d))'
  <2> SUFFICES ASSUME NEW i \in 1 .. Len(stack'), NEW t, t = stack'[i].sig,
                      NEW d \in CellsDown(net, t) \ stack'[i].cells
               PROVE  Taken(t, d)'
    BY <1>0
  <2> QED
    BY <1>12
<1> QED
  BY <1>9, <1>10, <1>11, <1>13, <1>14

(* What is read behind a cell on a walk is read on that walk. *)
LEMMA ReadsTakenOver ==
  ASSUME net \in Netlists, NEW c \in Cells, NEW s, OnWalk(c, s), NEW d \in CellsDown(net, s) \cap Comb
  PROVE  ReadOnWalk(d) \subseteq ReadOnWalk(c)
<1> SUFFICES ASSUME NEW u \in net.wire, OnWalk(d, u) PROVE OnWalk(c, u)
  BY DEF ReadOnWalk
<1>1. PICK t \in CellToNextSig(net, d) : <<t, u>> \in WalkReach
  BY DEF OnWalk
<1>2. OnWalk(c, t)
  BY <1>1, WalkGoesOn
<1>3. PICK o \in CellToNextSig(net, c) : <<o, t>> \in WalkReach
  BY <1>2 DEF OnWalk
<1>4. o \in net.wire /\ t \in net.wire
  BY <1>2, WalkStarts, NetFacts
<1>5. <<o, u>> \in WalkReach
  BY <1>1, <1>3, <1>4, ReachFacts DEF WalkReach
<1> QED
  BY <1>5 DEF OnWalk

(* A step adds to what is recorded of the cell walked from, and to nothing *)
(* else.                                                                   *)
LEMMA TakeAdds ==
  ASSUME WalkInv, SoundInv, NEW c \in Cells, TakeCycle(c) \/ TakeReg(c) \/ TakeMem(c) \/ TakeComb(c)
  PROVE  /\ downRegs[origin] \subseteq downRegs'[origin] /\ downMems[origin] \subseteq downMems'[origin]
         /\ \A d \in done : downRegs'[d] = downRegs[d] /\ downMems'[d] = downMems[d]
<1>1. PICK R \in SUBSET FlowRegs(origin), W \in SUBSET FlowWrites(origin) :
             /\ downRegs' = [downRegs EXCEPT ![origin] = @ \cup R]
             /\ downMems' = [downMems EXCEPT ![origin] = @ \cup W]
  BY TakeRecords
<1>2. origin \in Cells /\ origin \notin done /\ done \subseteq Cells
  BY TakeFacts DEF TakeCycle, TakeReg, TakeMem, TakeComb, WalkInv
<1> QED
  BY <1>1, <1>2 DEF SoundInv

(* A step takes the cell up: a register and a write port are recorded, and *)
(* what is behind a cell is copied, or goes on to be visited, unless a     *)
(* call that is under way does so (cdfg.h:223-340).                        *)
LEMMA TakesUp ==
  ASSUME WalkInv, SoundInv, CompleteInv, origin \in Plain(net) \ Mems, NEW c \in Cells, NEW s, s = Top.sig,
         TakeCycle(c) \/ TakeReg(c) \/ TakeMem(c) \/ TakeComb(c)
  PROVE  Taken(s, c)'
<1>0. /\ UNCHANGED <<net, done, origin, visiting, visited>> /\ net \in Netlists /\ stack # << >> /\ Take(c)
      /\ origin \in Cells /\ origin \notin done /\ OnWalk(origin, s) /\ c \in CellsDown(net, s)
  BY TakeFacts DEF TakeCycle, TakeReg, TakeMem, TakeComb
<1>1. /\ Regs' = Regs /\ Mems' = Mems /\ Comb' = Comb
      /\ Regs \cap Mems = {} /\ Regs \cap Comb = {} /\ Mems \cap Comb = {}
      /\ \A d : ReadOnWalk(d)' = ReadOnWalk(d)
  BY <1>0, NetFrame, NetFacts
<1>2. ReadOnWalk(origin)' = ReadOnWalk(origin)
  <2>1. PICK o : o = origin
    OBVIOUS
  <2>2. ReadOnWalk(o)' = ReadOnWalk(o)
    BY <1>1
  <2> QED
    BY <1>0, <2>1, <2>2
<1>3. CASE TakeCycle(c)
  <2>1. PICK i \in 1 .. Len(stack) - 1 : c = stack[i].cell
    <3>1. DOMAIN Callers = 1 .. Len(stack) - 1 /\ \A i \in 1 .. Len(stack) - 1 : Callers[i] = stack[i]
      <4>1. Callers \in Seq(GoodFrames) /\ Len(Callers) = Len(stack) - 1
        BY <1>0, TopFacts
      <4>2. DOMAIN Callers = 1 .. Len(Callers)
        BY <4>1, LenProperties
      <4> QED
        BY <1>0, <4>1, <4>2, TopFacts
    <3> QED
      BY <1>3, <3>1 DEF TakeCycle, PathCells
  <2>2. i \in 1 .. Len(stack) /\ Inside(i)
    BY <1>0, TopFacts DEF Inside
  <2>3. PICK t : t = stack[i].sig
    OBVIOUS
  <2>4. /\ c \in Comb \cup Mems /\ c \in CellsDown(net, t) \ stack[i].cells
        /\ c \in Mems => OnReadPort(net, c, t)
    BY <2>1, <2>2, <2>3 DEF CompleteInv
  <2>5. Taken(t, c)
    BY <2>2, <2>3, <2>4 DEF CompleteInv
  <2>6. c \in Mems => c \in ReadOnWalk(origin)
    <3>1. stack[i] \in GoodFrames
      BY <2>2, ElementOfSeq DEF WalkInv
    <3>2. OnWalk(origin, t) /\ t \in net.wire
      BY <2>3, <3>1 DEF GoodFrames, Frames
    <3> QED
      BY <2>4, <3>2 DEF ReadOnWalk
  <2>7. c \in Comb \cap Plain(net) => Entered(c)'
    <3> SUFFICES ASSUME c \in Comb \cap Plain(net) PROVE Entered(c)'
      OBVIOUS
    <3>1. Entered(c)
      BY <2>5 DEF Taken
    <3>2. CASE /\ c \in done /\ downRegs[c] \subseteq downRegs[origin] /\ downMems[c] \subseteq downMems[origin]
               /\ ReadOnWalk(c) \subseteq ReadOnWalk(origin)
      BY <1>0, <1>1, <1>2, <1>3, <3>2 DEF Entered, TakeCycle, down
    <3>3. CASE \A q \in CellToNextSig(net, c) : Seen(q) \/ Pending(c, q)
      <4>1. \A q : Seen(q) => Seen(q)'
        BY <1>0 DEF Seen
      <4>2. \A q : Pending(c, q) => Pending(c, q)'
        <5> SUFFICES ASSUME NEW q, NEW j \in 1 .. Len(stack), stack[j].cell = c, q \in stack[j].sigs
                     PROVE  j \in 1 .. Len(stack') /\ stack'[j].cell = c /\ q \in stack'[j].sigs
          BY DEF Pending
        <5>1. /\ Top.sigs = {} /\ Top = stack[Len(stack)] /\ Len(stack) \in Nat \ {0}
          BY <1>0, TopFacts, TakeFacts
        <5>2. j \in 1 .. Len(stack) - 1
          BY <5>1
        <5>3. Len(stack') = Len(stack) /\ stack'[j] = stack[j]
          BY <1>0, <1>3, <5>2, PassStack DEF TakeCycle, Skip
        <5> QED
          BY <5>3
      <4> QED
        BY <1>0, <3>3, <4>1, <4>2 DEF Entered
    <3> QED
      BY <3>1, <3>2, <3>3 DEF Entered
  <2> QED
    BY <1>1, <1>2, <1>0, <2>4, <2>6, <2>7 DEF Taken
<1>4. CASE TakeReg(c)
  <2>1. c \in Regs /\ c \in downRegs'[origin]
    BY <1>0, <1>4 DEF TakeReg, SoundInv
  <2> QED
    BY <1>0, <1>1, <2>1 DEF Taken
<1>5. CASE TakeMem(c)
  <2>1. c \in Mems /\ WritesOf(net, c, s) \subseteq downMems'[origin]
    BY <1>0, <1>5 DEF TakeMem, SoundInv
  <2> QED
    BY <1>0, <1>1, <2>1 DEF Taken
<1>6. CASE TakeComb(c)
  <2>1. c \in Comb
    BY <1>6 DEF TakeComb, Comb
  <2>2. CASE Known(c)
    <3>1. c \in done /\ c # origin /\ CopyDown(c)
      BY <1>0, <1>6, <2>2 DEF TakeComb, Known
    <3>2. downRegs'[c] \subseteq downRegs'[origin] /\ downMems'[c] \subseteq downMems'[origin]
      BY <1>0, <3>1 DEF CopyDown, SoundInv
    <3>3. ReadOnWalk(c) \subseteq ReadOnWalk(origin)
      BY <1>0, <2>1, ReadsTakenOver
    <3>4. Entered(c)'
      BY <1>0, <1>1, <1>2, <3>1, <3>2, <3>3 DEF Entered
    <3> QED
      BY <1>0, <1>1, <2>1, <3>4 DEF Taken
  <2>3. CASE ~ Known(c)
    <3>1. Pass(c, CellToNextSig(net, c))
      BY <1>6, <2>3 DEF TakeComb
    <3>2. \A q \in CellToNextSig(net, c) : Pending(c, q)'
      <4>1. Len(stack) \in Nat \ {0}
        BY <1>0, TopFacts
      <4>2. /\ Len(stack') = Len(stack) /\ stack'[Len(stack)].cell = c
            /\ stack'[Len(stack)].sigs = CellToNextSig(net, c)
        BY <1>0, <3>1, PassStack
      <4> QED
        BY <4>1, <4>2 DEF Pending
    <3>3. Entered(c)'
      BY <1>0, <3>2 DEF Entered
    <3> QED
      BY <1>0, <1>1, <2>1, <3>3 DEF Taken
  <2> QED
    BY <2>2, <2>3
<1> QED
  BY <1>3, <1>4, <1>5, <1>6

(* A wire has been visited: all cells at it are taken (cdfg.h:341-345). *)
LEMMA ReturnComplete == WalkInv /\ CompleteInv /\ Return => CompleteInv'
<1> SUFFICES ASSUME WalkInv, CompleteInv, Return PROVE CompleteInv'
  OBVIOUS
<1>0. /\ UNCHANGED <<net, done, origin, outs, downRegs, downMems>> /\ stack # << >>
      /\ Top.sigs = {} /\ Top.cells = {} /\ stack' = Callers
  BY DEF Return, down
<1>1. /\ Mems' = Mems /\ Comb' = Comb /\ Top = stack[Len(stack)] /\ Len(stack) \in Nat \ {0}
      /\ Len(stack') = Len(stack) - 1 /\ \A i \in 1 .. Len(stack) - 1 : stack'[i] = stack[i]
  BY <1>0, TopFacts, NetFrame
<1>2. PICK s : s = Top.sig
  OBVIOUS
<1>3. visiting' = visiting \ {s} /\ visited' = visited \cup {s}
  BY <1>2 DEF Return
<1>4. \A t : Seen(t) => Seen(t)'
  BY <1>3 DEF Seen
<1>5. \A c, t : Pending(c, t) => Pending(c, t)'
  <2> SUFFICES ASSUME NEW c, NEW t, NEW i \in 1 .. Len(stack), stack[i].cell = c, t \in stack[i].sigs
               PROVE  i \in 1 .. Len(stack') /\ stack'[i].cell = c /\ t \in stack'[i].sigs
    BY DEF Pending
  <2>1. i # Len(stack)
    BY <1>0, <1>1
  <2>2. i \in 1 .. Len(stack) - 1
    BY <1>1, <2>1
  <2> QED
    BY <1>1, <2>2
<1>6. \A t, c : Taken(t, c) => Taken(t, c)'
  BY <1>0, <1>4, <1>5, TakenGrows
<1>7. (\A c \in done : Complete(c))'
  BY <1>0, DoneStays DEF CompleteInv
<1> SUFFICES ASSUME origin \in Plain(net) \ Mems
    PROVE  (/\ \A t \in CellToNextSig(net, origin) : Seen(t) \/ t \in outs
            /\ \A t \in visiting : CellsDown(net, t) = {} \/ \E i \in 1 .. Len(stack) : stack[i].sig = t
            /\ \A t \in visited : \A c \in CellsDown(net, t) : Taken(t, c)
            /\ \A i \in 1 .. Len(stack) :
                 /\ \A c \in CellsDown(net, stack[i].sig) \ stack[i].cells : Taken(stack[i].sig, c)
                 /\ Inside(i) => /\ stack[i].cell \in ((Comb \cup Mems) \cap CellsDown(net, stack[i].sig)) \ stack[i].cells
                                 /\ stack[i].cell \in Mems => OnReadPort(net, stack[i].cell, stack[i].sig))'
  BY <1>0, <1>1, <1>7 DEF CompleteInv
<1>8. (\A t \in CellToNextSig(net, origin) : Seen(t) \/ t \in outs)'
  BY <1>0, <1>4 DEF CompleteInv
<1>9. (\A t \in visiting : CellsDown(net, t) = {} \/ \E i \in 1 .. Len(stack) : stack[i].sig = t)'
  <2> SUFFICES ASSUME NEW t \in visiting \ {s}, CellsDown(net, t) # {}
               PROVE  \E i \in 1 .. Len(stack') : stack'[i].sig = t
    BY <1>0, <1>3
  <2>1. PICK i \in 1 .. Len(stack) : stack[i].sig = t
    BY DEF CompleteInv
  <2>2. i \in 1 .. Len(stack) - 1
    BY <1>1, <1>2, <2>1
  <2> QED
    BY <1>1, <2>1, <2>2
<1>10. (\A t \in visited : \A c \in CellsDown(net, t) : Taken(t, c))'
  <2> SUFFICES ASSUME NEW t \in visited \cup {s}, NEW c \in CellsDown(net, t)
               PROVE  Taken(t, c)
    BY <1>0, <1>3, <1>6
  <2>1. CASE t = s
    <3>1. Len(stack) \in 1 .. Len(stack) /\ t = stack[Len(stack)].sig /\ stack[Len(stack)].cells = {}
      BY <1>0, <1>1, <1>2, <2>1
    <3> QED
      BY <3>1 DEF CompleteInv
  <2>2. CASE t \in visited
    BY <2>2 DEF CompleteInv
  <2> QED
    BY <2>1, <2>2
<1>11. ASSUME NEW i \in 1 .. Len(stack')
       PROVE  i \in 1 .. Len(stack) /\ i < Len(stack) /\ stack'[i] = stack[i] /\ Inside(i)
  BY <1>1 DEF Inside
<1>12. (\A i \in 1 .. Len(stack) : \A c \in CellsDown(net, stack[i].sig) \ stack[i].cells : Taken(stack[i].sig, c))'
  <2> SUFFICES ASSUME NEW i \in 1 .. Len(stack'), NEW t, t = stack'[i].sig,
                      NEW c \in CellsDown(net, t) \ stack'[i].cells
               PROVE  Taken(t, c)'
    BY <1>0
  <2>1. Taken(t, c)
    BY <1>11 DEF CompleteInv
  <2> QED
    BY <1>6, <2>1
<1>13. (\A i \in 1 .. Len(stack) :
          Inside(i) => /\ stack[i].cell \in ((Comb \cup Mems) \cap CellsDown(net, stack[i].sig)) \ stack[i].cells
                       /\ stack[i].cell \in Mems => OnReadPort(net, stack[i].cell, stack[i].sig))'
  BY <1>0, <1>1, <1>11 DEF CompleteInv
<1> QED
  BY <1>8, <1>9, <1>10, <1>12, <1>13

(* Nothing of the walk changes. *)
LEMMA WalkStays == CompleteInv /\ UNCHANGED <<net, done, walk, down>> => CompleteInv'
<1> SUFFICES ASSUME CompleteInv, UNCHANGED <<net, done, walk, down>> PROVE CompleteInv'
  OBVIOUS
<1>1. UNCHANGED <<origin, outs, stack, visiting, visited, downRegs, downMems>>
  BY DEF walk, down
<1>2. Mems' = Mems /\ Comb' = Comb
  BY NetFrame
<1>3. (\A t : Seen(t) => Seen(t)') /\ \A c, t : Pending(c, t) => Pending(c, t)'
  BY <1>1 DEF Seen, Pending
<1>4. \A t, c : Taken(t, c) => Taken(t, c)'
  BY <1>1, <1>3, TakenGrows
<1>5. (\A c \in done : Complete(c))'
  BY <1>1, DoneStays DEF CompleteInv
<1>6. (\A i \in 1 .. Len(stack) : \A c \in CellsDown(net, stack[i].sig) \ stack[i].cells : Taken(stack[i].sig, c))'
       \/ origin \notin Plain(net) \ Mems
  <2> SUFFICES ASSUME origin \in Plain(net) \ Mems, NEW i \in 1 .. Len(stack), NEW t, t = stack[i].sig,
                      NEW c \in CellsDown(net, t) \ stack[i].cells
               PROVE  Taken(t, c)'
    BY <1>1
  <2>1. Taken(t, c)
    BY DEF CompleteInv
  <2> QED
    BY <1>4, <2>1
<1>7. (\A i \in 1 .. Len(stack) : Inside(i)' = Inside(i))
  BY <1>1 DEF Inside
<1> QED
  BY <1>1, <1>2, <1>3, <1>4, <1>5, <1>6, <1>7 DEF CompleteInv

(* Nothing has been walked. *)
LEMMA InitComplete == Init => CompleteInv
<1> SUFFICES ASSUME Init PROVE CompleteInv
  OBVIOUS
<1>1. None \notin Plain(net)
  BY NetFacts DEF Init, Plain, Cells
<1> QED
  BY <1>1 DEF Init, CompleteInv

(* What has been walked is complete, at every step of every walk. *)
LEMMA CompleteNext == WalkInv /\ SoundInv /\ CompleteInv /\ [Next]_vars => CompleteInv'
<1> SUFFICES ASSUME WalkInv, SoundInv, CompleteInv, [Next]_vars PROVE CompleteInv'
  OBVIOUS
<1>0. net \in Netlists /\ None \notin Cells /\ None \notin Plain(net)
  BY NetFacts DEF WalkInv, Plain, Cells
<1>1. ASSUME NEW c \in Cells, StartCell(c) PROVE CompleteInv'
  <2>1. /\ UNCHANGED <<net, done, downRegs, downMems>> /\ stack' = << >> /\ Mems' = Mems
        /\ origin' = c /\ outs' = DownSigs(net, c) /\ visiting' = {} /\ visited' = {}
    BY <1>1, NetFrame DEF StartCell, WalkInv, down
  <2>2. (\A d \in done : Complete(d))'
    BY <2>1, DoneStays DEF CompleteInv
  <2>3. c \in Plain(net) => outs' = CellToNextSig(net, c)
    BY <1>0, <2>1, NetFacts
  <2> QED
    BY <2>1, <2>2, <2>3 DEF CompleteInv
<1>2. CASE EndCell
  <2>1. /\ UNCHANGED <<net, downRegs, downMems>> /\ done' = done \cup {origin} /\ origin' = None
        /\ stack = << >> /\ outs = {} /\ origin \in Cells
    BY <1>2 DEF EndCell, down, WalkInv
  <2>2. Complete(origin)
    BY <2>1, WalkEnds DEF Complete
  <2>3. \A d \in done' : Complete(d)
    BY <2>1, <2>2 DEF CompleteInv
  <2>4. Mems' = Mems /\ \A d : CombRegs(d)' = CombRegs(d) /\ CombWrites(d)' = CombWrites(d)
    BY <2>1, NetFrame
  <2>5. (\A d \in done : Complete(d))'
    BY <2>1, <2>3, <2>4 DEF Complete
  <2> QED
    BY <1>0, <2>1, <2>4, <2>5 DEF CompleteInv
<1>3. ASSUME NEW s \in net.wire, VisitOutput(s) PROVE CompleteInv'
  <2>1. /\ UNCHANGED <<net, origin, done, visited, down>> /\ stack = << >> /\ Visit(s, << >>)
        /\ outs \subseteq outs' \cup {s} /\ origin \in Cells
    BY <1>3 DEF VisitOutput, WalkInv
  <2> DEFINE calls == << >>
  <2>2. calls \in Seq(GoodFrames) /\ Len(calls) = Len(stack) /\ 1 .. Len(stack) = {} /\ Visit(s, calls)
    BY <2>1, EmptySeq
  <2> HIDE DEF calls
  <2> QED
    BY <2>1, <2>2, VisitComplete
<1>4. ASSUME NEW s \in net.wire, VisitNext(s) PROVE CompleteInv'
  <2>1. /\ UNCHANGED <<net, origin, done, visited, down, outs>> /\ stack # << >> /\ s \in Top.sigs
    BY <1>4 DEF VisitNext
  <2>2. /\ origin \in Cells /\ Len(stack) \in Nat \ {0} /\ Top \in GoodFrames /\ Top = stack[Len(stack)]
        /\ Callers \in Seq(GoodFrames) /\ Len(Callers) = Len(stack) - 1
        /\ \A i \in 1 .. Len(stack) - 1 : Callers[i] = stack[i]
    BY <2>1, TopFacts
  <2> DEFINE f == [Top EXCEPT !.sigs = @ \ {s}]
             calls == Append(Callers, f)
  <2>3. /\ f \in GoodFrames /\ f.sig = Top.sig /\ f.cells = Top.cells /\ f.cell = Top.cell
        /\ f.sigs = Top.sigs \ {s}
    BY <2>2 DEF GoodFrames, Frames
  <2>4. Visit(s, calls)
    BY <1>4 DEF VisitNext
  <2> HIDE DEF f
  <2>5. /\ calls \in Seq(GoodFrames) /\ Len(calls) = Len(Callers) + 1 /\ calls[Len(Callers) + 1] = f
        /\ \A i \in 1 .. Len(Callers) : calls[i] = Callers[i]
    BY <2>2, <2>3, AppendProperties
  <2> HIDE DEF calls
  <2>6. /\ Len(calls) = Len(stack) /\ calls[Len(stack)] = f
        /\ \A i \in 1 .. Len(stack) - 1 : calls[i] = stack[i]
    BY <2>2, <2>5
  <2>7. ASSUME NEW i \in 1 .. Len(stack)
        PROVE  /\ calls[i].sig = stack[i].sig /\ calls[i].cells = stack[i].cells /\ calls[i].cell = stack[i].cell
               /\ calls[i].sigs \subseteq stack[i].sigs /\ stack[i].sigs \subseteq calls[i].sigs \cup {s}
               /\ stack[i].sigs # {} \/ i < Len(stack)
    <3>1. CASE i = Len(stack)
      BY <2>1, <2>2, <2>3, <2>6, <3>1
    <3>2. CASE i # Len(stack)
      <4>1. i \in 1 .. Len(stack) - 1 /\ i < Len(stack)
        BY <2>2, <3>2
      <4> QED
        BY <2>6, <4>1
    <3> QED
      BY <3>1, <3>2
  <2> QED
    BY <2>1, <2>2, <2>4, <2>5, <2>6, <2>7, VisitComplete
<1>5. ASSUME NEW c \in Cells, TakeCycle(c) \/ TakeReg(c) \/ TakeMem(c) \/ TakeComb(c) PROVE CompleteInv'
  <2>1. PICK s : s = Top.sig
    OBVIOUS
  <2>2. Take(c)
    BY <1>5 DEF TakeCycle, TakeReg, TakeMem, TakeComb
  <2>3. PICK sigs : Pass(c, sigs) /\ (sigs # {} => c \in Comb \cup Mems /\ (c \in Mems => OnReadPort(net, c, s)))
    BY <1>0, <1>5, <2>1, NetFacts DEF TakeCycle, TakeReg, TakeMem, TakeComb, Skip, Comb
  <2> QED
    BY <1>5, <2>1, <2>2, <2>3, TakeAdds, TakesUp, TakeComplete
<1>6. CASE Return
  BY <1>6, ReturnComplete
<1>7. CASE RelateRegs \/ Unsupported \/ RelateMems \/ \E m \in Mems : HandleMem(m)
  BY <1>7, WalkStays DEF RelateRegs, HandleMem, Unsupported, RelateMems
<1>8. CASE UNCHANGED vars
  BY <1>8, WalkStays DEF vars
<1> QED
  BY <1>1, <1>2, <1>3, <1>4, <1>5, <1>6, <1>7, <1>8 DEF Next

-----------------------------------------------------------------------------
(* The last of some read ports, the one whose address is kept. *)
LEMMA LastPort ==
  ASSUME NEW n \in Nat, NEW T \in SUBSET (1 .. n), T # {}
  PROVE  \E x \in T : \A y \in T : x >= y
<1> DEFINE U == {k \in Nat : n - k \in T}
<1>1. U # {} /\ U \subseteq Nat
  <2>1. PICK x \in T : x \in 1 .. n
    OBVIOUS
  <2>2. n - x \in Nat /\ n - (n - x) = x
    BY <2>1
  <2> QED
    BY <2>1, <2>2
<1>2. PICK k \in U : \A j \in U : ~ (<<j, k>> \in OpToRel(<, Nat))
  BY <1>1, NatLessThanWellFounded, WFMin
<1>3. \A j \in U : ~ (j < k)
  <2> SUFFICES ASSUME NEW j \in U, j < k PROVE FALSE
    OBVIOUS
  <2>1. <<j, k>> \in Nat \X Nat /\ <<j, k>>[1] = j /\ <<j, k>>[2] = k
    BY <1>1, <1>2
  <2>2. <<j, k>> \in OpToRel(<, Nat)
    BY <2>1 DEF OpToRel
  <2> QED
    BY <1>2, <2>2
<1>4. ASSUME NEW y \in T PROVE n - k >= y
  <2>1. y \in 1 .. n /\ k \in Nat
    BY <1>1, <1>2
  <2>2. n - y \in Nat /\ n - (n - y) = y
    BY <2>1
  <2>3. n - y \in U
    BY <2>2
  <2>4. ~ (n - y < k)
    BY <1>3, <2>3
  <2> QED
    BY <2>1, <2>2, <2>4
<1> QED
  BY <1>2, <1>4

(* It is one of them. *)
LEMMA LastIsOne ==
  ASSUME NEW n \in Nat, NEW T \in SUBSET (1 .. n), T # {}
  PROVE  Max(T) \in T
BY LastPort DEF Max

(* A read port is one of the memory's, its address a wire. *)
LEMMA PortFacts ==
  ASSUME net \in Netlists, NEW m \in Mems
  PROVE  /\ Len(net.rd[m]) \in Nat /\ DOMAIN net.rd[m] = 1 .. Len(net.rd[m])
         /\ \A i \in DOMAIN net.rd[m] : /\ ReadPort(m, i) \in ReadPorts /\ Data(m, i) \in net.wire
                                        /\ ReadPort(m, i).mem = m /\ ReadPort(m, i).addr = net.rd[m][i].addr
<1>1. net.rd[m] \in Seq([addr : net.wire, data : net.out[m]]) /\ net.out[m] \subseteq net.wire
  BY NetFacts
<1>2. Len(net.rd[m]) \in Nat /\ DOMAIN net.rd[m] = 1 .. Len(net.rd[m])
  BY <1>1, LenProperties
<1>3. \A i \in DOMAIN net.rd[m] : net.rd[m][i] \in [addr : net.wire, data : net.out[m]]
  BY <1>1, <1>2, ElementOfSeq
<1> QED
  BY <1>1, <1>2, <1>3 DEF ReadPort, ReadPorts, Data

(* What the relations are made of does not change once they are entered. *)
LEMMA ResultFrame ==
  ASSUME UNCHANGED <<net, downRegs, downMems>>
  PROVE  /\ Regs' = Regs /\ Mems' = Mems /\ ReadPorts' = ReadPorts
         /\ \A m : Supported(m)' = Supported(m)
         /\ \A m, i : /\ DataRegs(m, i)' = DataRegs(m, i) /\ DataMems(m, i)' = DataMems(m, i)
                      /\ ReadPort(m, i)' = ReadPort(m, i)
<1>1. Regs' = Regs /\ Mems' = Mems
  BY NetFrame
<1> QED
  BY <1>1 DEF ReadPorts, Supported, Data, DataRegs, DataMems, ReadPort

(* The read ports of one more memory are entered (cdfg.h:387-456). *)
LEMMA HandleResult ==
  ASSUME WalkInv, ResultInv, NEW m \in Mems, HandleMem(m)
  PROVE  ResultInv'
<1>0. /\ UNCHANGED <<net, stage, regReg, regMem, downRegs, downMems>> /\ stage = "mems" /\ net \in Netlists
      /\ m \in todo /\ todo' = todo \ {m} /\ Supported(m)
  BY DEF HandleMem, down, WalkInv
<1> DEFINE ports == DOMAIN net.rd[m]
           targets == UNION {DataMems(m, i) : i \in ports}
<1>1. /\ upRdport' = [r \in Regs |-> upRdport[r] \cup {ReadPort(m, i) : i \in {j \in ports : r \in DataRegs(m, j)}}]
      /\ rdToWr' = [t \in DOMAIN rdToWr \cup targets |->
                      IF t \in targets THEN ReadPort(m, Max({i \in ports : t \in DataMems(m, i)})) ELSE rdToWr[t]]
  BY DEF HandleMem, ReadPort
<1>2. /\ Regs' = Regs /\ Mems' = Mems /\ ReadPorts' = ReadPorts
      /\ \A n : Supported(n)' = Supported(n)
      /\ \A n, i : /\ DataRegs(n, i)' = DataRegs(n, i) /\ DataMems(n, i)' = DataMems(n, i)
                   /\ ReadPort(n, i)' = ReadPort(n, i)
  BY <1>0, ResultFrame
<1>3. /\ Len(net.rd[m]) \in Nat /\ ports = 1 .. Len(net.rd[m])
      /\ \A i \in ports : ReadPort(m, i) \in ReadPorts
  BY <1>0, PortFacts
<1>4. todo \subseteq Mems /\ Mems \ todo' = (Mems \ todo) \cup {m}
  BY <1>0 DEF ResultInv
<1>5. (todo \subseteq Mems /\ \A n \in Mems \ todo : Supported(n))'
  BY <1>0, <1>2, <1>4 DEF ResultInv
<1>6. upRdport' \in [Regs -> SUBSET ReadPorts]
  BY <1>1, <1>3 DEF ResultInv
<1>7. ASSUME NEW r \in Regs, NEW from \in ReadPorts
      PROVE  from \in upRdport'[r] <=>
               \E n \in (Mems \ todo) \cup {m} : \E i \in DOMAIN net.rd[n] : from = ReadPort(n, i) /\ r \in DataRegs(n, i)
  <2>1. from \in upRdport'[r] <=>
          from \in upRdport[r] \/ \E i \in ports : from = ReadPort(m, i) /\ r \in DataRegs(m, i)
    BY <1>1
  <2>2. from \in upRdport[r] <=>
          \E n \in Mems \ todo : \E i \in DOMAIN net.rd[n] : from = ReadPort(n, i) /\ r \in DataRegs(n, i)
    BY DEF ResultInv
  <2> HIDE DEF ports
  <2> QED
    BY <2>1, <2>2 DEF ports
<1>8. ASSUME NEW t \in DOMAIN rdToWr'
      PROVE  \E n \in (Mems \ todo) \cup {m} : \E i \in DOMAIN net.rd[n] :
               rdToWr'[t] = ReadPort(n, i) /\ t \in DataMems(n, i)
  <2>1. CASE t \in targets
    <3>1. PICK T : T = {i \in ports : t \in DataMems(m, i)}
      OBVIOUS
    <3>2. T # {} /\ T \in SUBSET (1 .. Len(net.rd[m]))
      BY <1>3, <2>1, <3>1
    <3>3. Max(T) \in T
      BY <1>3, <3>2, LastIsOne
    <3>4. rdToWr'[t] = ReadPort(m, Max(T))
      BY <1>1, <2>1, <3>1
    <3> QED
      BY <3>1, <3>3, <3>4
  <2>2. CASE t \notin targets
    <3>1. t \in DOMAIN rdToWr /\ rdToWr'[t] = rdToWr[t]
      BY <1>1, <2>2
    <3> QED
      BY <3>1 DEF ResultInv
  <2> QED
    BY <2>1, <2>2
<1>9. (\A r \in Regs : \A from \in ReadPorts : from \in upRdport[r] <=>
         \E n \in Mems \ todo : \E i \in DOMAIN net.rd[n] : from = ReadPort(n, i) /\ r \in DataRegs(n, i))'
  BY <1>0, <1>2, <1>4, <1>7
<1>10. (\A t \in DOMAIN rdToWr : \E n \in Mems \ todo : \E i \in DOMAIN net.rd[n] :
         rdToWr[t] = ReadPort(n, i) /\ t \in DataMems(n, i))'
  BY <1>0, <1>2, <1>4, <1>8
<1>11. (stage # "walk" => regReg = [r \in Regs |-> downRegs[r]])'
  BY <1>0, <1>2 DEF ResultInv
<1>12. (stage # "end" => regMem = [r \in Regs |-> {}])'
  BY <1>0, <1>2 DEF ResultInv
<1> QED
  BY <1>0, <1>2, <1>5, <1>6, <1>9, <1>10, <1>11, <1>12 DEF ResultInv

(* Nothing has been entered. *)
LEMMA InitResult == Init => ResultInv
<1> SUFFICES ASSUME Init PROVE ResultInv
  OBVIOUS
<1>1. /\ stage = "walk" /\ regReg = [r \in Regs |-> {}] /\ todo = Mems
      /\ upRdport = [r \in Regs |-> {}] /\ rdToWr = << >> /\ regMem = [r \in Regs |-> {}]
  BY DEF Init
<1>2. Mems \ todo = {} /\ DOMAIN rdToWr = {}
  BY <1>1
<1> QED
  BY <1>1, <1>2 DEF ResultInv

(* The relations are what was recorded, and what the data of the memories  *)
(* handled so far feed.                                                    *)
LEMMA ResultNext == WalkInv /\ SoundInv /\ ResultInv /\ [Next]_vars => ResultInv'
<1> SUFFICES ASSUME WalkInv, SoundInv, ResultInv, [Next]_vars PROVE ResultInv'
  OBVIOUS
<1>1. ASSUME net' = net, stage' = stage, stage = "walk", UNCHANGED result PROVE ResultInv'
  <2>1. /\ Regs' = Regs /\ Mems' = Mems /\ ReadPorts' = ReadPorts
        /\ UNCHANGED <<regReg, todo, upRdport, rdToWr, regMem>>
    BY <1>1, NetFrame DEF result, ReadPorts
  <2>2. Mems \ todo = {} /\ DOMAIN rdToWr = {}
    BY <1>1 DEF ResultInv
  <2> QED
    BY <1>1, <2>1, <2>2 DEF ResultInv
<1>2. ASSUME UNCHANGED <<net, stage, downRegs, downMems, result>> PROVE ResultInv'
  <2>1. UNCHANGED <<regReg, todo, upRdport, rdToWr, regMem>>
    BY <1>2 DEF result
  <2> QED
    BY <1>2, <2>1, ResultFrame DEF ResultInv
<1>3. ASSUME NEW c \in Cells, StartCell(c) PROVE ResultInv'
  BY <1>1, <1>3 DEF StartCell
<1>4. ASSUME NEW c \in Cells, TakeCycle(c) \/ TakeReg(c) \/ TakeMem(c) \/ TakeComb(c) PROVE ResultInv'
  <2>1. Take(c)
    BY <1>4 DEF TakeCycle, TakeReg, TakeMem, TakeComb
  <2>2. stage = "walk"
    BY <2>1, TopFacts DEF Take
  <2> QED
    BY <1>1, <2>1, <2>2 DEF Take
<1>5. ASSUME NEW s \in net.wire, VisitOutput(s) \/ VisitNext(s) PROVE ResultInv'
  <2>1. stage = "walk"
    BY <1>5, TopFacts DEF VisitOutput, VisitNext
  <2> QED
    BY <1>1, <1>5, <2>1 DEF VisitOutput, VisitNext
<1>6. CASE Return
  BY <1>1, <1>6, TopFacts DEF Return
<1>7. CASE EndCell
  BY <1>1, <1>7 DEF EndCell
<1>8. CASE RelateRegs
  <2>1. UNCHANGED <<net, downRegs, downMems, todo, upRdport, rdToWr, regMem>>
    BY <1>8 DEF RelateRegs, down
  <2>2. /\ stage = "walk" /\ stage' = "mems" /\ regReg' = [r \in Regs |-> downRegs[r]]
    BY <1>8 DEF RelateRegs
  <2>3. /\ Regs' = Regs /\ Mems' = Mems /\ ReadPorts' = ReadPorts
    BY <2>1, ResultFrame
  <2>4. Mems \ todo = {} /\ DOMAIN rdToWr = {}
    BY <2>2 DEF ResultInv
  <2> QED
    BY <2>1, <2>2, <2>3, <2>4 DEF ResultInv
<1>9. ASSUME NEW m \in Mems, HandleMem(m) PROVE ResultInv'
  BY <1>9, HandleResult
<1>10. CASE Unsupported
  <2>1. UNCHANGED <<net, downRegs, downMems, regReg, todo, upRdport, rdToWr, regMem>>
    BY <1>10 DEF Unsupported, down, result
  <2> QED
    BY <1>10, <2>1, ResultFrame DEF Unsupported, ResultInv
<1>11. CASE RelateMems
  <2>1. UNCHANGED <<net, downRegs, downMems, regReg, todo, upRdport, rdToWr>>
    BY <1>11 DEF RelateMems, down
  <2> QED
    BY <1>11, <2>1, ResultFrame DEF RelateMems, ResultInv
<1>12. CASE UNCHANGED vars
  BY <1>2, <1>12 DEF vars, down
<1> QED
  BY <1>3, <1>4, <1>5, <1>6, <1>7, <1>8, <1>9, <1>10, <1>11, <1>12 DEF Next

-----------------------------------------------------------------------------
(* The invariant holds at the start and is kept by every step. *)
LEMMA Inductive ==
  /\ Init => IInv
  /\ IInv /\ [Next]_vars => IInv'
<1>1. Init => IInv
  BY InitWalk, InitComplete, InitResult DEF IInv
<1>2. IInv /\ [Next]_vars => IInv'
  BY WalkNext, SoundNext, CompleteNext, ResultNext DEF IInv
<1> QED
  BY <1>1, <1>2

(* So it always holds. *)
LEMMA Invariance == Spec => []IInv
BY Inductive, PTL DEF Spec

(* A cell fed by the data of a read port is an ordinary one or a register, *)
(* if the memory's ports are supported (cdfg.h:403-420).                   *)
LEMMA FedFacts ==
  ASSUME net \in Netlists, NEW m \in Mems, NEW i \in DOMAIN net.rd[m]
  PROVE  /\ SigToNextCell(net, Data(m, i)) \subseteq ReadBy(net, m, net.rd[m][i].addr)
         /\ \A c \in SigToNextCell(net, Data(m, i)) :
              /\ c \in Cells /\ c \in CellsDown(net, Data(m, i))
              /\ c \in Regs \cup Mems \cup Comb
<1>1. SigToNextCell(net, Data(m, i)) \subseteq ReadBy(net, m, net.rd[m][i].addr)
  BY DEF ReadBy, Data
<1>2. ASSUME NEW c \in SigToNextCell(net, Data(m, i))
      PROVE  c \in Cells /\ c \in CellsDown(net, Data(m, i)) /\ c \in Regs \cup Mems \cup Comb
  <2>1. c \in Cells /\ Data(m, i) \in InvSigToNextCell(net, c)
    BY <1>2 DEF SigToNextCell, Cells
  <2>2. c \in CellsDown(net, Data(m, i))
    BY <1>2 DEF CellsDown
  <2>3. net.kind[c] \in Kinds
    BY <2>1, NetlistsAssumption DEF Cells
  <2>4. net.kind[c] # "custom"
    <3> SUFFICES ASSUME c \in Kind(net, "custom") PROVE FALSE
      BY <2>1 DEF Kind, Cells
    <3>1. net.in[c] \subseteq IgnoreSigs(net)
      BY DEF IgnoreSigs
    <3> QED
      BY <2>1, <3>1 DEF InvSigToNextCell
  <2>5. c \in Regs \cup Mems \cup Comb
    BY <2>1, <2>3, <2>4 DEF Kinds, Regs, Mems, Comb, Kind, Cells
  <2> QED
    BY <2>1, <2>2, <2>5
<1> QED
  BY <1>1, <1>2

(* The walk, the calls under way and the relations are of their types;     *)
(* nothing is ever recorded as a register behind a memory (cdfg.h:366).    *)
THEOREM TypeCorrect == Spec => []TypeOK
<1>1. IInv => TypeOK
  <2> SUFFICES ASSUME IInv PROVE TypeOK
    OBVIOUS
  <2>0. net \in Netlists
    BY DEF IInv, WalkInv
  <2>1. /\ stage \in {"walk", "mems", "end", "abort"} /\ done \subseteq Cells /\ origin \in Cells \cup {None}
        /\ visiting \subseteq net.wire /\ visited \subseteq net.wire
    BY DEF IInv, WalkInv
  <2>2. outs \subseteq net.wire
    <3>1. CASE origin = None
      BY <3>1 DEF IInv, WalkInv
    <3>2. CASE origin # None
      BY <2>0, <2>1, <3>2, NetFacts DEF IInv, WalkInv
    <3> QED
      BY <3>1, <3>2
  <2>3. \A i \in DOMAIN stack : stack[i] \in Frames
    <3>1. stack \in Seq(GoodFrames) /\ GoodFrames \subseteq Frames
      BY DEF IInv, WalkInv, GoodFrames
    <3>2. \A i \in DOMAIN stack : stack[i] \in GoodFrames
      BY <3>1, ElementOfSeq, LenProperties
    <3> QED
      BY <3>1, <3>2
  <2>4. /\ downRegs \in [Cells -> SUBSET Regs] /\ downMems \in [Cells -> SUBSET WritePorts]
        /\ \A m \in Mems : downRegs[m] = {}
    BY DEF IInv, SoundInv
  <2>5. Regs \subseteq Cells
    BY <2>0, NetFacts
  <2>6. regReg \in [Regs -> SUBSET Regs]
    BY <2>4, <2>5 DEF IInv, ResultInv
  <2>7. regMem \in [Regs -> SUBSET WritePorts]
    BY <2>4, <2>5 DEF IInv, ResultInv
  <2>8. todo \subseteq Mems /\ upRdport \in [Regs -> SUBSET ReadPorts]
    BY DEF IInv, ResultInv
  <2>9. ASSUME NEW t \in DOMAIN rdToWr PROVE t \in Mems /\ rdToWr[t] \in ReadPorts
    <3>1. PICK m \in Mems \ todo : \E i \in DOMAIN net.rd[m] : rdToWr[t] = ReadPort(m, i) /\ t \in DataMems(m, i)
      BY <2>9 DEF IInv, ResultInv
    <3>2. PICK i \in DOMAIN net.rd[m] : rdToWr[t] = ReadPort(m, i) /\ t \in DataMems(m, i)
      BY <3>1
    <3>3. PICK c \in SigToNextCell(net, Data(m, i)) : \E q \in downMems[c] : q.mem = t
      BY <3>2 DEF DataMems
    <3>4. c \in Cells
      BY <2>0, <3>1, <3>2, <3>3, FedFacts
    <3>5. t \in Mems
      BY <2>4, <3>3, <3>4 DEF WritePorts
    <3> QED
      BY <2>0, <3>2, <3>5, PortFacts
  <2> QED
    BY <2>1, <2>2, <2>3, <2>4, <2>6, <2>7, <2>8, <2>9 DEF TypeOK
<1> QED
  BY <1>1, Invariance, PTL

(* What is recorded of a cell is connected to it, for every netlist and    *)
(* every order in which its cells and wires are taken (cdfg.h:187-366).    *)
THEOREM EdgesCorrect == Spec => []EdgesAreFlows
<1>1. IInv => EdgesAreFlows
  BY DEF IInv, SoundInv, EdgesAreFlows, FlowRegs, FlowWrites
<1> QED
  BY <1>1, Invariance, PTL

(* No register and no write port that a register reaches through cells     *)
(* alone is lost, whatever the order, the cycles and the reuse of what is  *)
(* known (cdfg.h:187-366, 441-456).                                        *)
THEOREM FlowsCorrect == Spec => []FlowsFound
<1>1. IInv => FlowsFound
  <2> SUFFICES ASSUME IInv, stage = "end", NEW r \in Regs \cap Plain(net)
               PROVE  RegFlowsFound(CombReach, r) /\ MemFlowsFound(CombReach, WalkReach, r)
    BY DEF FlowsFound
  <2>1. net \in Netlists /\ done = Cells /\ r \in Cells /\ r \in Plain(net) \ Mems
    BY NetFacts DEF IInv, WalkInv
  <2>2. CombRegs(r) \subseteq downRegs[r] /\ CombWrites(r) \subseteq downMems[r]
    BY <2>1 DEF IInv, CompleteInv, Complete
  <2>3. regReg[r] = downRegs[r] /\ regMem[r] = {p \in downMems[r] : p.port # "WR_CLK"}
    BY DEF IInv, ResultInv
  <2>4. RegFlowsFound(CombReach, r)
    BY <2>2, <2>3 DEF RegFlowsFound, CombRegs
  <2>5. CellToNextSig(net, r) \subseteq net.wire
    BY <2>1, NetFacts
  <2>6. ReadOnWalk(r) \subseteq ReadBehind(WalkReach, CellToNextSig(net, r))
    BY DEF ReadOnWalk, ReadBehind, OnWalk
  <2>7. MemFlowsFound(CombReach, WalkReach, r)
    BY <2>2, <2>3, <2>6 DEF MemFlowsFound, CombWrites
  <2> QED
    BY <2>4, <2>7
<1> QED
  BY <1>1, Invariance, PTL

(* The data of a read port feed the registers they reach and no others,    *)
(* and a memory entered as fed by read data is (cdfg.h:387-456).           *)
THEOREM ReadDataCorrect == Spec => []ReadDataFlows
<1>1. IInv => ReadDataFlows
  <2> SUFFICES ASSUME IInv, stage = "end" PROVE ReadDataFlows
    BY DEF ReadDataFlows
  <2>1. /\ net \in Netlists /\ done = Cells /\ todo = {}
        /\ \A c \in Cells : /\ Complete(c) /\ downRegs[c] \subseteq FlowRegs(c) /\ downMems[c] \subseteq FlowWrites(c)
    BY DEF IInv, WalkInv, SoundInv, CompleteInv, ResultInv
  <2>2. ASSUME NEW m \in Mems, NEW i \in DOMAIN net.rd[m] PROVE ReadFeeds(CombReach, WalkReach, m, i)
    <3> DEFINE from == ReadPort(m, i)
               cpool == ReadBy(net, m, from.addr)
               fed == {r \in Regs : from \in upRdport[r]}
    <3>1. from \in ReadPorts /\ from.mem = m /\ from.addr = net.rd[m][i].addr
      BY <2>1, <2>2, PortFacts
    <3>2. ASSUME NEW c \in cpool
          PROVE  \E j \in DOMAIN net.rd[m] : /\ from = ReadPort(m, j) /\ c \in SigToNextCell(net, Data(m, j))
                                             /\ c \in Cells /\ c \notin Mems
      <4>1. PICK j \in DOMAIN net.rd[m] : net.rd[m][j].addr = from.addr /\ c \in SigToNextCell(net, Data(m, j))
        BY <3>2 DEF ReadBy, Data
      <4>2. from = ReadPort(m, j)
        BY <2>2, <3>1, <4>1 DEF ReadPort
      <4>3. Supported(m)
        BY <2>1 DEF IInv, ResultInv
      <4>4. c \notin Mems /\ c \in Cells
        BY <2>1, <4>1, <4>3, FedFacts DEF Supported
      <4> QED
        BY <4>1, <4>2, <4>4
    <3>3. ASSUME NEW j \in DOMAIN net.rd[m], from = ReadPort(m, j), NEW r \in DataRegs(m, j), r \in Regs
          PROVE  r \in fed
      BY <2>1, <3>1, <3>3 DEF IInv, ResultInv
    <3>4. ASSUME NEW r \in cpool \cap Regs PROVE r \in fed
      <4>1. PICK j \in DOMAIN net.rd[m] : from = ReadPort(m, j) /\ r \in SigToNextCell(net, Data(m, j))
        BY <3>2
      <4>2. r \in DataRegs(m, j)
        BY <4>1 DEF DataRegs
      <4> QED
        BY <3>3, <4>1, <4>2
    <3>5. ASSUME NEW r \in CellsBehind(CombReach, OutputsOf(cpool \cap Plain(net))) \cap Regs
          PROVE  r \in fed
      <4>1. PICK u \in net.wire : /\ r \in CellsDown(net, u)
                                  /\ \E s \in OutputsOf(cpool \cap Plain(net)) : <<s, u>> \in CombReach
        BY <3>5 DEF CellsBehind
      <4>2. PICK s \in OutputsOf(cpool \cap Plain(net)) : <<s, u>> \in CombReach
        BY <4>1
      <4>3. PICK c \in (cpool \cap Plain(net)) \ Regs : s \in CellToNextSig(net, c)
        BY <4>2 DEF OutputsOf
      <4>4. PICK j \in DOMAIN net.rd[m] : /\ from = ReadPort(m, j) /\ c \in SigToNextCell(net, Data(m, j))
                                          /\ c \in Cells /\ c \notin Mems
        BY <3>2, <4>3
      <4>5. r \in CombRegs(c)
        BY <4>1, <4>2, <4>3 DEF CombRegs, CellsBehind
      <4>6. r \in downRegs[c]
        BY <2>1, <4>3, <4>4, <4>5 DEF Complete
      <4>7. r \in DataRegs(m, j)
        BY <4>3, <4>4, <4>6 DEF DataRegs
      <4> QED
        BY <3>3, <4>4, <4>7
    <3>6. ASSUME NEW r \in fed
          PROVE  r \in cpool \cup CellsBehind(WalkReach, OutputsOf(cpool))
      <4>1. PICK n \in Mems : \E j \in DOMAIN net.rd[n] : from = ReadPort(n, j) /\ r \in DataRegs(n, j)
        BY <3>1, <3>6 DEF IInv, ResultInv
      <4>2. PICK j \in DOMAIN net.rd[n] : from = ReadPort(n, j) /\ r \in DataRegs(n, j)
        BY <4>1
      <4>3. n = m /\ from.addr = net.rd[m][j].addr
        BY <2>1, <3>1, <4>2, PortFacts
      <4>4. SigToNextCell(net, Data(m, j)) \subseteq cpool
        BY <2>1, <4>2, <4>3, FedFacts
      <4>5. CASE r \in SigToNextCell(net, Data(m, j))
        BY <4>4, <4>5
      <4>6. CASE r \notin SigToNextCell(net, Data(m, j))
        <5>1. PICK c \in SigToNextCell(net, Data(m, j)) \ Regs : r \in downRegs[c]
          BY <4>2, <4>3, <4>6 DEF DataRegs
        <5>2. c \in Cells
          BY <2>1, <4>2, <4>3, <5>1, FedFacts
        <5>3. r \in CellsBehind(WalkReach, CellToNextSig(net, c))
          BY <2>1, <5>1, <5>2 DEF FlowRegs
        <5>4. CellToNextSig(net, c) \subseteq OutputsOf(cpool)
          BY <4>4, <5>1 DEF OutputsOf
        <5> QED
          BY <5>3, <5>4 DEF CellsBehind
      <4> QED
        BY <4>5, <4>6
    <3> QED
      BY <3>4, <3>5, <3>6 DEF ReadFeeds, ReadPort
  <2>3. ASSUME NEW t \in DOMAIN rdToWr PROVE FedByRead(MemReach, t)
    <3> DEFINE m == rdToWr[t].mem
    <3>1. PICK n \in Mems : \E i \in DOMAIN net.rd[n] : rdToWr[t] = ReadPort(n, i) /\ t \in DataMems(n, i)
      BY <2>3 DEF IInv, ResultInv
    <3>2. PICK i \in DOMAIN net.rd[n] : rdToWr[t] = ReadPort(n, i) /\ t \in DataMems(n, i)
      BY <3>1
    <3>3. n = m /\ net.rd[m][i].addr = rdToWr[t].addr
      BY <2>1, <2>3, <3>2, PortFacts
    <3>4. PICK c \in SigToNextCell(net, Data(m, i)) \ Regs : \E w \in downMems[c] : w.mem = t /\ w.mem # m
      BY <3>2, <3>3 DEF DataMems
    <3>5. PICK w \in downMems[c] : w.mem = t /\ w.mem # m
      BY <3>4
    <3>6. c \in Cells /\ c \in CellsDown(net, Data(m, i)) /\ c \in Comb
      <4>1. Supported(m)
        BY <2>1, <3>3 DEF IInv, ResultInv
      <4> QED
        BY <2>1, <3>2, <3>3, <3>4, <4>1, FedFacts DEF Supported
    <3>7. w \in WritesBehind(MemReach, CellToNextSig(net, c))
      BY <2>1, <3>5, <3>6 DEF FlowWrites
    <3>8. ASSUME NEW s \in CellToNextSig(net, c), NEW u \in net.wire, <<s, u>> \in MemReach
          PROVE  <<Data(m, i), u>> \in MemReach
      <4>1. Data(m, i) \in net.wire /\ s \in net.wire
        BY <2>1, <3>1, <3>2, <3>3, <3>6, PortFacts, NetFacts
      <4>2. <<Data(m, i), s>> \in MemSteps
        <5>1. /\ <<Data(m, i), s>> \in net.wire \X net.wire
              /\ <<Data(m, i), s>>[1] = Data(m, i) /\ <<Data(m, i), s>>[2] = s
          BY <4>1
        <5> QED
          BY <3>6, <3>8, <5>1 DEF MemSteps, WalkSteps, StepsOf
      <4>3. MemReach = Reach(net, MemSteps)
        BY DEF MemReach, MemSteps, WalkSteps
      <4>4. <<Data(m, i), s>> \in Reach(net, MemSteps)
        <5>1. PICK d : d = Data(m, i)
          OBVIOUS
        <5>2. d \in net.wire /\ s \in net.wire /\ <<d, s>> \in MemSteps
          BY <4>1, <4>2, <5>1
        <5>3. <<d, d>> \in Reach(net, MemSteps)
          BY <5>2, ReachFacts
        <5>4. <<d, s>> \in Reach(net, MemSteps)
          BY <5>2, <5>3, ReachFacts
        <5> QED
          BY <5>1, <5>4
      <4> QED
        BY <3>8, <4>1, <4>3, <4>4, ReachFacts
    <3>9. w \in WritesBehind(MemReach, {Data(m, i)})
      <4>1. PICK e \in Mems \X net.wire : /\ e[1] \in CellsDown(net, e[2]) /\ w \in WritesOf(net, e[1], e[2])
                                          /\ \E s \in CellToNextSig(net, c) : <<s, e[2]>> \in MemReach
        BY <3>7 DEF WritesBehind
      <4>2. e[2] \in net.wire
        OBVIOUS
      <4>3. <<Data(m, i), e[2]>> \in MemReach
        BY <3>8, <4>1, <4>2
      <4> QED
        BY <4>1, <4>3 DEF WritesBehind
    <3> QED
      BY <3>2, <3>3, <3>4, <3>5, <3>9 DEF FedByRead
  <2> QED
    BY <2>2, <2>3 DEF ReadDataFlows
<1> QED
  BY <1>1, Invariance, PTL
=============================================================================
