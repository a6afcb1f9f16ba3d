------------------------- MODULE ReachableSetProofs -------------------------
(***************************************************************************)
(* The breadth-first walk of find_reachable_set is right for every         *)
(* data-flow graph: proofs, for any sets of registers and memories, of the *)
(* invariants that MCReachableSet checks on small graphs.                  *)
(***************************************************************************)
EXTENDS ReachableSet, TLAPS

SettledRegs == Settled \cap Regs

(* Registers whose successors the walk has already asked for. *)
Asked(u) ==
  /\ diff[u] # Absent
  /\ diff[u] < IF phase \in {"loop", "done"} THEN cyc_diff - 1 ELSE cyc_diff

(* The visited pools are the settled registers and memories; during the    *)
(* register loop the settled part of curpool is not yet in visited.        *)
VisitedInv ==
  /\ cyc_diff >= 1
  /\ visited_m = Settled \cap Mems
  /\ phase \in {"loop", "mem", "done"} => visited = SettledRegs
  /\ phase = "reg" => /\ SettledRegs = visited \cup (curpool \ todo)
                      /\ curpool \cap visited = {}
                      /\ todo \subseteq curpool
  /\ phase = "mem" => todo \subseteq curpool_m
  /\ StartPool \subseteq visited
  /\ \A r \in StartPool : diff[r] = 0

(* Every pool holds one level of the walk. *)
LevelInv ==
  /\ phase \in {"loop", "done"} =>
       /\ curpool = {r \in Regs : diff[r] = cyc_diff - 1}
       /\ nextpool_c = NextRegs(curpool, visited)
       /\ nextpool_m = NextMems(curpool, visited_m)
       /\ \A n \in Nodes : diff[n] <= cyc_diff - 1
  /\ phase = "reg" =>
       /\ \A r \in curpool \ todo : diff[r] = cyc_diff
       /\ \A r \in visited : diff[r] <= cyc_diff - 1
       /\ \A m \in Mems : diff[m] <= cyc_diff - 1
       /\ \A v \in curpool : \E u \in visited :
            diff[u] = cyc_diff - 1 /\ v \in design_reg_reg[u]
  /\ phase = "mem" =>
       /\ curpool = {r \in Regs : diff[r] = cyc_diff}
       /\ \A n \in Nodes : diff[n] <= cyc_diff
  /\ phase \in {"reg", "mem"} =>
       \A m \in curpool_m : \E u \in visited :
         diff[u] = cyc_diff - 1 /\ m \in design_reg_mem[u]

(* An asked register's successors are settled at most one cycle later, or  *)
(* wait in the pool of this level.                                         *)
EdgeInv ==
  \A u \in Regs : Asked(u) =>
    /\ \A v \in design_reg_reg[u] :
         \/ diff[v] # Absent /\ diff[v] <= diff[u] + 1
         \/ phase = "reg" /\ v \in todo /\ diff[u] = cyc_diff - 1
    /\ \A m \in design_reg_mem[u] :
         \/ diff[m] # Absent /\ diff[m] <= diff[u] + 1
         \/ phase = "reg" /\ m \in curpool_m /\ diff[u] = cyc_diff - 1
         \/ phase = "mem" /\ m \in todo /\ diff[u] = cyc_diff - 1

(* A settled register has a walk of its distance. *)
WalkInv == \A r \in Regs : diff[r] # Absent => WalksTo(r, diff[r]) # {}

(* Walks shorter than the current level end in settled registers. *)
ShortInv ==
  \A n \in Nat : n < (IF phase = "mem" THEN cyc_diff + 1 ELSE cyc_diff) =>
    \A p \in [0 .. n -> Regs] : Walk(p, n) =>
      diff[p[n]] # Absent /\ diff[p[n]] <= n

(* Only reachable registers are settled. *)
ReachInv == \A S \in SUBSET Regs : Closed(S) => SettledRegs \subseteq S

MemPredInv ==
  \A m \in Mems : diff[m] # Absent =>
    \E u \in Regs : diff[u] # Absent /\ m \in design_reg_mem[u] /\ diff[m] = diff[u] + 1

LoopInv ==
  /\ VisitedInv /\ LevelInv /\ EdgeInv
  /\ WalkInv /\ ShortInv /\ ReachInv /\ MemPredInv

IInv == TypeOK /\ (phase # "seed" => LoopInv) /\ (phase = "seed" => InitLocals)
        /\ (phase = "done" => nextpool_c = {} /\ nextpool_m = {})
-----------------------------------------------------------------------------

(* Every action of the walk keeps the types (dataflow.h:284-409).          *)
LEMMA TypeStep == TypeOK /\ [Next]_vars => TypeOK'
<1> SUFFICES ASSUME TypeOK, [Next]_vars PROVE TypeOK'
  OBVIOUS
<1> USE DEF TypeOK, Phases, Nodes, inputs
<1>1. CASE Seed
  <2>1. StartPool \subseteq Regs
    BY NodesAssumption DEF StartPool
  <2>2. NextRegs(StartPool, StartPool) \subseteq Regs
    BY <2>1 DEF NextRegs
  <2>3. NextMems(StartPool, {}) \subseteq Mems
    BY <2>1 DEF NextMems
  <2> QED
    BY <1>1, <2>1, <2>2, <2>3 DEF Seed
<1>2. CASE EnterLevel
  BY <1>2 DEF EnterLevel
<1>3. CASE \E r \in Regs : SettleReg(r)
  BY <1>3 DEF SettleReg
<1>4. CASE RegsSettled
  BY <1>4 DEF RegsSettled
<1>5. CASE \E m \in Mems : SettleMem(m)
  BY <1>5 DEF SettleMem
<1>6. CASE LeaveLevel
  <2>1. NextRegs(curpool, visited) \subseteq Regs
    BY DEF NextRegs
  <2>2. NextMems(curpool, visited_m) \subseteq Mems
    BY DEF NextMems
  <2> QED
    BY <1>6, <2>1, <2>2 DEF LeaveLevel
<1>7. CASE Return
  BY <1>7 DEF Return
<1>8. CASE UNCHANGED vars
  BY <1>8 DEF vars
<1> QED
  BY <1>1, <1>2, <1>3, <1>4, <1>5, <1>6, <1>7, <1>8 DEF Next

(* The recorded state stays well typed: pools hold registers or memories,  *)
(* and a distance is a cycle count or absent (dataflow.h:309-409).         *)
THEOREM TypeCorrect == Spec => []TypeOK
<1>1. Init => TypeOK
  BY DEF Init, InitLocals, TypeOK, Phases, Nodes
<1> QED
  BY <1>1, TypeStep, PTL DEF Spec

-----------------------------------------------------------------------------
(* Walks. *)

(* The start pool, built from the consumers of the PC, holds registers     *)
(* (dataflow.h:328-348).                                                   *)
LEMMA StartPoolType == TypeOK => StartPool \subseteq Regs
BY NodesAssumption DEF TypeOK, StartPool

(* A register of the start pool is at the end of a walk of length 0: the   *)
(* distance Seed records is justified (dataflow.h:341).                    *)
LEMMA ZeroWalk ==
  ASSUME TypeOK, NEW r \in StartPool PROVE WalksTo(r, 0) # {}
<1> DEFINE p == [i \in 0 .. 0 |-> r]
<1>1. r \in Regs
  BY StartPoolType
<1>2. p \in [0 .. 0 -> Regs] /\ p[0] = r
  BY <1>1
<1>3. Walk(p, 0)
  BY <1>2 DEF Walk
<1> QED
  BY <1>2, <1>3 DEF WalksTo

(* An edge of design_reg_reg makes a walk one longer: what get_next_pools  *)
(* adds to the next level is one cycle further (dataflow.h:291-296).       *)
LEMMA ExtendWalk ==
  ASSUME TypeOK, NEW n \in Nat, NEW u \in Regs, NEW v \in design_reg_reg[u],
         WalksTo(u, n) # {}
  PROVE  WalksTo(v, n + 1) # {}
<1>1. PICK p \in [0 .. n -> Regs] : Walk(p, n) /\ p[n] = u
  BY DEF WalksTo
<1> DEFINE q == [i \in 0 .. n + 1 |-> IF i = n + 1 THEN v ELSE p[i]]
<1>2. v \in Regs
  BY DEF TypeOK
<1>3. q \in [0 .. n + 1 -> Regs]
  BY <1>2
<1>4. q[n + 1] = v /\ \A i \in 0 .. n : q[i] = p[i]
  OBVIOUS
<1>5. Walk(q, n + 1)
  <2>1. q[0] \in StartPool
    BY <1>1, <1>4 DEF Walk
  <2>2. ASSUME NEW i \in 1 .. n + 1 PROVE q[i] \in design_reg_reg[q[i - 1]]
    <3>1. CASE i = n + 1
      BY <1>1, <1>4, <3>1
    <3>2. CASE i \in 1 .. n
      <4>1. i \in 0 .. n /\ i - 1 \in 0 .. n
        BY <3>2
      <4> QED
        BY <1>1, <1>4, <3>2, <4>1 DEF Walk
    <3> QED
      BY <3>1, <3>2
  <2> QED
    BY <1>3, <2>1, <2>2 DEF Walk
<1> QED
  BY <1>3, <1>4, <1>5 DEF WalksTo

(* A walk without its last register is a walk: a register at distance n    *)
(* has a predecessor at n - 1 (dataflow.h:354-370).                        *)
LEMMA PrefixWalk ==
  ASSUME TypeOK, NEW n \in Nat, n # 0, NEW p \in [0 .. n -> Regs], Walk(p, n)
  PROVE  LET q == [i \in 0 .. n - 1 |-> p[i]]
         IN  /\ q \in [0 .. n - 1 -> Regs] /\ Walk(q, n - 1)
             /\ q[n - 1] = p[n - 1]
             /\ p[n - 1] \in Regs /\ p[n] \in design_reg_reg[p[n - 1]]
<1> DEFINE q == [i \in 0 .. n - 1 |-> p[i]]
<1>1. n - 1 \in Nat /\ n \in 1 .. n /\ n - 1 \in 0 .. n - 1
  OBVIOUS
<1>2. q \in [0 .. n - 1 -> Regs] /\ \A i \in 0 .. n - 1 : q[i] = p[i]
  OBVIOUS
<1>3. q[0] \in StartPool
  BY <1>1, <1>2 DEF Walk
<1>4. ASSUME NEW i \in 1 .. n - 1 PROVE q[i] \in design_reg_reg[q[i - 1]]
  <2>1. i \in 1 .. n /\ i \in 0 .. n - 1 /\ i - 1 \in 0 .. n - 1
    OBVIOUS
  <2> QED
    BY <1>2, <2>1 DEF Walk
<1>5. Walk(q, n - 1)
  BY <1>2, <1>3, <1>4 DEF Walk
<1> QED
  BY <1>1, <1>2, <1>5 DEF Walk

(* The inputs never change, so neither do the notions defined from them. *)
LEMMA Frame ==
  ASSUME UNCHANGED inputs
  PROVE  /\ StartPool' = StartPool
         /\ \A p, n : Walk(p, n)' <=> Walk(p, n)
         /\ \A r, n : WalksTo(r, n)' = WalksTo(r, n)
         /\ \A S : Closed(S)' <=> Closed(S)
BY DEF inputs, StartPool, Walk, WalksTo, Closed

-----------------------------------------------------------------------------
(* Every step preserves LoopInv: one lemma per action. *)

(* Building the start pool establishes the loop invariant                  *)
(* (dataflow.h:328-352).                                                   *)
LEMMA SeedStep == IInv /\ Seed /\ TypeOK' => LoopInv'
<1> SUFFICES ASSUME IInv, Seed, TypeOK' PROVE LoopInv'
  OBVIOUS
<1> USE DEF Nodes, Absent
<1>1. TypeOK /\ InitLocals /\ UNCHANGED inputs
  BY DEF IInv, Seed
<1>2. StartPool \subseteq Regs /\ StartPool' = StartPool
  BY <1>1, StartPoolType, Frame
<1>3. cyc_diff' = 1 /\ visited_m' = {} /\ curpool' = StartPool /\ visited' = StartPool /\ phase' = "loop"
  BY <1>1 DEF Seed, InitLocals
<1>4. \A n \in Nodes : diff'[n] = IF n \in StartPool THEN 0 ELSE -1
  BY DEF Seed
<1>5. SettledRegs' = StartPool /\ (Settled \cap Mems)' = {}
  BY <1>2, <1>4, NodesAssumption DEF SettledRegs, Settled
<1>6. VisitedInv'
  BY <1>2, <1>3, <1>4, <1>5 DEF VisitedInv
<1>7. LevelInv'
  <2>1. curpool' = {r \in Regs : diff'[r] = cyc_diff' - 1}
    BY <1>2, <1>3, <1>4
  <2>2. nextpool_c' = NextRegs(curpool, visited)' /\ nextpool_m' = NextMems(curpool, visited_m)'
    BY <1>1, <1>3 DEF Seed, NextRegs, NextMems, inputs
  <2>3. \A n \in Nodes : diff'[n] <= cyc_diff' - 1
    BY <1>3, <1>4
  <2>4. phase' = "loop"
    BY <1>3
  <2> QED
    BY <2>1, <2>2, <2>3, <2>4 DEF LevelInv
<1>8. EdgeInv'
  BY <1>3, <1>4 DEF EdgeInv, Asked
<1>9. WalkInv'
  BY <1>1, <1>2, <1>4, Frame, ZeroWalk DEF WalkInv
<1>10. ShortInv'
  <2> SUFFICES ASSUME NEW n \in Nat, n < 1, NEW p \in [0 .. n -> Regs], Walk(p, n)
               PROVE  diff'[p[n]] # -1 /\ diff'[p[n]] <= n
    BY <1>1, <1>3, Frame DEF ShortInv
  <2> QED
    BY <1>2, <1>4 DEF Walk
<1>11. ReachInv'
  BY <1>1, <1>5, Frame DEF ReachInv, Closed
<1>12. MemPredInv'
  BY <1>2, <1>4, NodesAssumption DEF MemPredInv
<1> QED
  BY <1>6, <1>7, <1>8, <1>9, <1>10, <1>11, <1>12 DEF LoopInv

(* Taking the next pools as the current ones (dataflow.h:355-356).         *)
LEMMA EnterLevelStep == IInv /\ EnterLevel /\ TypeOK' => LoopInv'
<1> SUFFICES ASSUME IInv, EnterLevel, TypeOK' PROVE LoopInv'
  OBVIOUS
<1> USE DEF Nodes, Absent
<1>1. TypeOK /\ LoopInv /\ UNCHANGED inputs /\ phase = "loop" /\ phase' = "reg"
  BY DEF IInv, EnterLevel
<1>2. UNCHANGED <<cyc_diff, diff, visited, visited_m>>
  BY DEF EnterLevel
<1>3. Settled' = Settled /\ SettledRegs' = SettledRegs
  BY <1>2 DEF Settled, SettledRegs
<1>4. VisitedInv'
  BY <1>1, <1>2, <1>3, Frame DEF EnterLevel, VisitedInv, LoopInv, LevelInv, NextRegs
<1>5. LevelInv'
  <2>1. \A v \in curpool' : \E u \in visited : diff[u] = cyc_diff - 1 /\ v \in design_reg_reg[u]
    BY <1>1 DEF LoopInv, LevelInv, EnterLevel, NextRegs, VisitedInv, SettledRegs, Settled, TypeOK
  <2>2. \A m \in curpool_m' : \E u \in visited : diff[u] = cyc_diff - 1 /\ m \in design_reg_mem[u]
    BY <1>1 DEF LoopInv, LevelInv, EnterLevel, NextMems, VisitedInv, SettledRegs, Settled, TypeOK
  <2>3. \A n \in Nodes : diff[n] <= cyc_diff - 1
    BY <1>1 DEF LoopInv, LevelInv
  <2> QED
    BY <1>1, <1>2, <2>1, <2>2, <2>3 DEF LevelInv, EnterLevel, TypeOK, inputs
<1>6. EdgeInv'
  <2> SUFFICES ASSUME NEW u \in Regs, diff[u] # -1, diff[u] < cyc_diff
               PROVE  /\ \A v \in design_reg_reg[u] :
                           \/ diff[v] # -1 /\ diff[v] <= diff[u] + 1
                           \/ v \in nextpool_c /\ diff[u] = cyc_diff - 1
                      /\ \A m \in design_reg_mem[u] :
                           \/ diff[m] # -1 /\ diff[m] <= diff[u] + 1
                           \/ m \in nextpool_m /\ diff[u] = cyc_diff - 1
    BY <1>1, <1>2 DEF EdgeInv, Asked, EnterLevel, inputs
  <2>1. CASE diff[u] < cyc_diff - 1
    BY <1>1, <2>1 DEF EdgeInv, Asked, LoopInv
  <2>2. CASE diff[u] = cyc_diff - 1
    <3>1. u \in curpool /\ nextpool_c = NextRegs(curpool, visited)
          /\ nextpool_m = NextMems(curpool, visited_m)
          /\ \A n \in Nodes : diff[n] <= cyc_diff - 1
      BY <1>1, <2>2 DEF LoopInv, LevelInv
    <3>2. visited = SettledRegs /\ visited_m = Settled \cap Mems
      BY <1>1 DEF LoopInv, VisitedInv
    <3>3. ASSUME NEW v \in design_reg_reg[u] PROVE v \in visited \/ v \in nextpool_c
      BY <3>1 DEF NextRegs
    <3>4. ASSUME NEW m \in design_reg_mem[u] PROVE m \in visited_m \/ m \in nextpool_m
      BY <3>1 DEF NextMems
    <3> QED
      BY <1>1, <2>2, <3>1, <3>2, <3>3, <3>4 DEF SettledRegs, Settled, TypeOK
  <2> QED
    BY <1>1, <2>1, <2>2 DEF TypeOK
<1>7. WalkInv'
  BY <1>1, <1>2, Frame DEF WalkInv, LoopInv
<1>8. ShortInv'
  BY <1>1, <1>2, Frame DEF ShortInv, LoopInv
<1>9. ReachInv'
  BY <1>1, <1>3, Frame DEF ReachInv, LoopInv
<1>10. MemPredInv'
  BY <1>1, <1>2 DEF MemPredInv, LoopInv, inputs
<1> QED
  BY <1>4, <1>5, <1>6, <1>7, <1>8, <1>9, <1>10 DEF LoopInv

(* Recording one register of the current pool (dataflow.h:359-369).        *)
LEMMA SettleRegStep == IInv /\ (\E r \in Regs : SettleReg(r)) /\ TypeOK' => LoopInv'
<1> SUFFICES ASSUME IInv, NEW r \in Regs, SettleReg(r), TypeOK' PROVE LoopInv'
  OBVIOUS
<1> USE DEF Nodes, Absent
<1>1. /\ TypeOK /\ LoopInv /\ UNCHANGED inputs /\ phase = "reg" /\ phase' = "reg"
      /\ UNCHANGED <<cyc_diff, visited, visited_m, curpool, curpool_m>>
      /\ r \in todo /\ todo' = todo \ {r}
  BY DEF IInv, SettleReg
<1>2. r \in curpool /\ r \notin visited /\ diff[r] = -1 /\ r \notin Mems
  BY <1>1, NodesAssumption DEF LoopInv, VisitedInv, SettledRegs, Settled
<1>3. /\ diff'[r] = cyc_diff
      /\ \A n \in Nodes : n # r => diff'[n] = diff[n]
      /\ cyc_diff \in Nat /\ cyc_diff >= 1
  BY <1>1, <1>2 DEF SettleReg, TypeOK, LoopInv, VisitedInv
<1>4. SettledRegs' = SettledRegs \cup {r} /\ (Settled \cap Mems)' = Settled \cap Mems
  BY <1>2, <1>3 DEF Settled, SettledRegs
<1>5. StartPool \subseteq visited /\ StartPool' = StartPool
  BY <1>1, Frame DEF LoopInv, VisitedInv
<1>6. VisitedInv'
  BY <1>1, <1>2, <1>3, <1>4, <1>5 DEF LoopInv, VisitedInv, TypeOK
<1>7. LevelInv'
  <2>1. \A v \in curpool : \E u \in visited : diff'[u] = cyc_diff - 1 /\ v \in design_reg_reg[u]
    BY <1>1, <1>2, <1>3 DEF LoopInv, LevelInv, TypeOK
  <2>2. \A m \in curpool_m : \E u \in visited : diff'[u] = cyc_diff - 1 /\ m \in design_reg_mem[u]
    BY <1>1, <1>2, <1>3 DEF LoopInv, LevelInv, TypeOK
  <2>3. /\ \A v \in visited : diff'[v] <= cyc_diff - 1
        /\ \A m \in Mems : diff'[m] <= cyc_diff - 1
        /\ \A v \in curpool \ todo' : diff'[v] = cyc_diff
    BY <1>1, <1>2, <1>3 DEF LoopInv, LevelInv, TypeOK
  <2> QED
    BY <1>1, <2>1, <2>2, <2>3 DEF LevelInv, inputs
<1>8. EdgeInv'
  <2> SUFFICES ASSUME NEW u \in Regs, diff'[u] # -1, diff'[u] < cyc_diff
               PROVE  /\ \A v \in design_reg_reg[u] :
                           \/ diff'[v] # -1 /\ diff'[v] <= diff'[u] + 1
                           \/ v \in todo' /\ diff'[u] = cyc_diff - 1
                      /\ \A m \in design_reg_mem[u] :
                           \/ diff'[m] # -1 /\ diff'[m] <= diff'[u] + 1
                           \/ m \in curpool_m /\ diff'[u] = cyc_diff - 1
    BY <1>1 DEF EdgeInv, Asked, inputs
  <2>1. u # r /\ diff'[u] = diff[u] /\ Asked(u)
    BY <1>1, <1>3 DEF Asked
  <2>2. \A v \in design_reg_reg[u] :
           \/ diff[v] # -1 /\ diff[v] <= diff[u] + 1
           \/ v \in todo /\ diff[u] = cyc_diff - 1
    BY <1>1, <2>1 DEF LoopInv, EdgeInv
  <2>3. \A m \in design_reg_mem[u] :
           \/ diff[m] # -1 /\ diff[m] <= diff[u] + 1
           \/ m \in curpool_m /\ diff[u] = cyc_diff - 1
    BY <1>1, <2>1 DEF LoopInv, EdgeInv
  <2>4. ASSUME NEW v \in design_reg_reg[u]
        PROVE  \/ diff'[v] # -1 /\ diff'[v] <= diff'[u] + 1
               \/ v \in todo' /\ diff'[u] = cyc_diff - 1
    BY <1>1, <1>2, <1>3, <2>1, <2>2 DEF TypeOK
  <2>5. ASSUME NEW m \in design_reg_mem[u]
        PROVE  \/ diff'[m] # -1 /\ diff'[m] <= diff'[u] + 1
               \/ m \in curpool_m /\ diff'[u] = cyc_diff - 1
    BY <1>1, <1>2, <1>3, <2>1, <2>3 DEF TypeOK
  <2> QED
    BY <2>4, <2>5
<1>9. WalkInv'
  <2>1. PICK u \in visited : diff[u] = cyc_diff - 1 /\ r \in design_reg_reg[u]
    BY <1>1, <1>2 DEF LoopInv, LevelInv
  <2>2. u \in Regs /\ WalksTo(u, cyc_diff - 1) # {} /\ cyc_diff - 1 \in Nat
    BY <1>1, <1>3, <2>1 DEF LoopInv, WalkInv, TypeOK
  <2>3. WalksTo(r, cyc_diff - 1 + 1) # {}
    BY <1>1, <2>1, <2>2, ExtendWalk
  <2>4. WalksTo(r, cyc_diff) # {}
    BY <1>3, <2>3
  <2>5. \A v \in Regs : diff[v] # -1 => WalksTo(v, diff[v]) # {}
    BY <1>1 DEF LoopInv, WalkInv
  <2>6. \A v \in Regs : diff'[v] # -1 => WalksTo(v, diff'[v]) # {}
    BY <1>3, <2>4, <2>5
  <2> QED
    BY <1>1, <2>6, Frame DEF WalkInv
<1>10. ShortInv'
  <2> SUFFICES ASSUME NEW n \in Nat, n < cyc_diff, NEW p \in [0 .. n -> Regs], Walk(p, n)
               PROVE  diff'[p[n]] # -1 /\ diff'[p[n]] <= n
    BY <1>1, Frame DEF ShortInv
  <2>1. diff[p[n]] # -1 /\ diff[p[n]] <= n /\ p[n] \in Regs
    BY <1>1 DEF LoopInv, ShortInv
  <2> QED
    BY <1>2, <1>3, <2>1
<1>11. ReachInv'
  <2> SUFFICES ASSUME NEW S \in SUBSET Regs, Closed(S) PROVE r \in S /\ SettledRegs \subseteq S
    BY <1>1, <1>4, Frame DEF ReachInv
  <2>1. SettledRegs \subseteq S /\ visited \subseteq S
    BY <1>1 DEF LoopInv, ReachInv, VisitedInv
  <2>2. PICK u \in visited : r \in design_reg_reg[u]
    BY <1>1, <1>2 DEF LoopInv, LevelInv
  <2> QED
    BY <2>1, <2>2 DEF Closed
<1>12. MemPredInv'
  <2> SUFFICES ASSUME NEW m \in Mems, diff'[m] # -1
               PROVE  \E u \in Regs : diff'[u] # -1 /\ m \in design_reg_mem[u] /\ diff'[m] = diff'[u] + 1
    BY <1>1 DEF MemPredInv, inputs
  <2>1. m # r /\ diff[m] = diff'[m]
    BY <1>2, <1>3
  <2>2. PICK u \in Regs : diff[u] # -1 /\ m \in design_reg_mem[u] /\ diff[m] = diff[u] + 1
    BY <1>1, <2>1 DEF LoopInv, MemPredInv
  <2> QED
    BY <1>2, <1>3, <2>1, <2>2
<1> QED
  BY <1>6, <1>7, <1>8, <1>9, <1>10, <1>11, <1>12 DEF LoopInv

(* Marking the pool visited after the register loop (dataflow.h:370).      *)
LEMMA RegsSettledStep == IInv /\ RegsSettled /\ TypeOK' => LoopInv'
<1> SUFFICES ASSUME IInv, RegsSettled, TypeOK' PROVE LoopInv'
  OBVIOUS
<1> USE DEF Nodes, Absent
<1>1. /\ TypeOK /\ LoopInv /\ UNCHANGED inputs /\ phase = "reg" /\ phase' = "mem"
      /\ UNCHANGED <<cyc_diff, diff, visited_m, curpool, curpool_m>>
      /\ todo = {} /\ todo' = curpool_m /\ visited' = visited \cup curpool
  BY DEF IInv, RegsSettled
<1>2. /\ SettledRegs = visited \cup curpool /\ curpool \cap visited = {}
      /\ Settled' = Settled /\ SettledRegs' = SettledRegs
      /\ \A r \in curpool : diff[r] = cyc_diff
      /\ \A r \in visited : diff[r] <= cyc_diff - 1
      /\ cyc_diff \in Nat /\ cyc_diff >= 1
  BY <1>1 DEF LoopInv, VisitedInv, LevelInv, SettledRegs, Settled, TypeOK
<1>3. VisitedInv'
  BY <1>1, <1>2, Frame DEF LoopInv, VisitedInv
<1>4. LevelInv'
  <2>1. curpool = {r \in Regs : diff[r] = cyc_diff}
    BY <1>1, <1>2 DEF SettledRegs, Settled, TypeOK
  <2>2. \A n \in Nodes : diff[n] <= cyc_diff
    BY <1>1, <1>2 DEF LoopInv, LevelInv, SettledRegs, Settled, TypeOK
  <2>3. \A m \in curpool_m : \E u \in visited : diff[u] = cyc_diff - 1 /\ m \in design_reg_mem[u]
    BY <1>1 DEF LoopInv, LevelInv
  <2> QED
    BY <1>1, <2>1, <2>2, <2>3 DEF LevelInv, inputs
<1>5. EdgeInv'
  BY <1>1 DEF LoopInv, EdgeInv, Asked, inputs
<1>6. WalkInv'
  BY <1>1, Frame DEF LoopInv, WalkInv
<1>7. ShortInv'
  <2> SUFFICES ASSUME NEW n \in Nat, n < cyc_diff + 1, NEW p \in [0 .. n -> Regs], Walk(p, n)
               PROVE  diff[p[n]] # -1 /\ diff[p[n]] <= n
    BY <1>1, Frame DEF ShortInv
  <2>1. CASE n < cyc_diff
    BY <1>1, <2>1 DEF LoopInv, ShortInv
  <2>2. CASE n = cyc_diff
    <3> DEFINE q == [i \in 0 .. n - 1 |-> p[i]]
    <3>1. /\ q \in [0 .. n - 1 -> Regs] /\ Walk(q, n - 1) /\ q[n - 1] = p[n - 1]
          /\ p[n - 1] \in Regs /\ p[n] \in design_reg_reg[p[n - 1]]
      BY <1>1, <1>2, <2>2, PrefixWalk
    <3> HIDE DEF q
    <3>2. n - 1 \in Nat /\ n - 1 < cyc_diff
      BY <1>2, <2>2
    <3>3. diff[p[n - 1]] # -1 /\ diff[p[n - 1]] <= n - 1
      BY <1>1, <3>1, <3>2 DEF LoopInv, ShortInv
    <3>4. diff[p[n - 1]] \in Nat /\ Asked(p[n - 1])
      BY <1>1, <2>2, <3>1, <3>3 DEF Asked, TypeOK
    <3>5. diff[p[n]] # -1 /\ diff[p[n]] <= diff[p[n - 1]] + 1
      BY <1>1, <3>1, <3>4 DEF LoopInv, EdgeInv
    <3> QED
      BY <1>1, <3>1, <3>3, <3>4, <3>5 DEF TypeOK
  <2> QED
    BY <1>2, <2>1, <2>2
<1>8. ReachInv'
  BY <1>1, <1>2, Frame DEF LoopInv, ReachInv
<1>9. MemPredInv'
  BY <1>1 DEF LoopInv, MemPredInv, inputs
<1> QED
  BY <1>3, <1>4, <1>5, <1>6, <1>7, <1>8, <1>9 DEF LoopInv

(* Recording one memory of the current pool (dataflow.h:375-386).          *)
LEMMA SettleMemStep == IInv /\ (\E m \in Mems : SettleMem(m)) /\ TypeOK' => LoopInv'
<1> SUFFICES ASSUME IInv, NEW m \in Mems, SettleMem(m), TypeOK' PROVE LoopInv'
  OBVIOUS
<1> USE DEF Nodes, Absent
<1>1. /\ TypeOK /\ LoopInv /\ UNCHANGED inputs /\ phase = "mem" /\ phase' = "mem"
      /\ UNCHANGED <<cyc_diff, visited, curpool, curpool_m>>
      /\ m \in todo /\ todo' = todo \ {m} /\ visited_m' = visited_m \cup {m} /\ m \notin Regs
  BY NodesAssumption DEF IInv, SettleMem
<1>2. /\ \A n \in Nodes : n # m => diff'[n] = diff[n]
      /\ diff[m] # -1 => diff'[m] = diff[m]
      /\ diff[m] = -1 => diff'[m] = cyc_diff
      /\ diff'[m] # -1 /\ diff'[m] <= cyc_diff
      /\ cyc_diff \in Nat /\ cyc_diff >= 1
  BY <1>1 DEF SettleMem, TypeOK, LoopInv, VisitedInv, LevelInv, Settled
<1>3. /\ SettledRegs' = SettledRegs /\ (Settled \cap Mems)' = (Settled \cap Mems) \cup {m}
      /\ \A r \in Regs : diff'[r] = diff[r]
  BY <1>1, <1>2 DEF Settled, SettledRegs
<1>4. VisitedInv'
  BY <1>1, <1>3, Frame, StartPoolType DEF LoopInv, VisitedInv
<1>5. LevelInv'
  <2>1. curpool = {r \in Regs : diff'[r] = cyc_diff}
    BY <1>1, <1>3 DEF LoopInv, LevelInv
  <2>2. \A n \in Nodes : diff'[n] <= cyc_diff
    BY <1>1, <1>2 DEF LoopInv, LevelInv
  <2>3. \A k \in curpool_m : \E u \in visited : diff'[u] = cyc_diff - 1 /\ k \in design_reg_mem[u]
    BY <1>1, <1>3 DEF LoopInv, LevelInv, TypeOK
  <2> QED
    BY <1>1, <2>1, <2>2, <2>3 DEF LevelInv, inputs
<1>6. EdgeInv'
  <2> SUFFICES ASSUME NEW u \in Regs, Asked(u)
               PROVE  /\ \A v \in design_reg_reg[u] : diff[v] # -1 /\ diff[v] <= diff[u] + 1
                      /\ \A k \in design_reg_mem[u] :
                           \/ diff'[k] # -1 /\ diff'[k] <= diff[u] + 1
                           \/ k \in todo' /\ diff[u] = cyc_diff - 1
    BY <1>1, <1>3 DEF EdgeInv, Asked, inputs, TypeOK
  <2>1. /\ \A v \in design_reg_reg[u] : diff[v] # -1 /\ diff[v] <= diff[u] + 1
        /\ \A k \in design_reg_mem[u] :
             \/ diff[k] # -1 /\ diff[k] <= diff[u] + 1
             \/ k \in todo /\ diff[u] = cyc_diff - 1
    BY <1>1 DEF LoopInv, EdgeInv
  <2>2. ASSUME NEW k \in design_reg_mem[u]
        PROVE  \/ diff'[k] # -1 /\ diff'[k] <= diff[u] + 1
               \/ k \in todo' /\ diff[u] = cyc_diff - 1
    BY <1>1, <1>2, <2>1 DEF TypeOK
  <2> QED
    BY <2>1, <2>2
<1>7. WalkInv'
  BY <1>1, <1>3, Frame DEF LoopInv, WalkInv
<1>8. ShortInv'
  <2> SUFFICES ASSUME NEW n \in Nat, n < cyc_diff + 1, NEW p \in [0 .. n -> Regs], Walk(p, n)
               PROVE  diff'[p[n]] # -1 /\ diff'[p[n]] <= n
    BY <1>1, Frame DEF ShortInv
  <2> QED
    BY <1>1, <1>3 DEF LoopInv, ShortInv
<1>9. ReachInv'
  BY <1>1, <1>3, Frame DEF LoopInv, ReachInv
<1>10. MemPredInv'
  <2> SUFFICES ASSUME NEW k \in Mems, diff'[k] # -1
               PROVE  \E u \in Regs : diff[u] # -1 /\ k \in design_reg_mem[u] /\ diff'[k] = diff[u] + 1
    BY <1>1, <1>3 DEF MemPredInv, inputs
  <2>1. CASE diff[k] # -1
    BY <1>1, <1>2, <2>1 DEF LoopInv, MemPredInv
  <2>2. CASE diff[k] = -1
    <3>1. k = m /\ diff'[k] = cyc_diff /\ k \in curpool_m
      BY <1>1, <1>2, <2>2 DEF LoopInv, VisitedInv
    <3>2. PICK u \in visited : diff[u] = cyc_diff - 1 /\ k \in design_reg_mem[u]
      BY <1>1, <3>1 DEF LoopInv, LevelInv
    <3> QED
      BY <1>1, <1>2, <3>1, <3>2 DEF TypeOK
  <2> QED
    BY <2>1, <2>2
<1> QED
  BY <1>4, <1>5, <1>6, <1>7, <1>8, <1>9, <1>10 DEF LoopInv

(* Computing the next pools and advancing the cycle (dataflow.h:389-394).  *)
LEMMA LeaveLevelStep == IInv /\ LeaveLevel /\ TypeOK' => LoopInv'
<1> SUFFICES ASSUME IInv, LeaveLevel, TypeOK' PROVE LoopInv'
  OBVIOUS
<1> USE DEF Nodes, Absent
<1>1. /\ TypeOK /\ LoopInv /\ UNCHANGED inputs /\ phase = "mem" /\ phase' = "loop"
      /\ UNCHANGED <<diff, visited, visited_m, curpool, curpool_m, todo>>
      /\ todo = {} /\ cyc_diff' = cyc_diff + 1
  BY DEF IInv, LeaveLevel
<1>2. Settled' = Settled /\ SettledRegs' = SettledRegs /\ cyc_diff \in Nat /\ cyc_diff' - 1 = cyc_diff
  BY <1>1 DEF Settled, SettledRegs, TypeOK
<1>3. VisitedInv'
  BY <1>1, <1>2, Frame DEF LoopInv, VisitedInv
<1>4. LevelInv'
  <2>1. nextpool_c' = NextRegs(curpool, visited)' /\ nextpool_m' = NextMems(curpool, visited_m)'
    BY <1>1 DEF LeaveLevel, NextRegs, NextMems, inputs
  <2>2. curpool = {r \in Regs : diff[r] = cyc_diff} /\ \A n \in Nodes : diff[n] <= cyc_diff
    BY <1>1 DEF LoopInv, LevelInv
  <2> QED
    BY <1>1, <1>2, <2>1, <2>2 DEF LevelInv
<1>5. EdgeInv'
  <2>1. ASSUME NEW u \in Regs PROVE Asked(u)' => Asked(u)
    BY <1>1, <1>2 DEF Asked
  <2> QED
    BY <1>1, <2>1 DEF LoopInv, EdgeInv, inputs
<1>6. WalkInv'
  BY <1>1, Frame DEF LoopInv, WalkInv
<1>7. ShortInv'
  <2> SUFFICES ASSUME NEW n \in Nat, n < cyc_diff + 1, NEW p \in [0 .. n -> Regs], Walk(p, n)
               PROVE  diff[p[n]] # -1 /\ diff[p[n]] <= n
    BY <1>1, Frame DEF ShortInv
  <2> QED
    BY <1>1 DEF LoopInv, ShortInv
<1>8. ReachInv'
  BY <1>1, <1>2, Frame DEF LoopInv, ReachInv
<1>9. MemPredInv'
  BY <1>1 DEF LoopInv, MemPredInv, inputs
<1> QED
  BY <1>3, <1>4, <1>5, <1>6, <1>7, <1>8, <1>9 DEF LoopInv

(* Returning, or doing nothing, disturbs no part of the loop invariant.    *)
LEMMA QuietStep ==
  IInv /\ phase # "seed" /\ (Return \/ UNCHANGED vars) => LoopInv'
<1> SUFFICES ASSUME IInv, phase # "seed", Return \/ UNCHANGED vars PROVE LoopInv'
  OBVIOUS
<1>1. /\ LoopInv /\ UNCHANGED inputs
      /\ UNCHANGED <<cyc_diff, diff, visited, visited_m, curpool, curpool_m, nextpool_c, nextpool_m, todo>>
      /\ phase' = phase \/ (phase = "loop" /\ phase' = "done")
  BY DEF IInv, Return, vars
<1>2. Settled' = Settled /\ SettledRegs' = SettledRegs /\ \A u : Asked(u)' <=> Asked(u)
  BY <1>1 DEF Settled, SettledRegs, Asked
<1>3. VisitedInv'
  BY <1>1, <1>2, Frame DEF LoopInv, VisitedInv
<1>4. LevelInv'
  BY <1>1 DEF LoopInv, LevelInv, NextRegs, NextMems, inputs
<1>5. EdgeInv'
  BY <1>1, <1>2 DEF LoopInv, EdgeInv, inputs
<1>6. WalkInv'
  BY <1>1, Frame DEF LoopInv, WalkInv
<1>7. ShortInv'
  BY <1>1, Frame DEF LoopInv, ShortInv
<1>8. ReachInv'
  BY <1>1, <1>2, Frame DEF LoopInv, ReachInv
<1>9. MemPredInv'
  BY <1>1 DEF LoopInv, MemPredInv, inputs
<1> QED
  BY <1>3, <1>4, <1>5, <1>6, <1>7, <1>8, <1>9 DEF LoopInv

(* IInv is inductive. *)
LEMMA Inductive == IInv /\ [Next]_vars => IInv'
<1> SUFFICES ASSUME IInv, [Next]_vars PROVE IInv'
  OBVIOUS
<1>1. TypeOK'
  BY TypeStep DEF IInv
<1>2. CASE phase = "seed" /\ UNCHANGED vars
  <2>1. phase' = "seed" /\ InitLocals'
    BY <1>2 DEF IInv, InitLocals, vars
  <2> QED
    BY <1>1, <2>1 DEF IInv
<1>3. CASE ~ (phase = "seed" /\ UNCHANGED vars)
  <2>1. LoopInv'
    <3>1. CASE Seed
      BY <1>1, <3>1, SeedStep
    <3>2. CASE EnterLevel
      BY <1>1, <3>2, EnterLevelStep
    <3>3. CASE \E r \in Regs : SettleReg(r)
      BY <1>1, <3>3, SettleRegStep
    <3>4. CASE RegsSettled
      BY <1>1, <3>4, RegsSettledStep
    <3>5. CASE \E m \in Mems : SettleMem(m)
      BY <1>1, <3>5, SettleMemStep
    <3>6. CASE LeaveLevel
      BY <1>1, <3>6, LeaveLevelStep
    <3>7. CASE Return
      BY <3>7, QuietStep DEF Return
    <3>8. CASE UNCHANGED vars
      BY <1>3, <3>8, QuietStep
    <3> QED
      BY <3>1, <3>2, <3>3, <3>4, <3>5, <3>6, <3>7, <3>8 DEF Next
  <2>2. phase' # "seed" /\ (phase' = "done" => (nextpool_c = {} /\ nextpool_m = {})')
    BY <1>3 DEF IInv, Next, vars, Seed, EnterLevel, SettleReg, RegsSettled, SettleMem, LeaveLevel, Return
  <2> QED
    BY <1>1, <2>1, <2>2 DEF IInv
<1> QED
  BY <1>2, <1>3

(* The loop invariant holds in every reachable state of                    *)
(* find_reachable_set.                                                     *)
LEMMA Invariance == Spec => []IInv
<1>1. Init => IInv
  BY DEF Init, InitLocals, IInv, TypeOK, Phases, Nodes
<1> QED
  BY <1>1, Inductive, PTL DEF Spec

-----------------------------------------------------------------------------

(* For every data-flow graph and every iteration order of the pools, the   *)
(* cycle distance find_reachable_set records for a register is the length  *)
(* of a shortest walk to it from the registers the PC feeds.               *)
THEOREM DiffIsShortest == Spec => []ShortestDiff
<1>1. IInv => ShortestDiff
  <2> SUFFICES ASSUME IInv, NEW r \in Regs, diff[r] # Absent
               PROVE  /\ WalksTo(r, diff[r]) # {}
                      /\ \A n \in 0 .. diff[r] - 1 : WalksTo(r, n) = {}
    BY DEF ShortestDiff
  <2>1. TypeOK /\ LoopInv
    BY DEF IInv, InitLocals, Nodes
  <2>2. WalksTo(r, diff[r]) # {}
    BY <2>1 DEF LoopInv, WalkInv
  <2>3. ASSUME NEW n \in 0 .. diff[r] - 1, WalksTo(r, n) # {} PROVE FALSE
    <3>1. PICK p \in [0 .. n -> Regs] : Walk(p, n) /\ p[n] = r
      BY <2>3 DEF WalksTo
    <3>2. diff[r] \in Nat /\ n \in Nat /\ n < diff[r]
      BY <2>1 DEF TypeOK, Nodes
    <3>3. diff[r] <= IF phase = "mem" THEN cyc_diff ELSE IF phase = "reg" THEN cyc_diff ELSE cyc_diff - 1
      BY <2>1, <3>2 DEF LoopInv, VisitedInv, LevelInv, SettledRegs, Settled, TypeOK, Nodes, Phases, IInv, InitLocals
    <3>4. n < IF phase = "mem" THEN cyc_diff + 1 ELSE cyc_diff
      BY <2>1, <3>2, <3>3 DEF TypeOK
    <3>5. diff[p[n]] <= n
      BY <2>1, <3>1, <3>2, <3>4 DEF LoopInv, ShortInv
    <3> QED
      BY <3>1, <3>2, <3>5
  <2> QED
    BY <2>2, <2>3
<1> QED
  BY <1>1, Invariance, PTL

(* A memory's distance is one more than that of the closest register that  *)
(* writes it, so its write-port check looks at the right cycle.            *)
THEOREM MemDiffIsNearest == Spec => []MemBehindNearestWriter
<1>1. IInv => MemBehindNearestWriter
  <2> SUFFICES ASSUME IInv, NEW m \in Mems, diff[m] # Absent
               PROVE  /\ \E u \in Regs : /\ diff[u] # Absent
                                         /\ m \in design_reg_mem[u] /\ diff[m] = diff[u] + 1
                      /\ \A u \in Regs : diff[u] # Absent /\ m \in design_reg_mem[u]
                                           => diff[m] <= diff[u] + 1
    BY DEF MemBehindNearestWriter
  <2>1. TypeOK /\ LoopInv /\ phase # "seed"
    BY DEF IInv, InitLocals, Nodes
  <2>2. ASSUME NEW u \in Regs, diff[u] # Absent, m \in design_reg_mem[u]
        PROVE  diff[m] <= diff[u] + 1
    <3>1. diff[u] \in Nat /\ diff[m] \in Nat /\ cyc_diff \in Nat
      BY <2>1, <2>2 DEF TypeOK, Nodes
    <3>2. CASE Asked(u)
      <4>1. diff[m] <= diff[u] + 1 \/ diff[u] = cyc_diff - 1
        BY <2>1, <2>2, <3>2 DEF LoopInv, EdgeInv
      <4>2. diff[m] <= cyc_diff
        BY <2>1, <3>1 DEF LoopInv, LevelInv, TypeOK, Phases, Nodes
      <4> QED
        BY <3>1, <4>1, <4>2
    <3>3. CASE ~ Asked(u)
      <4>1. diff[u] >= IF phase \in {"loop", "done"} THEN cyc_diff - 1 ELSE cyc_diff
        BY <2>2, <3>1, <3>3 DEF Asked
      <4>2. diff[m] <= cyc_diff
        BY <2>1, <3>1 DEF LoopInv, LevelInv, TypeOK, Phases, Nodes
      <4> QED
        BY <3>1, <4>1, <4>2
    <3> QED
      BY <3>2, <3>3
  <2> QED
    BY <2>1, <2>2 DEF LoopInv, MemPredInv
<1> QED
  BY <1>1, Invariance, PTL

(* When find_reachable_set returns, its map holds exactly the registers    *)
(* reachable from the PC and the memories these write.                     *)
THEOREM MapIsComplete == Spec => []CompleteOnReturn
<1>1. IInv => CompleteOnReturn
  <2> SUFFICES ASSUME IInv, phase = "done"
               PROVE  Settled = Reachable \cup UNION {design_reg_mem[u] : u \in Reachable}
    BY DEF CompleteOnReturn
  <2>1. TypeOK /\ LoopInv /\ nextpool_c = {} /\ nextpool_m = {}
    BY DEF IInv
  <2>2. /\ visited = SettledRegs /\ visited_m = Settled \cap Mems /\ StartPool \subseteq SettledRegs
        /\ curpool = {r \in Regs : diff[r] = cyc_diff - 1}
        /\ NextRegs(curpool, visited) = {} /\ NextMems(curpool, visited_m) = {}
        /\ cyc_diff \in Nat
        /\ \A n \in Nodes : diff[n] <= cyc_diff - 1
    BY <2>1 DEF LoopInv, VisitedInv, LevelInv, TypeOK
  <2>3. ASSUME NEW u \in SettledRegs
        PROVE  design_reg_reg[u] \subseteq SettledRegs /\ design_reg_mem[u] \subseteq Settled
    <3>1. u \in Regs /\ diff[u] # Absent
      BY DEF SettledRegs, Settled
    <3>2. CASE u \in curpool
      <4>1. design_reg_reg[u] \subseteq visited
        BY <2>2, <3>2 DEF NextRegs
      <4>2. design_reg_mem[u] \subseteq visited_m
        BY <2>2, <3>2 DEF NextMems
      <4> QED
        BY <2>2, <4>1, <4>2
    <3>3. CASE u \notin curpool
      <4>1. Asked(u)
        <5>1. cyc_diff \in Nat /\ diff[u] \in Nat /\ diff[u] <= cyc_diff - 1 /\ diff[u] # cyc_diff - 1
          BY <2>1, <2>2, <3>1, <3>3 DEF TypeOK, Nodes
        <5>2. diff[u] < cyc_diff - 1
          BY <5>1
        <5> QED
          BY <3>1, <5>2 DEF Asked
      <4> QED
        BY <2>1, <3>1, <4>1 DEF LoopInv, EdgeInv, SettledRegs, Settled, TypeOK, Nodes
    <3> QED
      BY <3>2, <3>3
  <2>4. Reachable = SettledRegs
    <3>1. Closed(SettledRegs) /\ SettledRegs \in SUBSET Regs
      BY <2>2, <2>3 DEF Closed, SettledRegs
    <3>2. \A S \in SUBSET Regs : Closed(S) => SettledRegs \subseteq S
      BY <2>1 DEF LoopInv, ReachInv
    <3> QED
      BY <3>1, <3>2 DEF Reachable
  <2>5. ASSUME NEW m \in Settled, m \notin Regs
        PROVE  \E u \in SettledRegs : m \in design_reg_mem[u]
    <3>1. m \in Mems /\ diff[m] # Absent
      BY <2>5 DEF Settled, Nodes
    <3> QED
      BY <2>1, <3>1 DEF LoopInv, MemPredInv, SettledRegs, Settled, Nodes
  <2> QED
    BY <2>3, <2>4, <2>5 DEF SettledRegs
<1> QED
  BY <1>1, Invariance, PTL

(* A distance, once recorded, is never overwritten by a later level. *)
THEOREM RecordedOnce == Spec => DiffIsFinal
<1>1. IInv /\ [Next]_vars => [\A n \in Nodes : diff[n] # Absent => diff'[n] = diff[n]]_vars
  <2> SUFFICES ASSUME IInv, Next, NEW n \in Nodes, diff[n] # Absent PROVE diff'[n] = diff[n]
    OBVIOUS
  <2>1. TypeOK
    BY DEF IInv
  <2>2. CASE Seed
    BY <2>2 DEF Seed, IInv, InitLocals
  <2>3. CASE \E r \in Regs : SettleReg(r)
    BY <2>1, <2>3, NodesAssumption DEF SettleReg, IInv, LoopInv, VisitedInv, SettledRegs, Settled, TypeOK, Nodes
  <2>4. CASE \E m \in Mems : SettleMem(m)
    BY <2>1, <2>4 DEF SettleMem, IInv, LoopInv, VisitedInv, Settled, TypeOK
  <2>5. CASE EnterLevel \/ RegsSettled \/ LeaveLevel \/ Return
    BY <2>5 DEF EnterLevel, RegsSettled, LeaveLevel, Return
  <2> QED
    BY <2>2, <2>3, <2>4, <2>5 DEF Next
<1> QED
  BY <1>1, Invariance, PTL DEF Spec, DiffIsFinal
=============================================================================
