-------------------------- MODULE DisjointSetProofs --------------------------
(***************************************************************************)
(* Proofs about DisjointSet, for any set of nodes: whatever ds_find        *)
(* returns, if it returns, is the member the set of its argument is known  *)
(* by; and the parents have no cycle, so the sets can be read off them.    *)
(***************************************************************************)
EXTENDS DisjointSet, SequenceTheorems, TLAPS

(* The node whose root is being looked for. *)
Sought == IF op = "union" /\ x_ # NoNode THEN y ELSE x

Idle == stack = << >> /\ t_ = NoNode

(* A member a set is known by stands for itself. *)
RepOfRep == \A n \in DOMAIN parents : rep[rep[n]] = rep[n]

(* Every call under way is about a node of the set of the one sought.      *)
SearchInv ==
  /\ op = "none" => Idle
  /\ op # "none" /\ ~ Idle => Sought \in DOMAIN parents
  /\ op = "union" => x \in DOMAIN parents /\ y \in Nodes /\ ~ Idle
  /\ \A i \in 1 .. Len(stack) : rep[stack[i]] = rep[Sought]
  /\ t_ # NoNode => t_ = rep[Sought]
  /\ op = "union" /\ x_ # NoNode => x_ = rep[x]

(* The roots found are those of the entries gone over, except for the one  *)
(* being looked up.                                                        *)
DumpInv ==
  op = "dump" =>
    IF Idle THEN seen.roots = {rep[n] : n \in seen.keys}
    ELSE x \in seen.keys /\ seen.roots \cup {rep[x]} = {rep[n] : n \in seen.keys}

IInv == TypeOK /\ ForestIsPartition /\ RepOfRep /\ SearchInv /\ DumpInv

(* Initially there are no nodes. *)
LEMMA InitInv == Init => IInv
  BY NodesAssumption
  DEF Init, IInv, TypeOK, ForestIsPartition, RepOfRep, SearchInv, DumpInv, Idle, Sought

(* Making a set leaves the others as they are. *)
LEMMA MakeKeeps ==
  ASSUME TypeOK, ForestIsPartition, RepOfRep, NEW n \in Nodes, MakeSetOf(n)
  PROVE  /\ DOMAIN parents' = DOMAIN parents \cup {n}
         /\ DOMAIN parents' \subseteq Nodes
         /\ parents' \in [DOMAIN parents' -> DOMAIN parents']
         /\ rep' \in [DOMAIN parents' -> DOMAIN parents']
         /\ \A m \in DOMAIN parents : parents'[m] = parents[m] /\ rep'[m] = rep[m]
         /\ ForestIsPartition' /\ RepOfRep'
  <1>1. /\ DOMAIN parents' = DOMAIN parents \cup {n}
        /\ DOMAIN rep' = DOMAIN parents \cup {n}
        /\ \A m \in DOMAIN parents : parents'[m] = parents[m] /\ rep'[m] = rep[m]
        /\ n \notin DOMAIN parents => parents'[n] = n /\ rep'[n] = n
    BY DEF MakeSetOf, P!With, TypeOK
  <1>2. /\ DOMAIN parents' \subseteq Nodes
        /\ parents' \in [DOMAIN parents' -> DOMAIN parents']
        /\ rep' \in [DOMAIN parents' -> DOMAIN parents']
    BY <1>1 DEF MakeSetOf, P!With, TypeOK
  <1>3. ForestIsPartition'
    BY <1>1 DEF ForestIsPartition, TypeOK
  <1>4. RepOfRep'
    BY <1>1 DEF RepOfRep, TypeOK
  <1>5. QED
    BY <1>1, <1>2, <1>3, <1>4

-----------------------------------------------------------------------------
(* A call begins. *)
LEMMA MakeSetInv == ASSUME IInv, NEW n \in Nodes, MakeSet(n) PROVE IInv'
  <1>1. /\ DOMAIN parents' = DOMAIN parents \cup {n}
        /\ DOMAIN parents' \subseteq Nodes
        /\ parents' \in [DOMAIN parents' -> DOMAIN parents']
        /\ rep' \in [DOMAIN parents' -> DOMAIN parents']
        /\ ForestIsPartition' /\ RepOfRep'
    BY MakeKeeps DEF IInv, MakeSet
  <1>2. stack = << >> /\ t_ = NoNode /\ op = "none"
    BY DEF MakeSet, IInv, SearchInv, Idle
  <1>3. TypeOK'
    BY <1>1, <1>2 DEF MakeSet, IInv, TypeOK
  <1>4. SearchInv' /\ DumpInv'
    BY <1>2 DEF MakeSet, SearchInv, DumpInv, Idle, Sought
  <1>5. QED
    BY <1>1, <1>3, <1>4 DEF IInv

(* ds_find called from outside starts a search.                           *)
LEMMA FindInv == ASSUME IInv, NEW n \in Nodes, Find(n) PROVE IInv'
  <1>1. /\ DOMAIN parents' = DOMAIN parents \cup {n}
        /\ DOMAIN parents' \subseteq Nodes
        /\ parents' \in [DOMAIN parents' -> DOMAIN parents']
        /\ rep' \in [DOMAIN parents' -> DOMAIN parents']
        /\ ForestIsPartition' /\ RepOfRep'
    BY MakeKeeps DEF IInv, Find
  <1>2. t_ = NoNode /\ t_' = NoNode /\ stack' = <<n>> /\ op' = "find" /\ x' = n
    BY DEF Find, IInv, SearchInv, Idle
  <1>3. TypeOK'
    BY <1>1, <1>2 DEF Find, IInv, TypeOK
  <1>4. Sought' = n
    BY <1>2 DEF Sought
  <1>5. SearchInv' /\ DumpInv'
    BY <1>1, <1>2, <1>4 DEF SearchInv, DumpInv, Idle
  <1>6. QED
    BY <1>1, <1>3, <1>5 DEF IInv

(* dsj_union starts its first search.                                     *)
LEMMA UnionInv == ASSUME IInv, NEW m \in Nodes, NEW n \in Nodes, UnionOf(m, n) PROVE IInv'
  <1>1. /\ DOMAIN parents' = DOMAIN parents \cup {m}
        /\ DOMAIN parents' \subseteq Nodes
        /\ parents' \in [DOMAIN parents' -> DOMAIN parents']
        /\ rep' \in [DOMAIN parents' -> DOMAIN parents']
        /\ ForestIsPartition' /\ RepOfRep'
    BY MakeKeeps DEF IInv, UnionOf
  <1>2. /\ t_' = NoNode /\ stack' = <<m>> /\ op' = "union"
        /\ x' = m /\ y' = n /\ x_' = NoNode
    BY DEF UnionOf, IInv, SearchInv, Idle
  <1>3. TypeOK'
    BY <1>1, <1>2 DEF UnionOf, IInv, TypeOK
  <1>4. Sought' = m
    BY <1>2 DEF Sought
  <1>5. SearchInv' /\ DumpInv'
    BY <1>1, <1>2, <1>4 DEF SearchInv, DumpInv, Idle
  <1>6. QED
    BY <1>1, <1>3, <1>5 DEF IInv

(* dump_stat starts at any of the nodes.                                  *)
LEMMA DumpStatInv == ASSUME IInv, DumpStat PROVE IInv'
  <1>1. Idle /\ Idle'
    BY DEF DumpStat, IInv, SearchInv, Idle
  <1>2. TypeOK'
    BY DEF DumpStat, IInv, TypeOK
  <1>3. ForestIsPartition' /\ RepOfRep'
    BY DEF DumpStat, IInv, ForestIsPartition, RepOfRep
  <1>4. SearchInv'
    BY <1>1 DEF DumpStat, SearchInv, Idle
  <1>5. DumpInv'
    BY <1>1 DEF DumpStat, DumpInv
  <1>6. QED
    BY <1>2, <1>3, <1>4, <1>5 DEF IInv

-----------------------------------------------------------------------------
(* The recursion of ds_find. *)
LEMMA DescendInv == ASSUME IInv, Descend PROVE IInv'
  <1>1. /\ stack \in Seq(DOMAIN parents) /\ Len(stack) \in Nat \ {0}
        /\ Top \in DOMAIN parents /\ parents[Top] \in DOMAIN parents
    BY DEF Descend, IInv, TypeOK, Top
  <1>2. rep[parents[Top]] = rep[Sought]
    BY <1>1 DEF IInv, SearchInv, ForestIsPartition, Top
  <1>3. /\ stack' \in Seq(DOMAIN parents) /\ stack' # << >>
        /\ Len(stack') = Len(stack) + 1
        /\ \A i \in 1 .. Len(stack') : stack'[i] = IF i <= Len(stack) THEN stack[i] ELSE parents[Top]
    BY <1>1 DEF Descend
  <1>4. TypeOK'
    BY <1>3 DEF Descend, IInv, TypeOK
  <1>5. ForestIsPartition' /\ RepOfRep'
    BY DEF Descend, IInv, ForestIsPartition, RepOfRep
  <1>6. Sought' = Sought /\ ~ Idle /\ ~ Idle' /\ op # "none"
    BY <1>3 DEF Descend, Sought, Idle, IInv, SearchInv
  <1>7. \A i \in 1 .. Len(stack') : rep'[stack'[i]] = rep'[Sought']
    BY <1>1, <1>2, <1>3, <1>6 DEF Descend, IInv, SearchInv
  <1>8. SearchInv'
    BY <1>6, <1>7 DEF Descend, IInv, SearchInv
  <1>9. DumpInv'
    BY <1>6 DEF Descend, IInv, DumpInv
  <1>10. QED
    BY <1>4, <1>5, <1>8, <1>9 DEF IInv

(* Popping the stack drops its last element and no other. *)
LEMMA PopKeeps ==
  ASSUME NEW S, stack \in Seq(S), stack # << >>
  PROVE  /\ Top \in S /\ Pop \in Seq(S)
         /\ Len(stack) \in 1 .. Len(stack) /\ Top = stack[Len(stack)]
         /\ Len(Pop) = Len(stack) - 1
         /\ \A i \in 1 .. Len(Pop) : i \in 1 .. Len(stack) /\ Pop[i] = stack[i]
  <1>1. Len(stack) \in Nat \ {0} /\ stack \in [1 .. Len(stack) -> S]
    OBVIOUS
  <1>2. /\ Pop \in Seq(S) /\ Len(Pop) = Len(stack) - 1
        /\ \A i \in 1 .. Len(Pop) : Pop[i] = stack[1 + i - 1]
    BY <1>1, SubSeqProperties DEF Pop
  <1>3. QED
    BY <1>1, <1>2 DEF Top

(* The recursion reaches a node that is its own parent.                   *)
LEMMA AtRootInv == ASSUME IInv, AtRoot PROVE IInv'
  <1>1. /\ Top \in DOMAIN parents /\ Pop \in Seq(DOMAIN parents)
        /\ Len(stack) \in 1 .. Len(stack) /\ Top = stack[Len(stack)]
        /\ \A i \in 1 .. Len(Pop) : i \in 1 .. Len(stack) /\ Pop[i] = stack[i]
    BY PopKeeps DEF AtRoot, IInv, TypeOK
  <1>2. Top = rep[Sought]
    BY <1>1 DEF AtRoot, IInv, SearchInv, ForestIsPartition
  <1>3. t_' = Top /\ Top # NoNode
    BY <1>1, NodesAssumption DEF AtRoot, IInv, TypeOK
  <1>4. TypeOK'
    BY <1>1, <1>3 DEF AtRoot, IInv, TypeOK
  <1>5. ForestIsPartition' /\ RepOfRep'
    BY DEF AtRoot, IInv, ForestIsPartition, RepOfRep
  <1>6. Sought' = Sought /\ ~ Idle /\ ~ Idle' /\ op # "none"
    BY <1>3 DEF AtRoot, Sought, Idle, IInv, SearchInv
  <1>7. \A i \in 1 .. Len(stack') : rep'[stack'[i]] = rep'[Sought']
    BY <1>1, <1>6 DEF AtRoot, IInv, SearchInv
  <1>8. SearchInv'
    BY <1>2, <1>3, <1>6, <1>7 DEF AtRoot, IInv, SearchInv
  <1>9. DumpInv'
    BY <1>6 DEF AtRoot, IInv, DumpInv
  <1>10. QED
    BY <1>4, <1>5, <1>8, <1>9 DEF IInv

(* The node now hangs below the root of its own set. *)
LEMMA UnwindInv == ASSUME IInv, Unwind PROVE IInv'
  <1>1. /\ Top \in DOMAIN parents /\ Pop \in Seq(DOMAIN parents)
        /\ Len(stack) \in 1 .. Len(stack) /\ Top = stack[Len(stack)]
        /\ \A i \in 1 .. Len(Pop) : i \in 1 .. Len(stack) /\ Pop[i] = stack[i]
    BY PopKeeps DEF Unwind, IInv, TypeOK
  <1>2. Sought' = Sought /\ ~ Idle /\ ~ Idle' /\ op # "none"
    BY DEF Unwind, Sought, Idle, IInv, SearchInv
  <1>3. t_ \in DOMAIN parents /\ t_ = rep[Top] /\ rep[t_] = t_
    BY <1>1, <1>2 DEF Unwind, IInv, TypeOK, SearchInv, RepOfRep
  <1>4. /\ DOMAIN parents' = DOMAIN parents
        /\ parents' \in [DOMAIN parents -> DOMAIN parents]
        /\ \A n \in DOMAIN parents : parents'[n] = IF n = Top THEN t_ ELSE parents[n]
    BY <1>1, <1>3 DEF Unwind, IInv, TypeOK
  <1>5. TypeOK'
    BY <1>1, <1>4 DEF Unwind, IInv, TypeOK
  <1>6. ForestIsPartition'
    BY <1>1, <1>3, <1>4 DEF Unwind, IInv, ForestIsPartition
  <1>7. RepOfRep'
    BY <1>4 DEF Unwind, IInv, RepOfRep
  <1>8. \A i \in 1 .. Len(stack') : rep'[stack'[i]] = rep'[Sought']
    BY <1>1, <1>2 DEF Unwind, IInv, SearchInv
  <1>9. SearchInv'
    BY <1>2, <1>4, <1>8 DEF Unwind, IInv, SearchInv
  <1>10. DumpInv'
    BY <1>2 DEF Unwind, IInv, DumpInv
  <1>11. QED
    BY <1>5, <1>6, <1>7, <1>9, <1>10 DEF IInv

-----------------------------------------------------------------------------
(* ds_find has returned. *)
LEMMA EndFindInv == ASSUME IInv, EndFind PROVE IInv'
  BY DEF EndFind, Found, IInv, TypeOK, ForestIsPartition, RepOfRep, SearchInv, DumpInv, Idle

(* dsj_union goes on to its second search.                                *)
LEMMA SecondFindInv == ASSUME IInv, SecondFind PROVE IInv'
  <1>1. y \in Nodes /\ x \in DOMAIN parents /\ op = "union" /\ x_' = t_ /\ t_ # NoNode
    BY DEF SecondFind, Found, IInv, SearchInv
  <1>2. /\ DOMAIN parents' = DOMAIN parents \cup {y}
        /\ DOMAIN parents' \subseteq Nodes
        /\ parents' \in [DOMAIN parents' -> DOMAIN parents']
        /\ rep' \in [DOMAIN parents' -> DOMAIN parents']
        /\ \A m \in DOMAIN parents : rep'[m] = rep[m]
        /\ ForestIsPartition' /\ RepOfRep'
    BY <1>1, MakeKeeps DEF IInv, SecondFind
  <1>3. t_ = rep[x] /\ t_ \in DOMAIN parents
    BY <1>1 DEF SecondFind, IInv, TypeOK, SearchInv, Sought
  <1>4. /\ t_' = NoNode /\ stack' = <<y>> /\ op' = "union" /\ x' = x /\ y' = y
        /\ Sought' = y
    BY <1>1 DEF SecondFind, Sought
  <1>5. TypeOK'
    BY <1>1, <1>2, <1>3, <1>4 DEF SecondFind, IInv, TypeOK
  <1>6. SearchInv' /\ DumpInv'
    BY <1>1, <1>2, <1>3, <1>4 DEF SearchInv, DumpInv, Idle
  <1>7. QED
    BY <1>2, <1>5, <1>6 DEF IInv

(* Both roots are known: the first set is hung below the second. *)
LEMMA LinkInv == ASSUME IInv, Link PROVE IInv'
  <1>1. /\ x \in DOMAIN parents /\ y \in DOMAIN parents
        /\ x_ = rep[x] /\ t_ = rep[y]
        /\ x_ \in DOMAIN parents /\ t_ \in DOMAIN parents
    BY DEF Link, Found, IInv, TypeOK, SearchInv, Sought, Idle
  <1>2. rep[x_] = x_ /\ rep[t_] = t_
    BY <1>1 DEF IInv, RepOfRep
  <1>3. /\ DOMAIN parents' = DOMAIN parents
        /\ \A n \in DOMAIN parents : parents'[n] = IF n = x_ /\ x_ # t_ THEN t_ ELSE parents[n]
        /\ parents' \in [DOMAIN parents -> DOMAIN parents]
    BY <1>1 DEF Link, IInv, TypeOK
  <1>4. /\ \A n \in DOMAIN parents : rep'[n] = IF rep[n] = x_ THEN t_ ELSE rep[n]
        /\ rep' \in [DOMAIN parents -> DOMAIN parents]
    BY <1>1 DEF Link, P!Joined, IInv, TypeOK
  <1>5. TypeOK'
    BY <1>3, <1>4 DEF Link, IInv, TypeOK
  <1>6. ForestIsPartition'
    <2>1. ASSUME NEW n \in DOMAIN parents
          PROVE  rep'[parents'[n]] = rep'[n] /\ (parents'[n] = n => rep'[n] = n)
      <3>1. rep[parents[n]] = rep[n] /\ (parents[n] = n => rep[n] = n) /\ parents[n] \in DOMAIN parents
        BY DEF IInv, ForestIsPartition, TypeOK
      <3>2. CASE n = x_ /\ x_ # t_
        BY <1>1, <1>2, <1>3, <1>4, <3>2
      <3>3. CASE ~ (n = x_ /\ x_ # t_)
        BY <1>1, <1>2, <1>3, <1>4, <3>1, <3>3
      <3>4. QED
        BY <3>2, <3>3
    <2>2. QED
      BY <1>3, <2>1 DEF ForestIsPartition
  <1>7. RepOfRep'
    BY <1>1, <1>2, <1>3, <1>4 DEF IInv, RepOfRep, TypeOK
  <1>8. SearchInv' /\ DumpInv'
    BY DEF Link, Found, SearchInv, DumpInv, Idle
  <1>9. QED
    BY <1>5, <1>6, <1>7, <1>8 DEF IInv

-----------------------------------------------------------------------------
(* dump_stat: the entry taken next, and what ds_find returns for it. *)
LEMMA DumpEntryInv == ASSUME IInv, DumpEntry PROVE IInv'
  <1>1. PICK k \in DOMAIN parents \ seen.keys :
          /\ seen' = [seen EXCEPT !.keys = @ \cup {k}]
          /\ stack' = <<parents[k]>>
          /\ x' = k
    BY DEF DumpEntry
  <1>2. parents[k] \in DOMAIN parents /\ rep[parents[k]] = rep[k]
    BY DEF IInv, TypeOK, ForestIsPartition
  <1>3. /\ seen.keys \subseteq DOMAIN parents /\ seen.roots \subseteq DOMAIN parents
        /\ seen' \in [keys : SUBSET DOMAIN parents, roots : SUBSET DOMAIN parents]
        /\ seen'.keys = seen.keys \cup {k} /\ seen'.roots = seen.roots
    BY <1>1 DEF IInv, TypeOK
  <1>4. TypeOK'
    BY <1>1, <1>2, <1>3 DEF DumpEntry, IInv, TypeOK
  <1>5. ForestIsPartition' /\ RepOfRep'
    BY DEF DumpEntry, IInv, ForestIsPartition, RepOfRep
  <1>6. Sought' = k /\ ~ Idle'
    BY <1>1 DEF DumpEntry, Sought, Idle
  <1>7. SearchInv'
    BY <1>1, <1>2, <1>6 DEF DumpEntry, SearchInv, Idle
  <1>8. seen.roots = {rep[n] : n \in seen.keys}
    BY DEF DumpEntry, IInv, DumpInv, Idle
  <1>9. seen'.roots \cup {rep'[x']} = {rep'[n] : n \in seen'.keys}
    BY <1>1, <1>3, <1>8 DEF DumpEntry
  <1>10. DumpInv'
    BY <1>1, <1>3, <1>6, <1>9 DEF DumpInv
  <1>11. QED
    BY <1>4, <1>5, <1>7, <1>10 DEF IInv

(* dump_stat notes the root it was given.                                 *)
LEMMA DumpFoundInv == ASSUME IInv, DumpFound PROVE IInv'
  <1>1. t_ = rep[x] /\ t_ \in DOMAIN parents /\ ~ Idle /\ Idle'
    BY DEF DumpFound, Found, IInv, TypeOK, SearchInv, Sought, Idle
  <1>2. /\ seen' \in [keys : SUBSET DOMAIN parents, roots : SUBSET DOMAIN parents]
        /\ seen'.keys = seen.keys /\ seen'.roots = seen.roots \cup {t_}
    BY <1>1 DEF DumpFound, IInv, TypeOK
  <1>3. TypeOK'
    BY <1>2 DEF DumpFound, IInv, TypeOK
  <1>4. ForestIsPartition' /\ RepOfRep'
    BY DEF DumpFound, IInv, ForestIsPartition, RepOfRep
  <1>5. SearchInv'
    BY <1>1 DEF DumpFound, SearchInv, Idle
  <1>6. seen.roots \cup {rep[x]} = {rep[n] : n \in seen.keys}
    BY <1>1 DEF DumpFound, IInv, DumpInv
  <1>7. DumpInv'
    BY <1>1, <1>2, <1>6 DEF DumpFound, DumpInv
  <1>8. QED
    BY <1>3, <1>4, <1>5, <1>7 DEF IInv

(* dump_stat returns.                                                     *)
LEMMA EndDumpInv == ASSUME IInv, EndDump PROVE IInv'
  BY DEF EndDump, IInv, TypeOK, ForestIsPartition, RepOfRep, SearchInv, DumpInv, Idle

(* Every step keeps the invariant.                                        *)
LEMMA NextInv == IInv /\ [Next]_vars => IInv'
  <1> SUFFICES ASSUME IInv, [Next]_vars PROVE IInv'
    OBVIOUS
  <1>1. CASE Call
    BY <1>1, MakeSetInv, FindInv, UnionInv, DumpStatInv DEF Call
  <1>2. CASE Step
    BY <1>2, DescendInv, AtRootInv, UnwindInv, EndFindInv, SecondFindInv, LinkInv,
       DumpEntryInv, DumpFoundInv, EndDumpInv DEF Step
  <1>3. CASE UNCHANGED vars
    BY <1>3 DEF vars, IInv, TypeOK, ForestIsPartition, RepOfRep, SearchInv, DumpInv, Idle, Sought
  <1>4. QED
    BY <1>1, <1>2, <1>3 DEF Next

(* The invariant holds throughout.                                        *)
LEMMA Invariant == Spec => []IInv
  BY InitInv, NextInv, PTL DEF Spec

-----------------------------------------------------------------------------
(* Parents, arguments and results are always nodes of the forest: ds_find  *)
(* never follows a parent that is not a key of the dict.                   *)
THEOREM TypeCorrect == Spec => []TypeOK
  <1>1. IInv => TypeOK
    BY DEF IInv
  <1>2. QED
    BY <1>1, Invariant, PTL

(* Path compression and linking never move a node to another set.          *)
THEOREM ForestCorrect == Spec => []ForestIsPartition
  <1>1. IInv => ForestIsPartition
    BY DEF IInv
  <1>2. QED
    BY <1>1, Invariant, PTL

(* ds_find returns the member by which the set of its argument is known.   *)
THEOREM FindCorrect == Spec => []FindIsRep
  <1>1. IInv => FindIsRep
    BY DEF IInv, SearchInv, FindIsRep, Found, Sought
  <1>2. QED
    BY <1>1, Invariant, PTL

(* dump_stat counts each set once, although the entries change as it goes. *)
THEOREM DumpCorrect == Spec => []DumpIsRoots
  <1>1. IInv => DumpIsRoots
    BY DEF IInv, DumpInv, DumpIsRoots, Idle
  <1>2. QED
    BY <1>1, Invariant, PTL

-----------------------------------------------------------------------------
(* Cycles.  Path compression and linking only ever make a root the parent  *)
(* of a node, so there are none: nodes whose parents are all among them    *)
(* have a root among them.                                                 *)
NoCycle == \A S \in SUBSET DOMAIN parents : S # {} /\ Closed(S) => \E r \in S : parents[r] = r

(* Then the member a set is known by is a root.                            *)
LEMMA RepIsRoot ==
  ASSUME IInv, NoCycle, NEW n \in DOMAIN parents
  PROVE  rep[n] \in DOMAIN parents /\ parents[rep[n]] = rep[n]
  <1> DEFINE C == {m \in DOMAIN parents : rep[m] = rep[n]}
  <1>1. C # {} /\ Closed(C)
    BY DEF IInv, TypeOK, ForestIsPartition, Closed
  <1>2. PICK r \in C : parents[r] = r
    BY <1>1 DEF NoCycle
  <1>3. r = rep[n]
    BY <1>2 DEF IInv, ForestIsPartition
  <1>4. QED
    BY <1>2, <1>3

(* A new node is a root.                                                   *)
LEMMA MakeNoCycle ==
  ASSUME TypeOK, NoCycle, NEW n \in Nodes, MakeSetOf(n)
  PROVE  NoCycle'
  <1>1. /\ DOMAIN parents' = DOMAIN parents \cup {n}
        /\ \A m \in DOMAIN parents : parents'[m] = parents[m]
        /\ n \notin DOMAIN parents => parents'[n] = n
    BY DEF MakeSetOf, P!With, TypeOK
  <1>2. SUFFICES ASSUME NEW S \in SUBSET DOMAIN parents', S # {}, \A m \in S : parents'[m] \in S
                 PROVE  \E r \in S : parents'[r] = r
    BY DEF NoCycle, Closed
  <1>3. CASE n \in S /\ n \notin DOMAIN parents
    BY <1>1, <1>3
  <1>4. CASE ~ (n \in S /\ n \notin DOMAIN parents)
    <2>1. S \in SUBSET DOMAIN parents /\ Closed(S)
      BY <1>1, <1>2, <1>4 DEF Closed
    <2>2. QED
      BY <1>1, <1>2, <2>1 DEF NoCycle
  <1>5. QED
    BY <1>3, <1>4

(* Hanging a node below a root makes no cycle.                             *)
LEMMA HangNoCycle ==
  ASSUME NoCycle, NEW n, NEW r \in DOMAIN parents, parents[r] = r, parents' = [parents EXCEPT ![n] = r]
  PROVE  NoCycle'
  <1>1. /\ DOMAIN parents' = DOMAIN parents
        /\ \A m \in DOMAIN parents : parents'[m] = IF m = n THEN r ELSE parents[m]
    OBVIOUS
  <1>2. SUFFICES ASSUME NEW S \in SUBSET DOMAIN parents, S # {}, \A m \in S : parents'[m] \in S
                 PROVE  \E p \in S : parents'[p] = p
    BY <1>1 DEF NoCycle, Closed
  <1>3. CASE n \in S
    BY <1>1, <1>2, <1>3
  <1>4. CASE n \notin S
    <2>1. Closed(S)
      BY <1>1, <1>2, <1>4 DEF Closed
    <2>2. QED
      BY <1>1, <1>2, <1>4, <2>1 DEF NoCycle
  <1>5. QED
    BY <1>3, <1>4

(* Every step that changes the parents is one of these.                    *)
LEMMA NextNoCycle == IInv /\ NoCycle /\ [Next]_vars => NoCycle'
  <1> SUFFICES ASSUME IInv, NoCycle, [Next]_vars PROVE NoCycle'
    OBVIOUS
  <1>1. ASSUME NEW n \in Nodes, MakeSetOf(n) PROVE NoCycle'
    BY <1>1, MakeNoCycle DEF IInv
  <1>2. ASSUME parents' = parents PROVE NoCycle'
    BY <1>2 DEF NoCycle, Closed
  <1>3. CASE Call
    BY <1>1, <1>2, <1>3 DEF Call, MakeSet, Find, UnionOf, DumpStat
  <1>4. CASE SecondFind
    BY <1>1, <1>4 DEF SecondFind, Found, IInv, SearchInv
  <1>5. CASE Unwind
    <2>1. Top \in DOMAIN parents /\ Len(stack) \in 1 .. Len(stack) /\ Top = stack[Len(stack)]
      BY <1>5, PopKeeps DEF Unwind, IInv, TypeOK
    <2>2. t_ = rep[Top]
      BY <1>5, <2>1 DEF Unwind, IInv, SearchInv
    <2>3. QED
      BY <1>5, <2>1, <2>2, RepIsRoot, HangNoCycle DEF Unwind
  <1>6. CASE Link
    <2>1. t_ = rep[y] /\ y \in DOMAIN parents
      BY <1>6 DEF Link, Found, IInv, TypeOK, SearchInv, Sought, Idle
    <2>2. QED
      BY <1>2, <1>6, <2>1, RepIsRoot, HangNoCycle DEF Link
  <1>7. CASE Descend \/ AtRoot \/ EndFind \/ DumpEntry \/ DumpFound \/ EndDump
    BY <1>2, <1>7 DEF Descend, AtRoot, EndFind, DumpEntry, DumpFound, EndDump
  <1>8. CASE UNCHANGED vars
    BY <1>2, <1>8 DEF vars
  <1>9. QED
    BY <1>3, <1>4, <1>5, <1>6, <1>7, <1>8 DEF Next, Step

(* There is never a cycle.                                                 *)
LEMMA NoCycleInvariant == Spec => []NoCycle
  <1>1. Init => NoCycle
    BY DEF Init, NoCycle
  <1>2. QED
    BY <1>1, Invariant, NextNoCycle, PTL DEF Spec

(* So what is read off the parents is what the history variable says.      *)
LEMMA RootsAreReps == IInv /\ NoCycle => Roots = rep
  <1> SUFFICES ASSUME IInv, NoCycle PROVE Roots = rep
    OBVIOUS
  <1>1. ASSUME NEW n \in DOMAIN parents PROVE (CHOOSE r \in DOMAIN parents : IsRootOf(r, n)) = rep[n]
    <2> DEFINE C == {m \in DOMAIN parents : rep[m] = rep[n]}
    <2>1. n \in C /\ Closed(C)
      BY DEF IInv, TypeOK, ForestIsPartition, Closed
    <2>2. IsRootOf(rep[n], n)
      <3>1. parents[rep[n]] = rep[n]
        BY RepIsRoot
      <3>2. ASSUME NEW S \in SUBSET DOMAIN parents, n \in S, Closed(S) PROVE rep[n] \in S
        <4>1. S \cap C # {} /\ Closed(S \cap C)
          BY <2>1, <3>2 DEF Closed
        <4>2. PICK r \in S \cap C : parents[r] = r
          BY <4>1 DEF NoCycle
        <4>3. r = rep[n]
          BY <4>2 DEF IInv, ForestIsPartition
        <4>4. QED
          BY <4>2, <4>3
      <3>3. QED
        BY <3>1, <3>2 DEF IsRootOf
    <2>3. ASSUME NEW r \in DOMAIN parents, IsRootOf(r, n) PROVE r = rep[n]
      <3>1. r \in C /\ parents[r] = r
        BY <2>1, <2>3 DEF IsRootOf
      <3>2. QED
        BY <3>1 DEF IInv, ForestIsPartition
    <2> HIDE DEF C
    <2>4. rep[n] \in DOMAIN parents
      BY RepIsRoot
    <2>5. QED
      BY <2>2, <2>3, <2>4
  <1>2. QED
    BY <1>1 DEF Roots, IInv, TypeOK

-----------------------------------------------------------------------------
(* With the sets of the history variable, the forest implements Partition: *)
(* an operation on sets takes effect in one step of the code, the making   *)
(* of a node or the last assignment of ds_union.                           *)
LEMMA HistoryImplements == Spec => P!Spec
  <1>1. Init => P!Init
    BY DEF Init, P!Init
  <1>2. IInv /\ [Next]_vars => [P!Next]_rep
    <2> SUFFICES ASSUME IInv, [Next]_vars PROVE (\E a, b \in Nodes : P!Make(a) \/ P!Join(a, b)) \/ rep' = rep
      BY DEF P!Next
    <2>1. ASSUME NEW n \in Nodes, MakeSetOf(n) PROVE P!Make(n)
      BY <2>1 DEF MakeSetOf, P!Make
    <2>2. ASSUME Call PROVE (\E n \in Nodes : MakeSetOf(n)) \/ rep' = rep
      BY <2>2 DEF Call, MakeSet, Find, UnionOf, DumpStat
    <2>3. ASSUME SecondFind PROVE \E n \in Nodes : MakeSetOf(n)
      BY <2>3 DEF SecondFind, Found, IInv, SearchInv
    <2>4. ASSUME Link PROVE x \in Nodes /\ y \in Nodes /\ P!Join(x, y)
      BY <2>4 DEF Link, Found, P!Join, IInv, TypeOK, SearchInv, Sought, Idle
    <2>5. ASSUME Step PROVE SecondFind \/ Link \/ rep' = rep
      BY <2>5 DEF Step, Descend, AtRoot, Unwind, EndFind, DumpEntry, DumpFound, EndDump
    <2>6. ASSUME UNCHANGED vars PROVE rep' = rep
      BY <2>6 DEF vars
    <2>7. QED
      BY <2>1, <2>2, <2>3, <2>4, <2>5, <2>6 DEF Next
  <1>3. QED
    BY <1>1, <1>2, Invariant, PTL DEF Spec, P!Spec

(* Read off the parents, the sets behave as the partition that             *)
(* My_Disjoint_Set promises, also while a search rewrites the parents.     *)
THEOREM Implements == Spec => ForestImplementsPartition
  <1>1. P!Init /\ Roots = rep => Forest!Init
    BY DEF P!Init, Forest!Init
  <1>2. Roots = rep /\ (Roots = rep)' /\ [P!Next]_rep => [Forest!Next]_Roots
    <2> SUFFICES ASSUME Roots = rep, Roots' = rep', [P!Next]_rep PROVE [Forest!Next]_Roots
      OBVIOUS
    <2>1. CASE rep' = rep
      BY <2>1
    <2>2. ASSUME NEW a \in Nodes, P!Make(a) PROVE Forest!Make(a)
      BY <2>2 DEF P!Make, P!With, Forest!Make, Forest!With
    <2>3. ASSUME NEW a \in Nodes, NEW b \in Nodes, P!Join(a, b) PROVE Forest!Join(a, b)
      BY <2>3 DEF P!Join, P!Joined, Forest!Join, Forest!Joined
    <2>4. QED
      BY <2>1, <2>2, <2>3 DEF P!Next, Forest!Next
  <1>3. IInv /\ NoCycle => Roots = rep
    BY RootsAreReps
  <1>4. QED
    BY <1>1, <1>2, <1>3, HistoryImplements, Invariant, NoCycleInvariant, PTL
       DEF P!Spec, Forest!Spec, ForestImplementsPartition
=============================================================================
