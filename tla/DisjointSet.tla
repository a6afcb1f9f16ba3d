---------------------------- MODULE DisjointSet -----------------------------
(***************************************************************************)
(* My_Disjoint_Set (container.h), step by step: one action is one call of  *)
(* ds_find in its recursion, or the return from one, which compresses the  *)
(* path.  It implements Partition.                                         *)
(***************************************************************************)
EXTENDS Integers, Sequences

CONSTANTS
  Nodes,  \* what may be put in the sets
  NoNode

ASSUME NodesAssumption == NoNode \notin Nodes

VARIABLES
  parents,  \* node -> parent; a root is its own
  op,       \* operation under way: none, find, union, dump
  x, y,     \* its arguments
  stack,    \* nodes whose ds_find has been called and has not returned
  t_,       \* value returned by the last ds_find
  x_,       \* root of x, while union looks for that of y
  seen,     \* keys dump_stat has gone over, and the roots it has found
  rep       \* history, not in the code: the sets, as Partition sees them

vars == <<parents, op, x, y, stack, t_, x_, seen, rep>>

P == INSTANCE Partition

-----------------------------------------------------------------------------
MakeSetOf(n) == parents' = P!With(parents, n) /\ rep' = P!With(rep, n)

MakeSet(n) ==
  /\ op = "none"
  /\ MakeSetOf(n)
  /\ UNCHANGED <<op, x, y, stack, t_, x_, seen>>

(* The three callers of ds_find. *)
Find(n) ==
  /\ op = "none"
  /\ op' = "find" /\ x' = n
  /\ MakeSetOf(n)
  /\ stack' = <<n>>
  /\ UNCHANGED <<y, t_, x_, seen>>

UnionOf(m, n) ==
  /\ op = "none" /\ m # n
  /\ op' = "union" /\ x' = m /\ y' = n
  /\ MakeSetOf(m)
  /\ stack' = <<m>> /\ x_' = NoNode
  /\ UNCHANGED <<t_, seen>>

DumpStat ==
  /\ op = "none"
  /\ op' = "dump"
  /\ seen' = [keys |-> {}, roots |-> {}]
  /\ UNCHANGED <<parents, x, y, stack, t_, x_, rep>>

-----------------------------------------------------------------------------
Top == stack[Len(stack)]
Pop == SubSeq(stack, 1, Len(stack) - 1)

(* ds_find(parents[sig]) *)
Descend ==
  /\ stack # << >> /\ parents[Top] # Top
  /\ t_ = NoNode
  /\ stack' = Append(stack, parents[Top])
  /\ UNCHANGED <<parents, op, x, y, t_, x_, seen, rep>>

(* A root is returned; each caller makes it the parent of its own node. *)
MutAtRoot ==  \* mutant: the node asked about is returned
  /\ stack # << >> /\ parents[Top] = Top
  /\ t_ = NoNode
  /\ t_' = stack[1] /\ stack' = Pop
  /\ UNCHANGED <<parents, op, x, y, x_, seen, rep>>
AtRoot ==
  /\ stack # << >> /\ parents[Top] = Top
  /\ t_ = NoNode
  /\ t_' = Top /\ stack' = Pop
  /\ UNCHANGED <<parents, op, x, y, x_, seen, rep>>
Unwind ==
  /\ stack # << >> /\ t_ # NoNode
  /\ parents' = [parents EXCEPT ![Top] = t_]
  /\ stack' = Pop
  /\ UNCHANGED <<op, x, y, t_, x_, seen, rep>>

Found == stack = << >> /\ t_ # NoNode

EndFind ==
  /\ op = "find" /\ Found
  /\ op' = "none" /\ t_' = NoNode
  /\ UNCHANGED <<parents, x, y, stack, x_, seen, rep>>

(* The root of x is known: now that of y; then the link. *)
MutSecondFind ==  \* mutant: y is not made a set first
  /\ op = "union" /\ Found /\ x_ = NoNode
  /\ x_' = t_ /\ t_' = NoNode
  /\ stack' = <<y>>
  /\ UNCHANGED <<op, x, y, seen, parents, rep>>
SecondFind ==
  /\ op = "union" /\ Found /\ x_ = NoNode
  /\ x_' = t_ /\ t_' = NoNode
  /\ MakeSetOf(y)
  /\ stack' = <<y>>
  /\ UNCHANGED <<op, x, y, seen>>
MutLink ==  \* mutant: the node itself is linked, not its root
  /\ op = "union" /\ Found /\ x_ # NoNode
  /\ parents' = IF x_ = t_ THEN parents ELSE [parents EXCEPT ![x] = t_]
  /\ rep' = P!Joined(rep, x, y)
  /\ op' = "none" /\ t_' = NoNode
  /\ UNCHANGED <<x, y, stack, x_, seen>>
MutLinkSwapped ==  \* mutant: the second set is hung below the first
  /\ op = "union" /\ Found /\ x_ # NoNode
  /\ parents' = IF x_ = t_ THEN parents ELSE [parents EXCEPT ![t_] = x_]
  /\ rep' = P!Joined(rep, x, y)
  /\ op' = "none" /\ t_' = NoNode
  /\ UNCHANGED <<x, y, stack, x_, seen>>
Link ==
  /\ op = "union" /\ Found /\ x_ # NoNode
  /\ parents' = IF x_ = t_ THEN parents ELSE [parents EXCEPT ![x_] = t_]
  /\ rep' = P!Joined(rep, x, y)
  /\ op' = "none" /\ t_' = NoNode
  /\ UNCHANGED <<x, y, stack, x_, seen>>

(* The loop of dump_stat looks for the root of each entry's value. *)
MutDumpEntry ==  \* mutant: the search that rewrites entries starts the loop over
  /\ op = "dump" /\ stack = << >> /\ t_ = NoNode
  /\ \E k \in DOMAIN parents \ seen.keys :
       /\ seen' = [seen EXCEPT !.keys = {k}]
       /\ stack' = <<parents[k]>>
       /\ x' = k
  /\ UNCHANGED <<parents, op, y, t_, x_, rep>>
DumpEntry ==
  /\ op = "dump" /\ stack = << >> /\ t_ = NoNode
  /\ \E k \in DOMAIN parents \ seen.keys :
       /\ seen' = [seen EXCEPT !.keys = @ \cup {k}]
       /\ stack' = <<parents[k]>>
       /\ x' = k
  /\ UNCHANGED <<parents, op, y, t_, x_, rep>>
MutDumpFound ==  \* mutant: the entry's value is taken, not its root
  /\ op = "dump" /\ Found
  /\ seen' = [seen EXCEPT !.roots = @ \cup {parents[x]}]
  /\ t_' = NoNode
  /\ UNCHANGED <<parents, op, x, y, stack, x_, rep>>
DumpFound ==
  /\ op = "dump" /\ Found
  /\ seen' = [seen EXCEPT !.roots = @ \cup {t_}]
  /\ t_' = NoNode
  /\ UNCHANGED <<parents, op, x, y, stack, x_, rep>>
EndDump ==
  /\ op = "dump" /\ stack = << >> /\ t_ = NoNode /\ seen.keys = DOMAIN parents
  /\ op' = "none"
  /\ UNCHANGED <<parents, x, y, stack, t_, x_, seen, rep>>

Init ==
  /\ parents = [n \in {} |-> n]
  /\ op = "none" /\ x = NoNode /\ y = NoNode
  /\ stack = << >> /\ t_ = NoNode /\ x_ = NoNode
  /\ seen = [keys |-> {}, roots |-> {}]
  /\ rep = parents

Call == (\E n \in Nodes : MakeSet(n) \/ Find(n)) \/ (\E m, n \in Nodes : UnionOf(m, n)) \/ DumpStat
Step == Descend \/ AtRoot \/ Unwind \/ EndFind \/ SecondFind \/ Link \/ DumpEntry \/ DumpFound \/ EndDump
Next == Call \/ Step
Spec == Init /\ [][Next]_vars
FairSpec == Spec /\ WF_vars(Step)

-----------------------------------------------------------------------------

TypeOK ==
  /\ DOMAIN parents \subseteq Nodes
  /\ parents \in [DOMAIN parents -> DOMAIN parents]
  /\ rep \in [DOMAIN parents -> DOMAIN parents]
  /\ op \in {"none", "find", "union", "dump"}
  /\ x \in DOMAIN parents \cup {NoNode} /\ y \in Nodes \cup {NoNode}
  /\ stack \in Seq(DOMAIN parents)
  /\ t_ \in DOMAIN parents \cup {NoNode} /\ x_ \in DOMAIN parents \cup {NoNode}
  /\ seen \in [keys : SUBSET DOMAIN parents, roots : SUBSET DOMAIN parents]

(* The forest holds the partition at every step, in the middle of path     *)
(* compression too: a node is in the set of its parent, and a root is the  *)
(* member its set is known by.                                             *)
ForestIsPartition ==
  \A n \in DOMAIN parents : rep[parents[n]] = rep[n] /\ (parents[n] = n => rep[n] = n)

(* What ds_find returns is the member that the node's set is known by, so  *)
(* two nodes are in one set exactly if it returns the same for both.       *)
FindIsRep == op = "find" /\ Found => t_ = rep[x]

(* dump_stat, which walks the entries while ds_find rewrites them, returns *)
(* one root for each set and nothing else.                                 *)
DumpIsRoots ==
  op = "dump" /\ stack = << >> /\ t_ = NoNode /\ seen.keys = DOMAIN parents =>
    seen.roots = {rep[n] : n \in DOMAIN parents}

(* Read off the parents alone, without the history variable, the sets      *)
(* behave as a partition.  A node is known by its root: the one that is in *)
(* every set of nodes that holds the node and the parents of its members.  *)
Closed(S) == \A n \in S : parents[n] \in S
IsRootOf(r, n) == parents[r] = r /\ \A S \in SUBSET DOMAIN parents : n \in S /\ Closed(S) => r \in S
Roots == [n \in DOMAIN parents |-> CHOOSE r \in DOMAIN parents : IsRootOf(r, n)]
Forest == INSTANCE Partition WITH rep <- Roots
ForestImplementsPartition == Forest!Spec

(* ds_find ends: paths stay free of cycles.                                *)
CallsReturn == (op # "none") ~> (op = "none")
=============================================================================
