----------------------------- MODULE Partition ------------------------------
(***************************************************************************)
(* What My_Disjoint_Set (container.h) promises: a partition of the nodes   *)
(* made so far, each set known by one of its members.                      *)
(***************************************************************************)
CONSTANT Nodes
VARIABLE rep  \* node made -> the member its set is known by

Joined(r, x, y) == [n \in DOMAIN r |-> IF r[n] = r[x] THEN r[y] ELSE r[n]]
With(r, n) == [m \in DOMAIN r \cup {n} |-> IF m \in DOMAIN r THEN r[m] ELSE m]

Init == rep = [n \in {} |-> n]

Make(n) == rep' = With(rep, n)
Join(x, y) == x \in DOMAIN rep /\ y \in DOMAIN rep /\ rep' = Joined(rep, x, y)

Next == \E x, y \in Nodes : Make(x) \/ Join(x, y)
Spec == Init /\ [][Next]_rep
=============================================================================
