------------------------------- MODULE Tables -------------------------------
(* A std::map or a Yosys dict: a function whose domain is the keys it has. *)

(* m[k] = v *)
Put(f, k, v) == [x \in DOMAIN f \cup {k} |-> IF x = k THEN v ELSE f[x]]

(* m[k] = g[k] for every key k of g *)
PutAll(f, g) == [x \in DOMAIN f \cup DOMAIN g |-> IF x \in DOMAIN g THEN g[x] ELSE f[x]]
=============================================================================
