---------------------------- MODULE MCDisjointSet ----------------------------
(* Four nodes: two sets of two can meet, so a search can compress a path   *)
(* of three while the other set waits to be linked.                        *)
EXTENDS DisjointSet

MCNodes == {"n1", "n2", "n3", "n4"}
=============================================================================
