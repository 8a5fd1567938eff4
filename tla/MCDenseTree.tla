---------------------------- MODULE MCDenseTree ----------------------------
(* DenseTree with five entries in a tree of three levels. *)
EXTENDS DenseTree

(* Entry 1 lies in node 4; 2 on the line between 4 and 5, in both; 3 in 2, *)
(* across that line; 4 in node 3; 5 across the line between 2 and 3.  The  *)
(* nodes of the last level never get full.                                 *)
MCWithin == [n \in 1 .. 7 |-> CASE n = 1 -> 1 .. 5
                                [] n = 2 -> {1, 2, 3}
                                [] n = 3 -> {4}
                                [] n = 4 -> {1, 2}
                                [] n = 5 -> {2}
                                [] OTHER -> {}]
=============================================================================
