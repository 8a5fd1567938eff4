----------------------------- MODULE MCBTreeVec -----------------------------
(* BTreeVec where nodes are full with two keys and searched by halves with  *)
(* five, so that short sequences of pushes get to both.                     *)
EXTENDS BTreeVec
=============================================================================
