------------------------------ MODULE Multimap ------------------------------
(* What a BTreeVec promises: a collection of values under keys, where a key *)
(* may have several values in no order (NonEmptyUnorderVec).                *)
EXTENDS Naturals, FiniteSets

CONSTANTS Keys, MaxPushes

VARIABLES entries, \* the pairs of a key and a value
          size     \* what len answers

Init == entries = {} /\ size = 0

\* A value is added; the n-th to come goes by n.
Push == \E k \in Keys :
    /\ entries' = entries \cup {<<k, size + 1>>}
    /\ size' = size + 1

Spec == Init /\ [][Push]_<<entries, size>>
=============================================================================
