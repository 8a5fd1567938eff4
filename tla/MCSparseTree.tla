---------------------------- MODULE MCSparseTree ----------------------------
(* SparseTree with the keys 0, 1 and 2: the halves <<0, 1>> and <<1, 2>> of *)
(* the root cannot be halved again.  The last level never splits.           *)
EXTENDS SparseTree

MCRootBox == <<0, 2>>
MCKey == [e \in Entries |-> CASE e = 1 -> 2 [] e = 2 -> 1 [] OTHER -> 0]
=============================================================================
