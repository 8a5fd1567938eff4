---------------------------- MODULE MCPageCache ----------------------------
(* PageCache with two threads and two pages, of which one is long. *)
EXTENDS PageCache

MCSize == [i \in Ids |-> IF i = 1 THEN 1 ELSE 2]
=============================================================================
