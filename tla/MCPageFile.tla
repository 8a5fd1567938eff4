----------------------------- MODULE MCPageFile -----------------------------
(* PageFile on a few pages. *)
EXTENDS PageFile

(* An item that ends on a page boundary, and two that span pages.  *)
MCItems == {[tag |-> "full", blocks |-> 1, exact |-> TRUE],
            [tag |-> "mid", blocks |-> 2, exact |-> FALSE],
            [tag |-> "long", blocks |-> 3, exact |-> FALSE]}
MCNothing == [tag |-> "nothing", blocks |-> 0, exact |-> FALSE]

(* The pages whose block something may read before it is written again: a  *)
(* block of a saved item, or one the flush under way has written.  States  *)
(* that differ in the blocks of other pages only are alike.                *)
Readable(p) ==
    \E id \in Pages : \E k \in 1 .. Len(chain[id]) :
      /\ p = chain[id][k]
      /\ \/ k <= saved[id].blocks
         \/ wId = id /\ k <= wBlock
MCView == <<lowest, freed, fileLowest, next, prev, pageVars, chain, known, saved,
            step, writeVars, todo, crashes,
            [p \in Pages |-> IF Readable(p) THEN data[p] ELSE <<>>]>>
=============================================================================
