----------------------------- MODULE PageStore -----------------------------
(***************************************************************************)
(* What StoreByPage promises its callers (storage/src/                     *)
(* multitype_paged_storage.rs, trait StoreByPage): a map from page ids to  *)
(* items.  A new page gets an id no reachable page has; an item changes    *)
(* only while its page is open, by the caller who writes it, so that a     *)
(* page that was dropped and loaded again has the item it had; and a crash *)
(* keeps every item that was saved, except one that was being overwritten  *)
(* when the crash came.                                                    *)
(***************************************************************************)
CONSTANTS Ids,      \* the page ids
          Values,   \* the items a page may hold
          None      \* no item

VARIABLES value,    \* [Ids -> Values \cup {None}]: what a read of the id returns
          stable,   \* [Ids -> Values \cup {None}]: what a crash leaves of it
          open      \* the ids whose page callers share in memory

svars == <<value, stable, open>>

Init == /\ value = [id \in Ids |-> None]
        /\ stable = [id \in Ids |-> None]
        /\ open = {}

(* new_page: any id that is not in use. *)
New(id, v) == /\ value[id] = None
              /\ value' = [value EXCEPT ![id] = v]
              /\ stable' = [stable EXCEPT ![id] = None]
              /\ open' = open \cup {id}

(* A caller changes the item of a page it has open. *)
Write(id, v) == /\ id \in open
                /\ value' = [value EXCEPT ![id] = v]
                /\ UNCHANGED <<stable, open>>

(* get. *)
Load(id) == /\ value[id] # None
            /\ open' = open \cup {id}
            /\ UNCHANGED <<value, stable>>

(* The page is dropped.  Saving its item is not atomic: from the first     *)
(* step to the last the id has no stable item.                             *)
Drop(id) == /\ id \in open
            /\ open' = open \ {id}
            /\ stable' \in {stable, [stable EXCEPT ![id] = None]}
            /\ UNCHANGED value

EndSave(id) == /\ value[id] # None /\ id \notin open
               /\ stable' = [stable EXCEPT ![id] = value[id]]
               /\ UNCHANGED <<value, open>>

(* allow_free or force_free: no reference to the id is left. *)
Forget(id) == /\ id \in open
              /\ open' = open \ {id}
              /\ value' = [value EXCEPT ![id] = None]
              /\ stable' = [stable EXCEPT ![id] = None]

(* The process stops and the file is opened again. *)
Crash == value' = stable /\ open' = {} /\ UNCHANGED stable

Next == \/ \E id \in Ids : Load(id) \/ Drop(id) \/ EndSave(id) \/ Forget(id)
        \/ \E id \in Ids, v \in Values : New(id, v) \/ Write(id, v)
        \/ Crash

Spec == Init /\ [][Next]_svars
=============================================================================
