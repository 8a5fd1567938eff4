---------------------------- MODULE PageFileInv ----------------------------
(***************************************************************************)
(* The inductive invariant of PageFile, in named parts.  It strengthens    *)
(* the properties of PageFile with what they rest on: which headers are    *)
(* zero, where in its chain a flush is, and what it has already written.   *)
(***************************************************************************)
EXTENDS PageFile

Writing == step \in {"write", "linkNext", "linkPrev"}
Cutting == step \in {"free", "zero"}

(* What each step of a flush needs, for its operators to be defined. *)
ShapeInv ==
    /\ \A id \in Pages : id \in cached => Len(chain[id]) > 0
    /\ step = "idle" => wId = 0
    /\ step # "idle" => wId \in Pages /\ wId \notin cached
    /\ Writing => Len(chain[wId]) > 0
    /\ step \in {"linkNext", "linkPrev"} => Len(todo) = 1 /\ Len(chain[wId]) > 1
    /\ step = "zero" => Len(todo) > 0

(* The heap: once each, below lowest, with zeroed headers. *)
HeapInv ==
    /\ lowest = LowestOnOpen(fileLowest)
    /\ \A p \in Pages :
         /\ freed[p] <= 1
         /\ freed[p] = 1 =>
              /\ p < lowest
              /\ \/ next[p] = 0 /\ prev[p] = 0
                 \/ step = "zero" /\ p = todo[1]

(* The chains: disjoint, below lowest, not on the heap. *)
ChainInv ==
    /\ \A id \in Pages : \A k \in 1 .. Len(chain[id]) :
         chain[id][k] < lowest /\ freed[chain[id][k]] = 0
    /\ \A i, j \in Pages : \A k \in 1 .. Len(chain[i]), l \in 1 .. Len(chain[j]) :
         chain[i][k] = chain[j][l] => i = j /\ k = l
    /\ \A id \in Pages : Len(chain[id]) > 0 => chain[id][1] = id

(* The links of each chain, but for the one a flush is working on. *)
NextInv ==
    \A id \in Pages : \A k \in 1 .. Len(chain[id]) :
      \/ k < Len(chain[id]) /\ next[chain[id][k]] = chain[id][k + 1]
      \/ k = Len(chain[id]) /\ next[chain[id][k]] = 0
      \/ /\ wId = id /\ step = "linkNext"
         /\ k = Len(chain[id]) - 1
      \/ /\ wId = id /\ step = "free" /\ k = Len(chain[id])
         /\ Len(todo) > 0
         /\ next[chain[id][k]] = todo[1]
         /\ prev[todo[1]] = chain[id][k]

PrevInv ==
    \A id \in Pages : \A k \in 1 .. Len(chain[id]) :
      \/ k = 1 /\ prev[chain[id][k]] = 0
      \/ k > 1 /\ prev[chain[id][k]] = chain[id][k - 1]
      \/ /\ wId = id /\ step \in {"linkNext", "linkPrev"}
         /\ k = Len(chain[id]) /\ k > 1

(* The cache and the ids in use.  A page that is not dirty has the item    *)
(* that was saved, which is why it may be dropped without a write.         *)
CacheInv ==
    \A id \in Pages :
      /\ id \notin cached => id \notin dirty /\ id \notin allowed /\ id \notin forced
      /\ id \in known =>
           /\ Len(chain[id]) > 0
           /\ id \in cached => /\ item[id] \in Items
                                /\ id \notin allowed /\ id \notin forced
           /\ id \in cached \ dirty => saved[id] # Nothing /\ item[id] = saved[id]
           /\ id \notin cached /\ wId # id => saved[id] # Nothing

(* The items in the file.  One spare page may follow an item's last block. *)
SavedInv ==
    \A id \in Pages : saved[id] # Nothing =>
      /\ id \in known
      /\ saved[id].blocks <= Len(chain[id])
      /\ Len(chain[id]) <= saved[id].blocks + 1
      /\ \A k \in 1 .. saved[id].blocks : data[chain[id][k]] = <<saved[id], k>>

(* The flush under way. *)
FlushInv ==
    step # "idle" => /\ saved[wId] = Nothing
                     /\ wId \in known => wItem \in Items /\ ~wAllowed

WriteInv ==
    Writing =>
      /\ wBlock + Len(todo) = Len(chain[wId])
      /\ wBlock <= wItem.blocks
      /\ \A k \in 1 .. Len(todo) :
           todo[k] = chain[wId][wBlock + k]
      /\ \A k \in 1 .. wBlock :
           data[chain[wId][k]] = <<wItem, k>>
      /\ step # "write" => wBlock > 0

CutInv ==
    Cutting =>
      /\ \A k \in 1 .. Len(todo) :
           /\ todo[k] < lowest
           /\ freed[todo[k]] = IF k = 1 /\ step = "zero" THEN 1 ELSE 0
           /\ \A id \in Pages : \A l \in 1 .. Len(chain[id]) :
                chain[id][l] # todo[k]
      /\ \A j, k \in 1 .. Len(todo) :
           todo[j] = todo[k] => j = k
      /\ \A k \in 2 .. Len(todo) : prev[todo[k]] = todo[k - 1]
      /\ step = "free" /\ Len(todo) > 0 =>
           \A id \in Pages : \A l \in 1 .. Len(chain[id]) :
             prev[todo[1]] = chain[id][l] =>
               id = wId /\ l = Len(chain[id])
      /\ wId \in known =>
           /\ wItem.blocks <= Len(chain[wId])
           /\ Len(chain[wId]) <= wItem.blocks + 1
           /\ \A k \in 1 .. wItem.blocks :
                data[chain[wId][k]] = <<wItem, k>>

IInv == /\ TypeOK /\ ShapeInv /\ HeapInv /\ ChainInv /\ NextInv /\ PrevInv
        /\ CacheInv /\ SavedInv /\ FlushInv /\ WriteInv /\ CutInv

(* What a page below lowest is used for while no crash has lost it. *)
HasUse(p) ==
    \/ freed[p] > 0
    \/ \E id \in Pages : \E k \in 1 .. Len(chain[id]) : chain[id][k] = p
    \/ step = "free" /\ \E k \in 1 .. Len(todo) : todo[k] = p
    \/ step = "zero" /\ \E k \in 2 .. Len(todo) : todo[k] = p

LeakInv == crashes = 0 => \A p \in Pages : p < lowest => HasUse(p)
=============================================================================
