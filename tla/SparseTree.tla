----------------------------- MODULE SparseTree -----------------------------
(***************************************************************************)
(* The sparse tree of tree/src/sparse/, with keys of one dimension, as the *)
(* compressor's cache of boxes has them: many threads insert at once, the  *)
(* nodes hang in one root page, and get and the searches walk down by      *)
(* boxes they halve anew on the way.                                       *)
(*                                                                         *)
(* Nodes are named as in DenseTree; the page of a node, which is its own   *)
(* for good, goes by the node's name.  What a thread does under one page   *)
(* lock is one step.  Pages are what PageStore promises, and every one is  *)
(* written when the tree is dropped, so that flush changes nothing here;   *)
(* neither does all of condense but its first step: SingleTypeView leaves  *)
(* condense and truncate_unused to the trait, and what                     *)
(* remove_all_unused_leaves looks for is excluded by its own condition.    *)
(***************************************************************************)
EXTENDS Integers, FiniteSets

CONSTANTS Threads, Entries, NoEntry,
          Key,        \* the key of each entry
          RootBox,    \* root_bbox, as <<first, last>>
          MaxNode,    \* bound: the largest node id; such leaves never split
          Saturation, \* NODE_SATURATION_POINT
          MaxReopens  \* bound: how often the file is opened again

ASSUME SparseConstants ==
    /\ IsFiniteSet(Entries) /\ NoEntry \notin Entries
    /\ RootBox \in Nat \X Nat /\ RootBox[1] < RootBox[2]
    /\ Key \in [Entries -> RootBox[1] .. RootBox[2]]
    /\ MaxNode \in Nat \ {0} /\ MaxReopens \in Nat
    /\ Saturation \in Nat \ {0}

Nodes == 1 .. MaxNode
MayHaveHalves(n) == 2 * n < MaxNode

VARIABLES
    hasPage,    \* Node.page_id is filled
    children,   \* Inner.children of the node's page
    count,      \* Node.child_count
    split,      \* Node.left_right_split: "leaf", "splitting" or "split"
    box,        \* Node.bbox
    rootDirty,  \* the root's page is to be written when it is dropped
    savedRoot,  \* the root's page in the file
    expanding,  \* the nodes expand_to_depth has still to look at
    pc, at, entry, moving,  \* of each thread, as in DenseTree
    waiting,    \* the entries not yet given to a thread
    raced,      \* history: an entry was stored in a node split meanwhile
    rounded,    \* history: a box that cannot be halved was split by count
    touched,    \* history: the root is new or was expanded or condensed
    unsaved,    \* history: one changed that was not touched was not written
    reopens     \* history: how often the file was opened again

nodeVars == <<hasPage, children, count, split, box>>
rootVars == <<rootDirty, savedRoot, expanding>>
threadVars == <<pc, at, entry, moving>>
ghostVars == <<raced, rounded, touched, unsaved, reopens>>
vars == <<nodeVars, rootVars, threadVars, waiting, ghostVars>>

Middle(b) == (b[1] + b[2]) \div 2

Left(b) == <<b[1], Middle(b)>>
Right(b) == <<Middle(b), b[2]>>

Fits(e, b) == b[1] <= Key[e] /\ Key[e] <= b[2]

(* Fault: only a box of one key counts as one that cannot be halved. *)
AtLimitLate(b) == Left(b) = b /\ Right(b) = b

(* Halving the box changes nothing on one side. *)
AtLimit(b) == Left(b) = b \/ Right(b) = b

(* The boxes the file's reader gives the nodes, and get on its way down. *)
HalvedBox[n \in Nodes] ==
    IF n = 1 THEN RootBox
    ELSE IF n % 2 = 0 THEN Left(HalvedBox[n \div 2])
    ELSE Right(HalvedBox[n \div 2])

Nothing == [left |-> {}, right |-> {}]

(* The part of the nodes that is in the root's page. *)
RootNow == [hasPage |-> hasPage, count |-> count, split |-> split]

Init == /\ hasPage = [n \in Nodes |-> FALSE]
        /\ children = [n \in Nodes |-> {}]
        /\ count = [n \in Nodes |-> 0]
        /\ split = [n \in Nodes |-> "leaf"]
        /\ box = [n \in Nodes |-> RootBox]
        /\ rootDirty = TRUE
        /\ savedRoot = RootNow
        /\ expanding = {}
        /\ pc = [t \in Threads |-> "idle"]
        /\ at = [t \in Threads |-> 1]
        /\ entry = [t \in Threads |-> NoEntry]
        /\ moving = [t \in Threads |-> Nothing]
        /\ waiting = Entries
        /\ raced = FALSE /\ rounded = FALSE /\ unsaved = FALSE
        /\ touched = TRUE /\ reopens = 0

Goto(t, label) == pc' = [pc EXCEPT ![t] = label]

AllIdle == expanding = {} /\ \A t \in Threads : pc[t] = "idle"

-----------------------------------------------------------------------------
(* insert: the walk to a leaf. *)

Begin(t, e) ==
    /\ pc[t] = "idle" /\ e \in waiting /\ expanding = {}
    /\ waiting' = waiting \ {e}
    /\ entry' = [entry EXCEPT ![t] = e]
    /\ Goto(t, "walk")
    /\ UNCHANGED <<nodeVars, rootVars, at, moving, ghostVars>>

(* Fault: an entry on the line between the halves goes right. *)
SideRightFirst(n, e) == IF Fits(e, box[2 * n + 1]) THEN 2 * n + 1
                        ELSE IF Fits(e, box[2 * n]) THEN 2 * n
                        ELSE 0

(* The half whose box holds the entry, the left one first; 0 when none does. *)
Side(n, e) == IF Fits(e, box[2 * n]) THEN 2 * n
              ELSE IF Fits(e, box[2 * n + 1]) THEN 2 * n + 1
              ELSE 0

Walk(t) ==
    /\ pc[t] = "walk"
    /\ LET n == at[t]  half == Side(n, entry[t])
       IN \/ /\ split[n] = "split" /\ half # 0
             /\ at' = [at EXCEPT ![t] = half]
             /\ UNCHANGED pc
          \/ /\ split[n] = "split" /\ half = 0
             /\ Goto(t, "store")
             /\ UNCHANGED at
          \/ /\ split[n] # "split"
             /\ Goto(t, "try")
             /\ UNCHANGED at
    /\ UNCHANGED <<nodeVars, rootVars, entry, moving, waiting, ghostVars>>

IsFull(n) == count[n] >= Saturation /\ hasPage[n] /\ MayHaveHalves(n)

(* try_split_left_right: a node split meanwhile counts as one not full. *)
TrySplit(t) ==
    /\ pc[t] = "try"
    /\ Goto(t, IF split[at[t]] # "split" /\ IsFull(at[t]) THEN "split"
               ELSE "store")
    /\ UNCHANGED <<nodeVars, rootVars, at, entry, moving, waiting, ghostVars>>

-----------------------------------------------------------------------------
(* split_left_right_unchecked. *)

(* The first k of a set in key order; those of one key come in any order. *)
FirstOnes(s, k) == {f \in SUBSET s : /\ Cardinality(f) = k
                                     /\ \A e \in f, d \in s \ f : Key[e] <= Key[d]}

(* How the children of n may be shared out: by the boxes of the halves,    *)
(* the left one first, or, at the limit, a quarter of them left.  With     *)
(* keys that are points nothing stays at the node.                         *)
Shares(n) ==
    LET s == children[n]
        left == {e \in s : Fits(e, Left(box[n]))}
    IN IF AtLimit(box[n])
       THEN {[left |-> f, right |-> s \ f] :
                f \in FirstOnes(s, Cardinality(s) \div 4)}
       ELSE {[left |-> left, right |-> s \ left]}

(* The boxes of the halves: at the limit both get the parent's. *)
HalfBoxes(n) ==
    IF AtLimit(box[n])
    THEN [box EXCEPT ![2 * n] = box[n], ![2 * n + 1] = box[n]]
    ELSE [box EXCEPT ![2 * n] = Left(box[n]), ![2 * n + 1] = Right(box[n])]

(* new_with_children for both halves; one without entries gets no page. *)
MakeHalves(n, share) ==
    /\ hasPage' = [hasPage EXCEPT ![2 * n] = share.left # {},
                                  ![2 * n + 1] = share.right # {}]
    /\ split' = [split EXCEPT ![n] = "split"]
    /\ box' = HalfBoxes(n)

(* get_or_init of a filled cell; a cell being filled is waited for. *)
AlreadySplit(t) ==
    /\ pc[t] = "split" /\ split[at[t]] = "split"
    /\ Goto(t, "walk")
    /\ UNCHANGED <<nodeVars, rootVars, at, entry, moving, waiting, ghostVars>>

(* Fault: the count is left as it was. *)
EmptiedCountNot(n) == count

(* Fault: what is over the limit as the dense tree has it is subtracted. *)
EmptiedCountLess(n) == [count EXCEPT ![n] = @ - (Saturation + 1)]

(* child_count.store: no entry stays. *)
EmptiedCount(n) == [count EXCEPT ![n] = 0]

(* The cell is empty: with the page locked, the children are taken out. *)
TakeOut(t) ==
    /\ pc[t] = "split" /\ split[at[t]] = "leaf"
    /\ LET n == at[t]
       IN /\ \E share \in Shares(n) : moving' = [moving EXCEPT ![t] = share]
          /\ children' = [children EXCEPT ![n] = {}]
          /\ count' = EmptiedCount(n)
          /\ split' = [split EXCEPT ![n] = "splitting"]
          /\ rounded' = (rounded \/ AtLimit(box[n]))
    /\ Goto(t, "publish")
    /\ UNCHANGED <<hasPage, box, rootVars, at, entry, waiting, raced, touched,
                   unsaved, reopens>>

(* The lock is dropped, the halves are made, and get_or_init returns. *)
Publish(t) ==
    /\ pc[t] = "publish"
    /\ LET n == at[t]  share == moving[t]
       IN /\ MakeHalves(n, share)
          /\ children' = [children EXCEPT ![2 * n] = share.left,
                                          ![2 * n + 1] = share.right]
          /\ count' = [count EXCEPT ![2 * n] = Cardinality(share.left),
                                    ![2 * n + 1] = Cardinality(share.right)]
    /\ moving' = [moving EXCEPT ![t] = Nothing]
    /\ Goto(t, "walk")
    /\ UNCHANGED <<rootVars, at, entry, waiting, ghostVars>>

-----------------------------------------------------------------------------
(* The end of insert: page_id.get_or_init, child_count.fetch_add and push. *)
Store(t) ==
    /\ pc[t] = "store"
    /\ LET n == at[t]  e == entry[t]
       IN /\ hasPage' = [hasPage EXCEPT ![n] = TRUE]
          /\ children' = [children EXCEPT ![n] = @ \cup {e}]
          /\ count' = [count EXCEPT ![n] = @ + 1]
          /\ raced' = (raced \/ split[n] # "leaf")
    /\ Goto(t, "idle")
    /\ at' = [at EXCEPT ![t] = 1]
    /\ entry' = [entry EXCEPT ![t] = NoEntry]
    /\ UNCHANGED <<split, box, rootVars, moving, waiting, rounded, touched,
                   unsaved, reopens>>

-----------------------------------------------------------------------------
(* What takes the tree for itself: no insert is under way. *)

(* expand_to_depth, as Compressor::new calls it: deeper than the tree. *)
Expand ==
    /\ AllIdle
    /\ expanding' = {1}
    /\ rootDirty' = TRUE /\ touched' = TRUE
    /\ UNCHANGED <<nodeVars, savedRoot, threadVars, waiting, raced, rounded,
                   unsaved, reopens>>

(* One node of expand_to_depth that is no full leaf. *)
ExpandPast(n) ==
    /\ n \in expanding
    /\ split[n] # "leaf" \/ ~IsFull(n)
    /\ expanding' = (expanding \ {n})
                    \cup (IF split[n] = "split" THEN {2 * n, 2 * n + 1} ELSE {})
    /\ UNCHANGED <<nodeVars, rootDirty, savedRoot, threadVars, waiting,
                   ghostVars>>

(* One that is. *)
ExpandSplit(n) ==
    /\ n \in expanding /\ split[n] = "leaf" /\ IsFull(n)
    /\ \E share \in Shares(n) :
         /\ MakeHalves(n, share)
         /\ children' = [children EXCEPT ![n] = {}, ![2 * n] = share.left,
                                         ![2 * n + 1] = share.right]
         /\ count' = [EmptiedCount(n) EXCEPT
                        ![2 * n] = Cardinality(share.left),
                        ![2 * n + 1] = Cardinality(share.right)]
    /\ rounded' = (rounded \/ AtLimit(box[n]))
    /\ expanding' = (expanding \ {n}) \cup {2 * n, 2 * n + 1}
    /\ UNCHANGED <<rootDirty, savedRoot, threadVars, waiting, raced, touched,
                   unsaved, reopens>>

(* free_all_empty, the step of condense that does something. *)
Condense ==
    /\ AllIdle
    /\ hasPage' = [n \in Nodes |-> hasPage[n] /\ children[n] # {}]
    /\ rootDirty' = TRUE /\ touched' = TRUE
    /\ UNCHANGED <<children, count, split, box, savedRoot, expanding, threadVars,
                   waiting, raced, rounded, unsaved, reopens>>

(* A page read back has the entries it was written with; one the root does *)
(* not lead to is out of reach.                                            *)
Reread(n, root) == IF root.hasPage[n] THEN children[n] ELSE {}

(* The tree is dropped and opened again: the root's page is written only   *)
(* if it is dirty, and what is opened is what the file has.                *)
Reopen ==
    /\ reopens < MaxReopens /\ AllIdle
    /\ LET root == IF rootDirty THEN RootNow ELSE savedRoot
       IN /\ savedRoot' = root
          /\ hasPage' = root.hasPage
          /\ count' = root.count
          /\ split' = root.split
          /\ children' = [n \in Nodes |-> Reread(n, root)]
          /\ unsaved' = (unsaved \/ (~touched /\ root # RootNow))
    /\ box' = HalvedBox
    /\ rootDirty' = FALSE /\ touched' = FALSE
    /\ reopens' = reopens + 1
    /\ UNCHANGED <<expanding, threadVars, waiting, raced, rounded>>

-----------------------------------------------------------------------------
Step(t) == Walk(t) \/ TrySplit(t) \/ AlreadySplit(t) \/ TakeOut(t)
           \/ Publish(t) \/ Store(t)

Next == \/ \E t \in Threads : Step(t)
        \/ \E t \in Threads, e \in Entries : Begin(t, e)
        \/ \E n \in Nodes : ExpandPast(n) \/ ExpandSplit(n)
        \/ Expand \/ Condense \/ Reopen

Spec == Init /\ [][Next]_vars

-----------------------------------------------------------------------------
TypeOK ==
    /\ hasPage \in [Nodes -> BOOLEAN]
    /\ children \in [Nodes -> SUBSET Entries]
    /\ count \in [Nodes -> Nat]
    /\ split \in [Nodes -> {"leaf", "splitting", "split"}]
    /\ box \in [Nodes -> Nat \X Nat]
    /\ rootDirty \in BOOLEAN
    /\ savedRoot \in [hasPage : [Nodes -> BOOLEAN], count : [Nodes -> Nat],
                      split : [Nodes -> {"leaf", "splitting", "split"}]]
    /\ expanding \subseteq Nodes
    /\ pc \in [Threads -> {"idle", "walk", "try", "split", "publish", "store"}]
    /\ at \in [Threads -> Nodes]
    /\ entry \in [Threads -> Entries \cup {NoEntry}]
    /\ moving \in [Threads -> [left : SUBSET Entries, right : SUBSET Entries]]
    /\ waiting \subseteq Entries
    /\ {raced, rounded, touched, unsaved} \subseteq BOOLEAN
    /\ reopens \in 0 .. MaxReopens

(* The entries a reader finds at a node: all those the page's iterator has *)
(* lie in the box of a search for everything.                              *)
At(n) == IF hasPage[n] THEN children[n] ELSE {}

Inserted == Entries \ (waiting \cup {entry[t] : t \in Threads})

(* The entries a split has taken out and not yet given to the halves. *)
InSplit == UNION {moving[t].left \cup moving[t].right : t \in Threads}

(* search_all_nodes_touching_area works out the boxes on its way; at the   *)
(* limit both halves go on with the parent's.                              *)
SearchBox[n \in Nodes] ==
    IF n = 1 THEN RootBox
    ELSE LET b == SearchBox[n \div 2]
         IN IF AtLimit(b) THEN b ELSE IF n % 2 = 0 THEN Left(b) ELSE Right(b)

(* overlaps, with a query for everything: a box of one key is left out. *)
TouchesAll(b) == b[1] < b[2]

(* The nodes a search for everything comes to. *)
Visited[n \in Nodes] ==
    n = 1 \/ /\ Visited[n \div 2]
             /\ split[n \div 2] = "split"
             /\ TouchesAll(SearchBox[n])

(* The node search_leaf_for_key ends in. *)
LeafFor(k) ==
    LET down[n \in Nodes] == IF split[n] # "split" THEN n
                             ELSE IF k <= Middle(HalvedBox[n]) THEN down[2 * n]
                             ELSE down[2 * n + 1]
    IN down[1]

(* get_owned finds a value of the entry's key. *)
FoundByGet(e) == \E d \in At(LeafFor(Key[e])) : Key[d] = Key[e]

(* A search for everything finds each entry whose insert has returned,     *)
(* once: no race of inserts with splits, no split by count and no freed    *)
(* page loses or doubles one, and after opening the file again the root    *)
(* leads to every page, unless one read from the file was changed without  *)
(* expand_to_depth or condense: insert does not mark it as changed.        *)
SearchFindsOnce ==
    ~unsaved => \A e \in Inserted \ InSplit :
                  Cardinality({n \in Nodes : Visited[n] /\ e \in At(n)}) = 1

(* get finds every key, unless an entry was stored in a node that was      *)
(* split meanwhile, or a box was split by count.                           *)
GetFinds ==
    ~unsaved /\ ~raced /\ ~rounded =>
      \A e \in Inserted \ InSplit : FoundByGet(e)

(* The count that decides on a split is the page's length, whichever way   *)
(* inserts and splits of one node are interleaved, also after opening.     *)
CountsMatch == ~unsaved => \A n \in Nodes : count[n] = Cardinality(At(n))
=============================================================================
