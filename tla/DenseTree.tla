----------------------------- MODULE DenseTree -----------------------------
(***************************************************************************)
(* The dense tree of tree/src/dense/: many threads insert entries at once, *)
(* each walking down to a leaf, splitting it when it is full and storing   *)
(* its entry in the leaf's page.  Between two rounds of inserts one thread *)
(* flushes the tree; the files may then be opened again.                   *)
(*                                                                         *)
(* Nodes are named by the code's own ids: the halves of n are 2n and 2n+1. *)
(* A page is what PageStore promises, an item that changes only when it is *)
(* written; pages leave memory in Flush only.  Page ids are not reused: an *)
(* emptied page still writes its length, so that allow_free never frees it.*)
(*                                                                         *)
(* A lock taken and given back within one step is not part of the state.   *)
(***************************************************************************)
EXTENDS Integers, FiniteSets

CONSTANTS Threads, Nobody,
          Entries,     \* keys with their values; numbers, in key order
          NoEntry,
          MaxNode,     \* bound: the largest node id; such leaves never split
          Within,      \* Within[n]: the entries whose box lies in the box of n
          Saturation,  \* NODE_SATURATION_POINT
          MaxPages,    \* bound: the number of pages
          MaxReopens   \* bound: how often the files are opened again

ASSUME DenseConstants ==
    /\ IsFiniteSet(Threads) /\ Nobody \notin Threads
    /\ Entries \subseteq Nat /\ IsFiniteSet(Entries) /\ NoEntry \notin Entries
    /\ MaxNode \in Nat \ {0} /\ MaxPages \in Nat /\ MaxReopens \in Nat
    /\ Saturation \in Nat
    /\ Within \in [1 .. MaxNode -> SUBSET Entries] /\ Within[1] = Entries
    /\ \A n \in 1 .. MaxNode : 2 * n < MaxNode =>
         Within[2 * n] \cup Within[2 * n + 1] \subseteq Within[n]

Nodes == 1 .. MaxNode
PageIds == 1 .. MaxPages
NoPage == 0

VARIABLES
    pageId,      \* Node.page_id of each node, NoPage for None
    count,       \* Node.children_count
    split,       \* Node.left_right_split: "leaf", "splitting" or "split"
    reading,     \* the threads that hold a read lock on Node.page_id
    children,    \* Inner.children of each page
    holder,      \* the thread that has the page's item locked
    pages,       \* how many pages were created
    pagesDirty,  \* the pages changed since they were last written
    structureDirty,
    fileNodes,   \* the structure file
    filePages,   \* the data file
    pc,          \* what each thread does next
    at,          \* the node it is at: `tree`, then `leaf`
    entry,       \* the entry it inserts
    page,        \* the page it got from the storage
    moving,      \* left_children and right_children of its split
    waiting,     \* the entries not yet given to a thread
    overwrote,   \* history: an insert replaced a page by its new page
    reopens,     \* history: how often the files were opened again
    stale        \* history: it was with an older structure file

nodeVars == <<pageId, count, split, reading>>
pageVars == <<children, holder, pages, pagesDirty>>
fileVars == <<structureDirty, fileNodes, filePages>>
threadVars == <<pc, at, entry, page, moving>>
ghostVars == <<overwrote, reopens, stale>>

vars == <<nodeVars, pageVars, fileVars, threadVars, waiting, ghostVars>>

Labels == {"idle", "descend", "len", "split", "lock", "part", "giveBack",
           "publish", "store", "push", "new"}

Init == /\ pageId = [n \in Nodes |-> NoPage]
        /\ count = [n \in Nodes |-> 0]
        /\ split = [n \in Nodes |-> "leaf"]
        /\ reading = [n \in Nodes |-> {}]
        /\ children = [p \in PageIds |-> {}]
        /\ holder = [p \in PageIds |-> Nobody]
        /\ pages = 0 /\ pagesDirty = {}
        /\ structureDirty = TRUE
        /\ fileNodes = [n \in Nodes |-> [pageId |-> NoPage, count |-> 0,
                                         split |-> "leaf"]]
        /\ filePages = [p \in PageIds |-> {}]
        /\ pc = [t \in Threads |-> "idle"]
        /\ at = [t \in Threads |-> 1]
        /\ entry = [t \in Threads |-> NoEntry]
        /\ page = [t \in Threads |-> NoPage]
        /\ moving = [t \in Threads |-> [left |-> {}, right |-> {}]]
        /\ waiting = Entries
        /\ overwrote = FALSE /\ reopens = 0 /\ stale = FALSE

Goto(t, label) == pc' = [pc EXCEPT ![t] = label]

(* The insert returns. *)
Return(t) == /\ Goto(t, "idle")
             /\ entry' = [entry EXCEPT ![t] = NoEntry]
             /\ at' = [at EXCEPT ![t] = 1]
             /\ page' = [page EXCEPT ![t] = NoPage]

-----------------------------------------------------------------------------
(* get_key_leaf_splitting_if_needed. *)

Begin(t, e) ==
    /\ pc[t] = "idle" /\ e \in waiting
    /\ waiting' = waiting \ {e}
    /\ entry' = [entry EXCEPT ![t] = e]
    /\ Goto(t, "descend")
    /\ UNCHANGED <<nodeVars, pageVars, fileVars, at, page, moving, ghostVars>>

(* Fault: a key that fits in neither half is sent round the loop again. *)
SideOrStay(n, e) == IF e \in Within[2 * n] THEN 2 * n
                    ELSE IF e \in Within[2 * n + 1] THEN 2 * n + 1
                    ELSE n

(* Which half of a split node a key belongs to; 0 when it fits in neither. *)
Side(n, e) == IF e \in Within[2 * n] THEN 2 * n
              ELSE IF e \in Within[2 * n + 1] THEN 2 * n + 1
              ELSE 0

(* Fault: an entry that fits in neither half is sent down all the same. *)
DescendAnyway(t) ==
    /\ pc[t] = "descend"
    /\ LET n == at[t]
       IN IF split[n] = "split"
          THEN at' = [at EXCEPT ![t] = Side(n, entry[t])] /\ UNCHANGED pc
          ELSE Goto(t, "len") /\ UNCHANGED at
    /\ UNCHANGED <<nodeVars, pageVars, fileVars, entry, page, moving, waiting,
                   ghostVars>>

(* One turn of the loop: go down, stay at an inner node, or try to split.  *)
Descend(t) ==
    /\ pc[t] = "descend"
    /\ LET n == at[t]  half == Side(n, entry[t])
       IN \/ /\ split[n] = "split" /\ half # 0
             /\ at' = [at EXCEPT ![t] = half]
             /\ UNCHANGED pc
          \/ /\ split[n] = "split" /\ half = 0
             /\ Goto(t, "store")
             /\ UNCHANGED at
          \/ /\ split[n] # "split"
             /\ Goto(t, "len")
             /\ UNCHANGED at
    /\ UNCHANGED <<nodeVars, pageVars, fileVars, entry, page, moving, waiting,
                   ghostVars>>

(* Fault: a leaf is split only when it is one over the limit already. *)
IsFullLate(n) == pageId[n] # NoPage /\ count[n] > Saturation + 1

(* get_maybe_initial: the count of a node without a page is taken as 0. *)
IsFull(n) == pageId[n] # NoPage /\ count[n] > Saturation

(* try_split_left_right, up to the decision.  A node that was split in the *)
(* meantime gives the same answer as one that is not full.                 *)
TrySplit(t) ==
    /\ pc[t] = "len"
    /\ LET n == at[t]
       IN Goto(t, IF split[n] # "split" /\ IsFull(n) /\ 2 * n < MaxNode
                  THEN "split" ELSE "store")
    /\ UNCHANGED <<nodeVars, pageVars, fileVars, at, entry, page, moving,
                   waiting, ghostVars>>

-----------------------------------------------------------------------------
(* split_left_right_unchecked. *)

(* get_or_init of a cell that is filled: another thread has split the node. *)
AlreadySplit(t) ==
    /\ pc[t] = "split" /\ split[at[t]] = "split"
    /\ Goto(t, "descend")
    /\ UNCHANGED <<nodeVars, pageVars, fileVars, at, entry, page, moving,
                   waiting, ghostVars>>

(* This thread fills the cell; it takes a read lock on page_id, and a node *)
(* without a page gets two empty halves.                                   *)
BeginSplit(t) ==
    /\ pc[t] = "split"
    /\ LET n == at[t]
           bare == pageId[n] = NoPage
       IN /\ split[n] = "leaf"
          /\ split' = [split EXCEPT ![n] = IF bare THEN "split" ELSE "splitting"]
          /\ reading' = IF bare THEN reading
                        ELSE [reading EXCEPT ![n] = @ \cup {t}]
          /\ page' = [page EXCEPT ![t] = pageId[n]]
          /\ Goto(t, IF bare THEN "descend" ELSE "lock")
    /\ UNCHANGED <<pageId, count, pageVars, fileVars, at, entry, moving, waiting,
                   ghostVars>>

(* page.write(), then page_id_lock is dropped. *)
LockPage(t) ==
    /\ pc[t] = "lock" /\ holder[page[t]] = Nobody
    /\ holder' = [holder EXCEPT ![page[t]] = t]
    /\ reading' = [reading EXCEPT ![at[t]] = @ \ {t}]
    /\ Goto(t, "part")
    /\ UNCHANGED <<pageId, count, split, children, pages, pagesDirty, fileVars,
                   at, entry, page, moving, waiting, ghostVars>>

(* Where the children of n go: a half takes what lies in its box, the left *)
(* one first, and what lies in neither stays.  Before it, its faults: what *)
(* lies in neither is moved right; what lies on the line goes to both      *)
(* halves; it goes to the right one.                                       *)
ShareAll(n, s) == LET left == s \cap Within[2 * n]
                  IN [left |-> left, right |-> s \ left, stay |-> {}]

ShareBoth(n, s) == [left |-> s \cap Within[2 * n],
                    right |-> s \cap Within[2 * n + 1],
                    stay |-> s \ (Within[2 * n] \cup Within[2 * n + 1])]

ShareRightFirst(n, s) == LET right == s \cap Within[2 * n + 1]
                         IN [left |-> (s \cap Within[2 * n]) \ right,
                             right |-> right,
                             stay |-> s \ (Within[2 * n] \cup right)]

Share(n, s) == LET left == s \cap Within[2 * n]
               IN [left |-> left,
                   right |-> (s \cap Within[2 * n + 1]) \ left,
                   stay |-> s \ (left \cup Within[2 * n + 1])]

(* Fault: the count of the node is left as it was. *)
RecountNot(n, s) == count

(* children_count.set *)
Recount(n, s) == [count EXCEPT ![n] = Cardinality(s)]

(* The children are taken out of the page and shared out. *)
Partition(t) ==
    /\ pc[t] = "part"
    /\ LET p == page[t]
           share == Share(at[t], children[p])
       IN /\ moving' = [moving EXCEPT ![t] = [left |-> share.left,
                                              right |-> share.right]]
          /\ children' = [children EXCEPT ![p] = share.stay]
          /\ count' = Recount(at[t], share.stay)
          /\ pagesDirty' = pagesDirty \cup {p}
          /\ Goto(t, IF share.stay = {} THEN "giveBack" ELSE "publish")
    /\ UNCHANGED <<pageId, split, reading, holder, pages, fileVars, at, entry,
                   page, waiting, ghostVars>>

(* Fault: the id is taken away whoever is using it. *)
MayGiveBackAlways(n) == TRUE

MayGiveBack(n) == reading[n] = {}

(* page_id.try_write(): the emptied page is given up unless somebody has a *)
(* lock on page_id.                                                        *)
GiveBack(t) ==
    /\ pc[t] = "giveBack"
    /\ pageId' = IF MayGiveBack(at[t]) THEN [pageId EXCEPT ![at[t]] = NoPage]
                 ELSE pageId
    /\ Goto(t, "publish")
    /\ UNCHANGED <<count, split, reading, pageVars, fileVars, at, entry, page,
                   moving, waiting, ghostVars>>

(* new_with_children: a half without entries gets no page. *)
HalfPage(entries, p) == IF entries = {} THEN NoPage ELSE p

(* `inner` is dropped, the halves are made, and get_or_init returns. *)
Publish(t) ==
    /\ pc[t] = "publish"
    /\ LET n == at[t]
           left == moving[t].left
           right == moving[t].right
           l == HalfPage(left, pages + 1)
           r == HalfPage(right, IF left = {} THEN pages + 1 ELSE pages + 2)
           new == {l, r} \ {NoPage}
       IN /\ new \subseteq PageIds
          /\ pageId' = [pageId EXCEPT ![2 * n] = l, ![2 * n + 1] = r]
          /\ count' = [count EXCEPT ![2 * n] = Cardinality(left),
                                    ![2 * n + 1] = Cardinality(right)]
          /\ children' = [p \in PageIds |-> IF p = l THEN left
                                            ELSE IF p = r THEN right
                                            ELSE children[p]]
          /\ pages' = pages + Cardinality(new)
          /\ pagesDirty' = pagesDirty \cup new
          /\ split' = [split EXCEPT ![n] = "split"]
    /\ holder' = [holder EXCEPT ![page[t]] = Nobody]
    /\ moving' = [moving EXCEPT ![t] = [left |-> {}, right |-> {}]]
    /\ page' = [page EXCEPT ![t] = NoPage]
    /\ Goto(t, "descend")
    /\ UNCHANGED <<reading, fileVars, at, entry, waiting, ghostVars>>

-----------------------------------------------------------------------------
(* insert_to_existing_page and insert_to_new_page. *)

(* The read lock on page_id is kept until the entry is stored. *)
Store(t) ==
    /\ pc[t] = "store"
    /\ LET n == at[t]
       IN \/ /\ pageId[n] = NoPage
             /\ Goto(t, "new")
             /\ UNCHANGED <<reading, page>>
          \/ /\ pageId[n] # NoPage
             /\ reading' = [reading EXCEPT ![n] = @ \cup {t}]
             /\ page' = [page EXCEPT ![t] = pageId[n]]
             /\ Goto(t, "push")
    /\ UNCHANGED <<pageId, count, split, pageVars, fileVars, at, entry, moving,
                   waiting, ghostVars>>

(* children_count.increment *)
Increment(n) == [count EXCEPT ![n] = @ + 1]

(* page.write(), with the read lock of Store given back at the end. *)
Push(t) ==
    /\ pc[t] = "push" /\ holder[page[t]] = Nobody
    /\ LET n == at[t]  p == page[t]
       IN /\ count' = Increment(n)
          /\ children' = [children EXCEPT ![p] = @ \cup {entry[t]}]
          /\ pagesDirty' = pagesDirty \cup {p}
          /\ reading' = [reading EXCEPT ![n] = @ \ {t}]
    /\ Return(t)
    /\ UNCHANGED <<pageId, split, holder, pages, fileVars, moving, waiting,
                   ghostVars>>

(* page_id.write(); what the assertion on line 199 excludes is noted. *)
PushToNewPage(t) ==
    /\ pc[t] = "new"
    /\ LET n == at[t]  p == pages + 1
       IN /\ p \in PageIds
          /\ reading[n] = {}
          /\ overwrote' = (overwrote \/ pageId[n] # NoPage)
          /\ pageId' = [pageId EXCEPT ![n] = p]
          /\ count' = [count EXCEPT ![n] = 1]
          /\ children' = [children EXCEPT ![p] = {entry[t]}]
          /\ pages' = p
          /\ pagesDirty' = pagesDirty \cup {p}
    /\ structureDirty' = TRUE
    /\ Return(t)
    /\ UNCHANGED <<split, reading, holder, fileNodes, filePages, moving, waiting,
                   reopens, stale>>

-----------------------------------------------------------------------------
(* The files. *)

(* The part of a node that is in the structure file. *)
NodesNow == [n \in Nodes |->
    [pageId |-> pageId[n],
     count |-> IF pageId[n] = NoPage THEN 0 ELSE count[n],
     split |-> split[n]]]

AllIdle == \A t \in Threads : pc[t] = "idle"

(* evict_all_possible drops every page, and a dirty one is written. *)
WrittenBack(p) == IF p \in pagesDirty THEN children[p] ELSE filePages[p]

(* flush takes the tree for itself: no insert is under way. *)
Flush ==
    /\ AllIdle
    /\ structureDirty' = FALSE
    /\ fileNodes' = IF structureDirty THEN NodesNow ELSE fileNodes
    /\ filePages' = [p \in PageIds |-> WrittenBack(p)]
    /\ pagesDirty' = {}
    /\ UNCHANGED <<nodeVars, children, holder, pages, threadVars, waiting,
                   ghostVars>>

(* Fault: one entry too few. *)
FirstOfLess(s, k) == {e \in s : Cardinality({f \in s : f < e}) < k - 1}

(* The k first of a set of entries in key order. *)
FirstOf(s, k) == {e \in s : Cardinality({f \in s : f < e}) < k}

(* How many entries a page of the file is read for: the node's count. *)
ReadCount(p) == LET owners == {n \in Nodes : fileNodes[n].pageId = p}
                IN IF owners = {} THEN 0
                   ELSE fileNodes[CHOOSE n \in owners : TRUE].count

(* The program ends after a flush and the tree is opened again.  A page is *)
(* read for as many entries as the structure file says; when that is more  *)
(* than it has the reader fails or makes entries up, which is not followed.*)
Reopen ==
    /\ reopens < MaxReopens
    /\ AllIdle /\ pagesDirty = {}
    /\ \A p \in PageIds : ReadCount(p) <= Cardinality(filePages[p])
    /\ reopens' = reopens + 1
    /\ stale' = (stale \/ fileNodes # NodesNow)
    /\ pageId' = [n \in Nodes |-> fileNodes[n].pageId]
    /\ count' = [n \in Nodes |-> fileNodes[n].count]
    /\ split' = [n \in Nodes |-> fileNodes[n].split]
    /\ children' = [p \in PageIds |-> FirstOf(filePages[p], ReadCount(p))]
    /\ structureDirty' = TRUE
    /\ UNCHANGED <<reading, holder, pages, pagesDirty, fileNodes, filePages,
                   threadVars, waiting, overwrote>>

-----------------------------------------------------------------------------
Split(t) == AlreadySplit(t) \/ BeginSplit(t) \/ LockPage(t) \/ Partition(t)
            \/ GiveBack(t) \/ Publish(t)

(* What a thread does in an insert it has begun. *)
Step(t) == Descend(t) \/ TrySplit(t) \/ Split(t)
           \/ Store(t) \/ Push(t) \/ PushToNewPage(t)

Next == \/ \E t \in Threads : Step(t)
        \/ \E t \in Threads, e \in Entries : Begin(t, e)
        \/ Flush \/ Reopen

Spec == Init /\ [][Next]_vars

(* A thread that can go on is not held up for ever. *)
FairSpec == Spec /\ \A t \in Threads : WF_vars(Step(t))

-----------------------------------------------------------------------------
TypeOK ==
    /\ pageId \in [Nodes -> PageIds \cup {NoPage}]
    /\ count \in [Nodes -> Nat]
    /\ split \in [Nodes -> {"leaf", "splitting", "split"}]
    /\ reading \in [Nodes -> SUBSET Threads]
    /\ children \in [PageIds -> SUBSET Entries]
    /\ holder \in [PageIds -> Threads \cup {Nobody}]
    /\ pages \in 0 .. MaxPages
    /\ pagesDirty \subseteq PageIds
    /\ structureDirty \in BOOLEAN
    /\ fileNodes \in [Nodes -> [pageId : PageIds \cup {NoPage}, count : Nat,
                                split : {"leaf", "splitting", "split"}]]
    /\ filePages \in [PageIds -> SUBSET Entries]
    /\ pc \in [Threads -> Labels]
    /\ at \in [Threads -> Nodes]
    /\ entry \in [Threads -> Entries \cup {NoEntry}]
    /\ page \in [Threads -> PageIds \cup {NoPage}]
    /\ moving \in [Threads -> [left : SUBSET Entries, right : SUBSET Entries]]
    /\ waiting \subseteq Entries
    /\ overwrote \in BOOLEAN /\ stale \in BOOLEAN
    /\ reopens \in 0 .. MaxReopens

(* The entries stored at a node. *)
At(n) == IF pageId[n] = NoPage THEN {} ELSE children[pageId[n]]

Held(t) == {entry[t]} \cup moving[t].left \cup moving[t].right

(* The entries whose insert has returned. *)
Inserted == Entries \ (waiting \cup {entry[t] : t \in Threads})

(* The nodes a search can come to: the halves of a split node. *)
Reachable(n) == n = 1 \/ split[n \div 2] = "split"

(* The node search_leaf_for_key ends in. *)
LeafFor(e) ==
    LET down[n \in Nodes] == IF split[n] = "split" /\ Side(n, e) # 0
                             THEN down[Side(n, e)] ELSE n
    IN down[1]

(* find_entries_in_box, asked for the box of e, comes to every reachable   *)
(* node whose box overlaps it.                                             *)
FoundBySearch(e) == \E n \in Nodes : Reachable(n) /\ e \in Within[n] /\ e \in At(n)

FoundByGet(e) == e \in At(LeafFor(e))

(* An entry is in one place: waiting, in the hands of one thread, or in    *)
(* one page.  A split neither copies an entry nor gives it to both halves, *)
(* whatever other threads store meanwhile.                                 *)
OnlyOnce ==
    /\ \A p, q \in 1 .. pages : p # q => children[p] \cap children[q] = {}
    /\ \A t \in Threads, p \in PageIds : Held(t) \cap children[p] = {}
    /\ \A t \in Threads : moving[t].left \cap moving[t].right = {}
    /\ \A t, u \in Threads :
         t # u => Held(t) \cap Held(u) \subseteq {NoEntry}

(* A page belongs to one node, and its entries lie in that node's box, the *)
(* box their deltas are relative to (lines 104-117 and 567-576).           *)
InItsBox ==
    /\ \A m, n \in Nodes : m # n /\ pageId[m] # NoPage => pageId[m] # pageId[n]
    /\ \A n \in Nodes : At(n) \subseteq Within[n]

(* Unless a page was replaced (NewPageWhereNone) or an old structure file  *)
(* was read, a search finds every entry whose insert has returned, but for *)
(* the time a split has it in its hands.                                   *)
NoneLost ==
    ~overwrote /\ ~stale =>
      \A e \in Inserted : FoundBySearch(e) \/ \E t \in Threads : e \in Held(t)

(* The count kept outside of the page is the page's length, whenever the   *)
(* page is not locked (lines 108-111, 143-146).                            *)
CountsMatch ==
    ~overwrote /\ ~stale =>
      \A n \in Nodes : pageId[n] # NoPage /\ holder[pageId[n]] = Nobody =>
        count[n] = Cardinality(At(n))

(* The comment in try_split_left_right says that reading a count that is   *)
(* out of date does no harm.  A leaf never holds more entries than the     *)
(* limit and one for each thread.                                          *)
LeafBound ==
    ~overwrote =>
      \A n \in Nodes : split[n] = "leaf" /\ 2 * n < MaxNode =>
        Cardinality(At(n)) <= Saturation + Cardinality(Threads)

(* The assertion in insert_to_new_page, tree.rs:199. *)
NewPageWhereNone == ~overwrote

(* search_leaf_for_key, tree.rs:379-382: a key stored anywhere in the tree *)
(* is in the node it returns.                                              *)
GetFindsStored == \A e \in Inserted : FoundBySearch(e) => FoundByGet(e)

(* The assertion in Inner::deserialize_minimal, tree_serde.rs:87, for the  *)
(* files as a flush leaves them.                                           *)
ChildLenAgrees ==
    AllIdle /\ pagesDirty = {} =>
      \A n \in Nodes : fileNodes[n].pageId # NoPage =>
        fileNodes[n].count = Cardinality(filePages[fileNodes[n].pageId])

(* Every insert ends: no lock or cell is waited for in a circle, and the   *)
(* walk down a tree that other threads split comes to an end.              *)
InsertsEnd == \A t \in Threads : pc[t] # "idle" ~> pc[t] = "idle"
=============================================================================
