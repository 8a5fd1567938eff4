------------------------------ MODULE BTreeVec ------------------------------
(***************************************************************************)
(* The vector-backed search tree of btree_vec/: the children of every page *)
(* of the two trees.  A list has a sequence of places, each a range of keys *)
(* and what lies in it: a leaf, with the values of one key, or another     *)
(* list.  A tree is the sequence of its lists, the root first and each of  *)
(* the others where it was made, so that a place names the list in it.     *)
(* The one actor pushes, walks over the tree with stateless_next, and      *)
(* takes it apart and builds it anew, which is what a split and a page     *)
(* that is read do.  Values are numbered as they come; indexes start at    *)
(* one.                                                                    *)
(***************************************************************************)
EXTENDS Integers, SequencesExt

CONSTANTS Keys,      \* the keys, a set of integers
          MaxInsert, \* MAX_ITEMS_FOR_INSERT
          MaxPushes, \* bound: values pushed
          MaxRebuilds \* bound: how often the tree is built anew

ASSUME BTreeVecConstants ==
    Keys \subseteq Int /\ {MaxInsert, MaxPushes, MaxRebuilds} \subseteq Nat

VARIABLES itms,     \* BTreeVec.itms: the lists of the tree
          len,      \* BTreeVec.len
          got,      \* history: what get finds for each key, now
          state,    \* the indexes of an iteration, none before and after one
          seen,     \* history: what it yielded, unless the tree changed
          changed,  \* history: the tree was changed since it began
          rebuilds  \* history: how often the tree was built anew

treeVars == <<itms, len, got>>
vars == <<treeVars, state, seen, changed, rebuilds>>

EmptyTree == << <<>> >>

Leaf(key, vs) == [min |-> key, max |-> key, leaf |-> vs, list |-> 0]

ChildList(min, max, l) == [min |-> min, max |-> max, leaf |-> <<>>, list |-> l]

IsLeaf(place) == place.list = 0

(***************************************************************************)
(* Finding a key: the index of the range it lies in, or else that of the   *)
(* first range above it.  Lists with many keys are searched by halves, as  *)
(* the standard library does: until one range is left.                     *)
(***************************************************************************)
At(i) == [ok |-> TRUE, at |-> i]
Missing(i) == [ok |-> FALSE, at |-> i]

LinearSearch(places, key) ==
    LET i == SelectInSeq(places, LAMBDA p : key <= p.max)
    IN  IF i = 0 THEN Missing(Len(places) + 1)
        ELSE IF key < places[i].min THEN Missing(i) ELSE At(i)

\* What is left to search after n halvings: size ranges, from base on.
Halves(places, key) ==
    LET half[n \in 0 .. Len(places)] ==
            IF n = 0 THEN [base |-> 1, size |-> Len(places)]
            ELSE LET was == half[n - 1]
                     mid == was.base + was.size \div 2
                 IN  [base |-> IF key < places[mid].min THEN was.base ELSE mid,
                      size |-> was.size - was.size \div 2]
    IN  half

BinarySearch(places, key) ==
    LET i == Halves(places, key)[Len(places)].base
    IN  IF key < places[i].min THEN Missing(i)
        ELSE IF key <= places[i].max THEN At(i) ELSE Missing(i + 1)

Search(places, key) == IF Len(places) > MaxInsert * 2
                       THEN BinarySearch(places, key) ELSE LinearSearch(places, key)

-----------------------------------------------------------------------------

\* Fault: the list gets the range of the leaf it takes the place of.
LeafToListUnstretched(tree, l, i, key, v) ==
    LET old == tree[l][i]
    IN  Append([tree EXCEPT ![l][i] = ChildList(old.min, old.max, Len(tree) + 1)],
               IF key > old.min THEN <<old, Leaf(key, <<v>>)>>
                                ELSE <<Leaf(key, <<v>>), old>>)

\* The leaf at i of a full list makes room for a key below it.
MakeLeafToList(tree, l, i, key, v) ==
    LET old == Leaf(tree[l][i].min, tree[l][i].leaf)
        new == Leaf(key, <<v>>)
        both == IF key > old.min THEN <<old, new>> ELSE <<new, old>>
    IN  Append([tree EXCEPT ![l][i] = ChildList(both[1].min, both[2].min, Len(tree) + 1)],
               both)

\* The tree after push is called on the list l.
PushFrom(tree, key, v) ==
    LET push[l \in DOMAIN tree] ==
            LET places == tree[l]
                found == Search(places, key)
                i == found.at
                insert(at) == [tree EXCEPT ![l] = InsertAt(@, at, Leaf(key, <<v>>))]
            IN  IF places = <<>> \/ key > Last(places).max
                THEN insert(Len(places) + 1)
                ELSE IF found.ok
                THEN IF IsLeaf(places[i])
                     THEN [tree EXCEPT ![l][i].leaf = Append(@, v)]
                     ELSE push[places[i].list]
                ELSE IF Len(places) < MaxInsert THEN insert(i)
                ELSE IF IsLeaf(places[i]) THEN MakeLeafToList(tree, l, i, key, v)
                ELSE [push[places[i].list] EXCEPT
                         ![l][i].min = IF key < @ THEN key ELSE @]
    IN  push

PushInto(tree, key, v) == PushFrom(tree, key, v)[1]

\* What get finds when it is called on the list l.
GetFrom(tree, key) ==
    LET get[l \in DOMAIN tree] ==
            LET found == Search(tree[l], key)
                place == tree[l][found.at]
            IN  IF ~found.ok THEN <<>>
                ELSE IF IsLeaf(place) THEN place.leaf ELSE get[place.list]
    IN  get

Get(tree, key) == GetFrom(tree, key)[1]

\* iter: the keys in the order of the lists, each with its values.
IterFrom(tree) ==
    LET iter[l \in DOMAIN tree] ==
            FlattenSeq([i \in DOMAIN tree[l] |->
                LET place == tree[l][i]
                IN  IF IsLeaf(place) THEN <<<<place.min, place.leaf>>>>
                                     ELSE iter[place.list]])
    IN  iter

Iter(tree) == IterFrom(tree)[1]

(***************************************************************************)
(* stateless_next: the path of indexes leads down to the child to come     *)
(* next.  Past the end of a list the path gets shorter, at a list that it  *)
(* does not lead into it gets longer, and it is followed once more from    *)
(* the root.                                                               *)
(***************************************************************************)
\* The lists that the indexes of the path are for, none after a leaf.
ListsOn(tree, path) ==
    LET on[j \in DOMAIN path] ==
            IF j = 1 THEN 1
            ELSE LET l == on[j - 1]
                 IN  IF l = 0 THEN 0
                     ELSE IF path[j - 1] > Len(tree[l]) THEN 0
                     ELSE tree[l][path[j - 1]].list
    IN  on

\* Fault: the child after the list is passed over.
NextButOneInParent(path) == [Front(path) EXCEPT ![Len(path) - 1] = @ + 2]

NextInParent(path) == [Front(path) EXCEPT ![Len(path) - 1] = @ + 1]

Turn(tree, path) ==
    LET on == ListsOn(tree, path)
        j == Max({k \in DOMAIN path : on[k] # 0})
        places == tree[on[j]]
        place == places[path[j]]
    IN  IF path[j] > Len(places)
        THEN [path |-> IF Len(path) = 1 THEN <<>> ELSE NextInParent(path), item |-> <<>>]
        ELSE IF IsLeaf(place)
        THEN [path |-> [path EXCEPT ![j] = @ + 1], item |-> <<<<place.min, place.leaf>>>>]
        ELSE [path |-> Append(path, 1), item |-> <<>>]

\* The turns of one call, until there is an item or no path: at most each
\* index is given up, and then one is added for each list.
Follow(tree, path) ==
    LET turns == Len(path) + Len(tree)
        after[n \in 0 .. turns] ==
            IF n = 0 THEN [path |-> path, item |-> <<>>]
            ELSE LET was == after[n - 1]
                 IN  IF was.path = <<>> \/ was.item # <<>> THEN was
                     ELSE Turn(tree, was.path)
    IN  after[turns]

\* The pairs as iter gives them, and as into_iter does, which takes the
\* values of a key from the end and the first one last.
Pairs(groups, Order(_)) ==
    FlattenSeq([g \in DOMAIN groups |->
        LET vs == Order(groups[g][2])
        IN  [i \in DOMAIN vs |-> <<groups[g][1], vs[i]>>]])

AsTheyAre(vs) == vs

FirstOneLast(vs) == Reverse(Tail(vs)) \o <<Head(vs)>>

IterPairs(tree) == Pairs(Iter(tree), AsTheyAre)

IntoIterPairs(tree) == Pairs(Iter(tree), FirstOneLast)

\* from_iter, and from_sorted_iter_failable with its deduplicate: what they
\* have made of the first n pairs.
Pushed(pairs) ==
    LET after[n \in 0 .. Len(pairs)] ==
            IF n = 0 THEN EmptyTree
            ELSE PushInto(after[n - 1], pairs[n][1], pairs[n][2])
    IN  after

FromIter(pairs) == Pushed(pairs)[Len(pairs)]

Grouped(pairs) ==
    LET after[n \in 0 .. Len(pairs)] ==
            IF n = 0 THEN <<>>
            ELSE LET was == after[n - 1]
                 IN  IF was # <<>> /\ Last(was).min = pairs[n][1]
                     THEN [was EXCEPT ![Len(was)].leaf = Append(@, pairs[n][2])]
                     ELSE Append(was, Leaf(pairs[n][1], <<pairs[n][2]>>))
    IN  after

\* Fault: the last group of equal keys is forgotten.
GroupsButLast(pairs) ==
    IF pairs = <<>> THEN EmptyTree ELSE <<Front(Grouped(pairs)[Len(pairs)])>>

FromSortedIter(pairs) == <<Grouped(pairs)[Len(pairs)]>>

-----------------------------------------------------------------------------

Found(tree) == [key \in Keys |-> Get(tree, key)]

Init ==
    /\ itms = EmptyTree /\ len = 0 /\ got = Found(EmptyTree)
    /\ state = <<>> /\ seen = <<>> /\ changed = FALSE
    /\ rebuilds = 0

Push(key) ==
    /\ len < MaxPushes
    /\ len' = len + 1
    /\ LET new == PushInto(itms, key, len + 1)
       IN  itms' = new /\ got' = Found(new)
    /\ changed' = TRUE
    /\ seen' = <<>>
    /\ UNCHANGED <<state, rebuilds>>

\* A page of the dense tree is read; one of the sparse tree; one is split
\* by count with nothing left of it.  Nothing walks over the old tree.
Rebuild ==
    /\ rebuilds < MaxRebuilds /\ state = <<>>
    /\ rebuilds' = rebuilds + 1
    /\ \E new \in {FromSortedIter(IterPairs(itms)), FromIter(IterPairs(itms)),
                   FromIter(IntoIterPairs(itms))} :
         itms' = new /\ len' = Len(IterPairs(itms)) /\ got' = Found(new)
    /\ seen' = <<>> /\ changed' = TRUE
    /\ UNCHANGED state

BeginIteration ==
    /\ state = <<>>
    /\ state' = <<1>> /\ seen' = <<>> /\ changed' = FALSE
    /\ UNCHANGED <<treeVars, rebuilds>>

\* Once the path is empty the code would look for a child for ever: no
\* caller asks again after None.
StatelessNext ==
    /\ state # <<>>
    /\ LET step == Follow(itms, state)
       IN  /\ state' = step.path
           /\ seen' = IF changed THEN <<>> ELSE seen \o step.item
    /\ UNCHANGED <<treeVars, changed, rebuilds>>

Next ==
    \/ \E key \in Keys : Push(key)
    \/ Rebuild
    \/ BeginIteration
    \/ StatelessNext

Spec == Init /\ [][Next]_vars

-----------------------------------------------------------------------------

\* What the searches assume of a node: the ranges of a list follow one another
\* without overlap, a leaf's holds its one key, a list is not empty and its
\* range is that of its keys.  The tests' validate_assumptions_on_node says
\* otherwise of a leaf: it asserts that ranges do not overlap, too, but also
\* that each has a minimum below its maximum, and push makes leaves with the
\* range (key, key).
ListOrdered(tree, places) ==
    /\ \A i \in 1 .. Len(places) - 1 : places[i].max < places[i + 1].min
    /\ \A i \in DOMAIN places :
        LET place == places[i]
            child == tree[place.list]
        IN  IF IsLeaf(place)
            THEN place.leaf # <<>> /\ place.min = place.max
            ELSE /\ child # <<>>
                 /\ place.min = child[1].min /\ place.max = Last(child).max

\* After every push and every rebuilding the limits that the searches rely
\* on are those of the children, however deep: push stretches a list that
\* gets a key below it, and must never have to stretch one upwards.  len is
\* the number of values an iterator yields.
RangesOrdered == /\ \A l \in DOMAIN itms : ListOrdered(itms, itms[l])
                 /\ Len(IterPairs(itms)) = len

\* get finds what was pushed under a key and nothing else, and len counts it:
\* the tree is a collection of values under keys, before and after it is
\* taken apart and built anew.
Entries == UNION {{<<k, got[k][i]>> : i \in DOMAIN got[k]} : k \in Keys}

Contents == INSTANCE Multimap WITH entries <- Entries, size <- len
MultimapSpec == Contents!Spec

\* A walk with stateless_next over a tree that stays as it is yields every
\* key once, in the order of the keys, with the values get finds for it.
WalkExact ==
    LET came == {seen[i][1] : i \in DOMAIN seen}
        toCome == {k \in Keys \ came : got[k] # <<>>}
    IN  ~changed => /\ \A i \in DOMAIN seen : seen[i][2] = got[seen[i][1]]
                    /\ \A i \in 2 .. Len(seen) : seen[i - 1][1] < seen[i][1]
                    /\ \A k \in toCome, c \in came : c < k
                    /\ state = <<>> => toCome = {}
=============================================================================
