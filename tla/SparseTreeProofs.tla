-------------------------- MODULE SparseTreeProofs --------------------------
(***************************************************************************)
(* Theorems about SparseTree, for every number of threads, entries, nodes  *)
(* and openings, every set of keys and every box.                          *)
(***************************************************************************)
EXTENDS SparseTree, FiniteSetTheorems, NaturalsInduction, WellFoundedInduction, TLAPS

-----------------------------------------------------------------------------
(* The invariant. *)

(* A node other than the root hangs in one that was split. *)
Hangs(n) == n > 1 => split[n \div 2] = "split"

Moving(t) == moving[t].left \cup moving[t].right

DepthInv ==
    /\ \A n \in Nodes : split[n] # "leaf" => MayHaveHalves(n)
    /\ \A n \in Nodes : savedRoot.split[n] # "leaf" => MayHaveHalves(n)
    /\ \A t \in Threads : pc[t] \in {"split", "publish"} => MayHaveHalves(at[t])

(* What a thread has in its hands when; one thread makes a node's halves. *)
HandInv ==
    /\ \A t \in Threads :
         /\ pc[t] = "idle" <=> entry[t] = NoEntry
         /\ pc[t] = "idle" => at[t] = 1
         /\ pc[t] = "publish" => split[at[t]] = "splitting"
         /\ pc[t] # "publish" => moving[t].left = {} /\ moving[t].right = {}
    /\ \A t, u \in Threads : pc[t] = "publish" /\ pc[u] = "publish" /\ at[t] = at[u] => t = u

(* Only nodes that hang in the tree have children or halves.               *)
TreeInv ==
    /\ \A n \in Nodes : children[n] # {} \/ split[n] # "leaf" => Hangs(n)
    /\ \A t \in Threads : Hangs(at[t])
    /\ \A n \in expanding : Hangs(n)

PageInv ==
    \A n \in Nodes : /\ children[n] # {} => hasPage[n]
                     /\ count[n] = Cardinality(children[n])

(* An entry is waiting, with one thread, in its hands or in its split, or  *)
(* in one node.                                                            *)
OnceInv ==
    /\ \A n, m \in Nodes : n # m => children[n] \cap children[m] = {}
    /\ \A t \in Threads, n \in Nodes : /\ entry[t] \notin children[n]
                                       /\ Moving(t) \cap children[n] = {}
    /\ \A n \in Nodes : waiting \cap children[n] = {}
    /\ \A t \in Threads : /\ moving[t].left \cap moving[t].right = {}
                          /\ waiting \cap Moving(t) = {}
                          /\ entry[t] \notin waiting
    /\ \A t, u \in Threads : /\ entry[t] \notin Moving(u)
                             /\ t # u => /\ Moving(t) \cap Moving(u) = {}
                                         /\ entry[t] = entry[u] => entry[t] = NoEntry

KeptInv ==
    \A e \in Entries : \/ e \in waiting
                       \/ \E t \in Threads : entry[t] = e \/ e \in Moving(t)
                       \/ \E n \in Nodes : e \in children[n]

ShapeInv == TypeOK /\ DepthInv /\ HandInv /\ touched = rootDirty

Places == TreeInv /\ PageInv /\ OnceInv /\ KeptInv

(* Unless a root that was not written has been read again.                 *)
PlaceInv == ~unsaved => Places

(* The keys get looks for at a node: those on a line between two halves    *)
(* belong to the left one.                                                 *)
Belongs(k, n) == LET b == HalvedBox[n]
                 IN /\ b[1] <= k /\ k <= b[2]
                    /\ k = b[1] => k = RootBox[1]

(* Nothing was split by count, and no entry is above a leaf: boxes are     *)
(* those get works out, and each entry is on the way of get.               *)
Way ==
    /\ \A n \in Nodes : Hangs(n) => box[n] = HalvedBox[n]
    /\ \A n \in Nodes : split[n] # "leaf" => children[n] = {} /\ ~AtLimit(HalvedBox[n])
    /\ \A n \in Nodes : \A e \in children[n] : Belongs(Key[e], n)
    /\ \A t \in Threads : /\ entry[t] # NoEntry => Belongs(Key[entry[t]], at[t])
                          /\ \A e \in moving[t].left : Belongs(Key[e], 2 * at[t])
                          /\ \A e \in moving[t].right : Belongs(Key[e], 2 * at[t] + 1)

WayInv == ~unsaved /\ ~raced /\ ~rounded => Way

-----------------------------------------------------------------------------
(* Nodes, and the boxes worked out on the way down.                        *)

LEMMA NodeFacts ==
    /\ MaxNode \in Nat /\ 1 \in Nodes
    /\ \A n \in Nodes : n \in Nat /\ 1 <= n /\ n <= MaxNode
    /\ \A n \in Nodes : n > 1 => /\ n \div 2 \in Nodes /\ n \div 2 < n
                                 /\ n = 2 * (n \div 2) \/ n = 2 * (n \div 2) + 1
  BY SparseConstants DEF Nodes

LEMMA HalvesFacts ==
    ASSUME NEW n \in Nodes, MayHaveHalves(n)
    PROVE  /\ 2 * n \in Nodes /\ 2 * n + 1 \in Nodes
           /\ 2 * n > 1 /\ 2 * n + 1 > 1 /\ 2 * n # n /\ 2 * n + 1 # n
           /\ 2 * n # 2 * n + 1
           /\ (2 * n) \div 2 = n /\ (2 * n + 1) \div 2 = n
  <1>1. n \in Nat /\ 1 <= n /\ 2 * n < MaxNode /\ MaxNode \in Nat
    BY NodeFacts DEF MayHaveHalves
  <1>2. QED
    BY <1>1 DEF Nodes

(* Which nodes may have a node as a half. *)
LEMMA HalfOfOne ==
    ASSUME NEW n \in Nodes, NEW m \in Nodes, n > 1, n \div 2 = m
    PROVE  n = 2 * m \/ n = 2 * m + 1
  BY NodeFacts

Boxes == Nat \X Nat

(* A set of naturals that is not empty has a least member.                 *)
LEMMA LeastNat ==
  ASSUME NEW T, T \subseteq Nat, T # {}
  PROVE  \E x \in T : \A y \in T : x <= y
  <1> DEFINE R == OpToRel(<, Nat)
  <1>1. IsWellFoundedOn(R, Nat)
    BY NatLessThanWellFounded
  <1>2. \A x, y \in Nat : <<y, x>> \in R <=> y < x
    BY DEF OpToRel
  <1> HIDE DEF R
  <1>3. PICK x \in T : \A y \in T : ~ (<<y, x>> \in R)
    BY <1>1, WFMin
  <1>4. \A y \in T : ~ (y < x)
    BY <1>2, <1>3
  <1>5. QED
    BY <1>3, <1>4

(* The boxes of the root, and of the nodes below it by what the two halves *)
(* of a box are, are defined for every node.                               *)
LEMMA BoxesDefined ==
  ASSUME NEW L \in [Boxes -> Boxes], NEW R \in [Boxes -> Boxes]
  PROVE  \E f \in [Nodes -> Boxes] : \A n \in Nodes :
           f[n] = IF n = 1 THEN RootBox
                  ELSE IF n % 2 = 0 THEN L[f[n \div 2]] ELSE R[f[n \div 2]]
  <1> DEFINE Up(f, k) == \A n \in 1 .. k :
                f[n] = IF n = 1 THEN RootBox
                       ELSE IF n % 2 = 0 THEN L[f[n \div 2]] ELSE R[f[n \div 2]]
             Bad == {k \in Nat : ~ \E f \in [1 .. k -> Boxes] : Up(f, k)}
  <1>1. Bad = {}
    <2>1. SUFFICES ASSUME Bad # {} PROVE FALSE
      OBVIOUS
    <2>2. PICK k \in Bad : \A j \in Bad : k <= j
      <3>1. Bad \subseteq Nat
        OBVIOUS
      <3> HIDE DEF Bad
      <3>2. QED
        BY <2>1, <3>1, LeastNat
    <2>3. k \in Nat /\ k # 0
      <3>1. \E f \in [1 .. 0 -> Boxes] : Up(f, 0)
        <4>1. \A n \in 1 .. 0 : FALSE
          OBVIOUS
        <4>2. [n \in 1 .. 0 |-> RootBox] \in [1 .. 0 -> Boxes]
          BY <4>1
        <4>3. \A f : Up(f, 0)
          BY <4>1
        <4> HIDE DEF Up
        <4>4. QED
          BY <4>2, <4>3
      <3>2. k \in Nat /\ ~ \E f \in [1 .. k -> Boxes] : Up(f, k)
        BY <2>2
      <3> HIDE DEF Up
      <3>3. QED
        BY <3>1, <3>2
    <2>4. k - 1 \in Nat /\ k - 1 \notin Bad
      <3> HIDE DEF Bad
      <3>1. k - 1 \in Nat /\ ~ (k <= k - 1)
        BY <2>3
      <3>2. QED
        BY <2>2, <3>1
    <2>5. PICK f \in [1 .. k - 1 -> Boxes] : Up(f, k - 1)
      BY <2>4
    <2> DEFINE b == IF k = 1 THEN RootBox
                    ELSE IF k % 2 = 0 THEN L[f[k \div 2]] ELSE R[f[k \div 2]]
               g == [n \in 1 .. k |-> IF n = k THEN b ELSE f[n]]
    <2>6. b \in Boxes
      <3>1. RootBox \in Boxes
        BY SparseConstants DEF Boxes
      <3>2. k # 1 => k \div 2 \in 1 .. k - 1
        BY <2>3
      <3>3. QED
        BY <2>5, <3>1, <3>2
    <2>7. \A n \in 1 .. k : n = k \/ n \in 1 .. k - 1
      BY <2>3
    <2>8. g \in [1 .. k -> Boxes]
      BY <2>5, <2>6, <2>7
    <2>9. Up(g, k)
      <3>1. SUFFICES ASSUME NEW n \in 1 .. k
                     PROVE  g[n] = IF n = 1 THEN RootBox
                                   ELSE IF n % 2 = 0 THEN L[g[n \div 2]] ELSE R[g[n \div 2]]
        OBVIOUS
      <3>2. n # 1 => n \div 2 \in 1 .. k /\ n \div 2 # k
        BY <2>3
      <3>3. n # 1 => g[n \div 2] = f[n \div 2]
        BY <3>2
      <3>4. CASE n = k
        BY <3>3, <3>4
      <3>5. CASE n # k
        BY <2>5, <2>7, <3>3, <3>5
      <3>6. QED
        BY <3>4, <3>5
    <2>10. QED
      BY <2>2, <2>8, <2>9
  <1>2. MaxNode \in Nat /\ MaxNode \notin Bad
    BY <1>1, NodeFacts
  <1>3. QED
    BY <1>2 DEF Nodes

LEMMA HalvesOfBoxes ==
  ASSUME NEW b \in Boxes
  PROVE  /\ Left(b) \in Boxes /\ Right(b) \in Boxes /\ Middle(b) \in Nat
         /\ AtLimit(b) <=> Middle(b) = b[2] \/ Middle(b) = b[1]
         /\ b[1] <= b[2] => b[1] <= Middle(b) /\ Middle(b) <= b[2]
  <1>1. PICK x \in Nat, y \in Nat : b = <<x, y>>
    BY DEF Boxes
  <1>2. Middle(b) = (x + y) \div 2 /\ b[1] = x /\ b[2] = y
    BY <1>1 DEF Middle
  <1>3. Middle(b) \in Nat
    BY <1>2
  <1>4. x <= y => x <= Middle(b) /\ Middle(b) <= y
    BY <1>2
  <1>5. QED
    BY <1>1, <1>2, <1>3, <1>4 DEF Left, Right, Boxes, AtLimit

LEMMA HalvedBoxDef ==
  /\ HalvedBox \in [Nodes -> Boxes]
  /\ \A n \in Nodes :
       HalvedBox[n] = IF n = 1 THEN RootBox
                      ELSE IF n % 2 = 0 THEN Left(HalvedBox[n \div 2])
                      ELSE Right(HalvedBox[n \div 2])
  <1> DEFINE L == [b \in Boxes |-> Left(b)]
             R == [b \in Boxes |-> Right(b)]
  <1>1. L \in [Boxes -> Boxes] /\ R \in [Boxes -> Boxes]
    BY HalvesOfBoxes
  <1>2. PICK f \in [Nodes -> Boxes] : \A n \in Nodes :
           f[n] = IF n = 1 THEN RootBox
                  ELSE IF n % 2 = 0 THEN L[f[n \div 2]] ELSE R[f[n \div 2]]
    <2> HIDE DEF L, R
    <2>1. QED
      BY <1>1, BoxesDefined
  <1>3. \A n \in Nodes : n # 1 => f[n \div 2] \in Boxes
    BY <1>2, NodeFacts
  <1>4. f = [n \in Nodes |-> IF n = 1 THEN RootBox
                             ELSE IF n % 2 = 0 THEN Left(f[n \div 2])
                             ELSE Right(f[n \div 2])]
    BY <1>2, <1>3
  <1>5. HalvedBox = [n \in Nodes |-> IF n = 1 THEN RootBox
                             ELSE IF n % 2 = 0 THEN Left(HalvedBox[n \div 2])
                             ELSE Right(HalvedBox[n \div 2])]
    BY <1>4 DEF HalvedBox
  <1> DEFINE Bad == {n \in Nodes : HalvedBox[n] \notin Boxes}
  <1>6. Bad = {}
    <2>1. SUFFICES ASSUME Bad # {} PROVE FALSE
      OBVIOUS
    <2>2. PICK n \in Bad : \A m \in Bad : n <= m
      <3>1. Bad \subseteq Nat
        BY NodeFacts
      <3> HIDE DEF Bad
      <3>2. QED
        BY <2>1, <3>1, LeastNat
    <2>3. n # 1 => HalvedBox[n \div 2] \in Boxes
      BY <2>2, NodeFacts
    <2>4. HalvedBox[n] \in Boxes
      <3>1. CASE n = 1
        <4>1. HalvedBox[n] = RootBox
          BY <1>5, <2>2, <3>1
        <4>2. QED
          BY <4>1, SparseConstants DEF Boxes
      <3>2. CASE n # 1
        <4>1. \/ HalvedBox[n] = Left(HalvedBox[n \div 2])
              \/ HalvedBox[n] = Right(HalvedBox[n \div 2])
          BY <1>5, <2>2, <3>2
        <4>2. QED
          BY <2>3, <3>2, <4>1, HalvesOfBoxes
      <3>3. QED
        BY <3>1, <3>2
    <2>5. QED
      BY <2>2, <2>4
  <1>7. QED
    BY <1>5, <1>6

(* No box a search works out is of one key: it stops halving before that.  *)
LEMMA SearchBoxWide == \A n \in Nodes : TouchesAll(SearchBox[n])
  <1> DEFINE L == [b \in Boxes |-> IF AtLimit(b) THEN b ELSE Left(b)]
             R == [b \in Boxes |-> IF AtLimit(b) THEN b ELSE Right(b)]
  <1>1. L \in [Boxes -> Boxes] /\ R \in [Boxes -> Boxes]
    BY HalvesOfBoxes
  <1>2. PICK f \in [Nodes -> Boxes] : \A n \in Nodes :
           f[n] = IF n = 1 THEN RootBox
                  ELSE IF n % 2 = 0 THEN L[f[n \div 2]] ELSE R[f[n \div 2]]
    <2> HIDE DEF L, R
    <2>1. QED
      BY <1>1, BoxesDefined
  <1>3. \A n \in Nodes : n # 1 => f[n \div 2] \in Boxes
    BY <1>2, NodeFacts
  <1>4. f = [n \in Nodes |-> IF n = 1 THEN RootBox
                ELSE LET b == f[n \div 2]
                     IN IF AtLimit(b) THEN b ELSE IF n % 2 = 0 THEN Left(b) ELSE Right(b)]
    BY <1>2, <1>3
  <1>5. SearchBox = [n \in Nodes |-> IF n = 1 THEN RootBox
                ELSE LET b == SearchBox[n \div 2]
                     IN IF AtLimit(b) THEN b ELSE IF n % 2 = 0 THEN Left(b) ELSE Right(b)]
    BY <1>4 DEF SearchBox
  <1> DEFINE Wide(n) == SearchBox[n] \in Boxes /\ SearchBox[n][1] < SearchBox[n][2]
             Bad == {n \in Nodes : ~ Wide(n)}
  <1>6. Bad = {}
    <2>1. SUFFICES ASSUME Bad # {} PROVE FALSE
      OBVIOUS
    <2>2. PICK n \in Bad : \A m \in Bad : n <= m
      <3>1. Bad \subseteq Nat
        BY NodeFacts
      <3> HIDE DEF Bad
      <3>2. QED
        BY <2>1, <3>1, LeastNat
    <2>3. n \in Nodes /\ ~ Wide(n)
      BY <2>2
    <2>4. CASE n = 1
      <3>1. SearchBox[n] = RootBox
        BY <1>5, <2>3, <2>4
      <3>2. QED
        BY <2>3, <3>1, SparseConstants DEF Boxes
    <2>5. CASE n # 1
      <3> DEFINE b == SearchBox[n \div 2]
      <3>1. n \div 2 \in Nodes /\ n \div 2 < n /\ n \in Nat /\ n \div 2 \in Nat
        BY <2>3, <2>5, NodeFacts
      <3>2. Wide(n \div 2)
        <4> HIDE DEF Wide
        <4>1. ~ (n <= n \div 2)
          BY <3>1
        <4>2. QED
          BY <2>2, <3>1, <4>1
      <3>3. SearchBox[n] = IF AtLimit(b) THEN b ELSE IF n % 2 = 0 THEN Left(b) ELSE Right(b)
        BY <1>5, <2>3, <2>5
      <3>4. CASE AtLimit(b)
        BY <2>3, <3>2, <3>3, <3>4
      <3>5. CASE ~ AtLimit(b)
        <4>1. b \in Boxes /\ b[1] < b[2]
          BY <3>2
        <4> HIDE DEF b
        <4>2. b[1] \in Nat /\ b[2] \in Nat
          BY <4>1 DEF Boxes
        <4>3. Middle(b) \in Nat /\ b[1] < Middle(b) /\ Middle(b) < b[2]
          BY <3>5, <4>1, <4>2, HalvesOfBoxes
        <4>4. /\ Left(b) \in Boxes /\ Left(b)[1] < Left(b)[2]
              /\ Right(b) \in Boxes /\ Right(b)[1] < Right(b)[2]
          BY <4>1, <4>3, HalvesOfBoxes DEF Left, Right
        <4>5. QED
          BY <2>3, <3>3, <3>5, <4>4
      <3>6. QED
        BY <3>4, <3>5
    <2>6. QED
      BY <2>4, <2>5
  <1>7. QED
    BY <1>6 DEF TouchesAll

(* What get's boxes are: within the root's. *)
LEMMA HalvedBoxIn ==
  \A n \in Nodes : /\ HalvedBox[n][1] \in Nat /\ HalvedBox[n][2] \in Nat
                   /\ RootBox[1] <= HalvedBox[n][1] /\ HalvedBox[n][1] <= HalvedBox[n][2]
  <1>0. RootBox \in Boxes /\ RootBox[1] \in Nat /\ RootBox[2] \in Nat /\ RootBox[1] < RootBox[2]
    BY SparseConstants DEF Boxes
  <1>1. \A n \in Nodes : HalvedBox[n] \in Boxes /\ HalvedBox[n][1] \in Nat /\ HalvedBox[n][2] \in Nat
    BY HalvedBoxDef DEF Boxes
  <1> DEFINE In(n) == RootBox[1] <= HalvedBox[n][1] /\ HalvedBox[n][1] <= HalvedBox[n][2]
             Bad == {n \in Nodes : ~ In(n)}
  <1>2. Bad = {}
    <2>1. SUFFICES ASSUME Bad # {} PROVE FALSE
      OBVIOUS
    <2>2. PICK n \in Bad : \A m \in Bad : n <= m
      <3>1. Bad \subseteq Nat
        BY NodeFacts
      <3> HIDE DEF Bad
      <3>2. QED
        BY <2>1, <3>1, LeastNat
    <2>3. n \in Nodes /\ ~ In(n)
      BY <2>2
    <2>4. n # 1
      <3>1. HalvedBox[1] = RootBox
        BY HalvedBoxDef, NodeFacts
      <3>2. QED
        BY <1>0, <2>3, <3>1
    <2> DEFINE b == HalvedBox[n \div 2]
    <2>5. n \div 2 \in Nodes /\ n \div 2 < n /\ n \in Nat /\ n \div 2 \in Nat
      BY <2>3, <2>4, NodeFacts
    <2>6. In(n \div 2)
      <3> HIDE DEF In
      <3>1. ~ (n <= n \div 2)
        BY <2>5
      <3>2. QED
        BY <2>2, <2>5, <3>1
    <2>7. HalvedBox[n] = IF n % 2 = 0 THEN Left(b) ELSE Right(b)
      BY <2>3, <2>4, HalvedBoxDef
    <2>8. b \in Boxes /\ b[1] \in Nat /\ b[2] \in Nat /\ RootBox[1] <= b[1] /\ b[1] <= b[2]
      BY <1>1, <2>5, <2>6
    <2> HIDE DEF b
    <2>9. /\ Middle(b) \in Nat /\ b[1] <= Middle(b) /\ Middle(b) <= b[2]
          /\ Left(b)[1] = b[1] /\ Left(b)[2] = Middle(b)
          /\ Right(b)[1] = Middle(b) /\ Right(b)[2] = b[2]
      BY <2>8, HalvesOfBoxes DEF Left, Right
    <2>10. QED
      BY <1>0, <2>3, <2>7, <2>8, <2>9
  <1>3. QED
    BY <1>1, <1>2

-----------------------------------------------------------------------------
(* The parts of ShapeInv: types, and what a thread has in its hands.       *)

LEMMA CountType ==
  ASSUME NEW s \in SUBSET Entries
  PROVE  IsFiniteSet(s) /\ Cardinality(s) \in Nat
  BY SparseConstants, FS_Subset, FS_CardinalityType

(* Two shares of the children of a node that leave nothing out. *)
LEMMA SharesFacts ==
  ASSUME NEW n, NEW share \in Shares(n)
  PROVE  /\ share = [left |-> share.left, right |-> share.right]
         /\ share.left \cup share.right = children[n]
         /\ share.left \cap share.right = {}
  BY DEF Shares, FirstOnes

LEMMA HalfBoxesType ==
  ASSUME TypeOK, NEW n \in Nodes
  PROVE  HalfBoxes(n) \in [Nodes -> Nat \X Nat]
  <1>1. box[n] \in Boxes
    BY DEF TypeOK, Boxes
  <1>2. Left(box[n]) \in Nat \X Nat /\ Right(box[n]) \in Nat \X Nat /\ box[n] \in Nat \X Nat
    BY <1>1, HalvesOfBoxes DEF Boxes
  <1>3. QED
    BY <1>2 DEF HalfBoxes, TypeOK

LEMMA BeginShape ==
  ASSUME ShapeInv, NEW t \in Threads, NEW e \in Entries, Begin(t, e)
  PROVE  ShapeInv'
  <1>1. TypeOK'
    BY DEF ShapeInv, TypeOK, Begin, Goto, nodeVars, rootVars, ghostVars
  <1>2. DepthInv'
    BY DEF ShapeInv, TypeOK, DepthInv, Begin, Goto, nodeVars, rootVars, ghostVars
  <1>3. HandInv'
    BY SparseConstants
       DEF ShapeInv, TypeOK, HandInv, Begin, Goto, nodeVars, rootVars, ghostVars
  <1>4. QED
    BY <1>1, <1>2, <1>3 DEF ShapeInv, Begin, rootVars, ghostVars

LEMMA WalkShape ==
  ASSUME ShapeInv, NEW t \in Threads, Walk(t) \/ TrySplit(t) \/ AlreadySplit(t)
  PROVE  ShapeInv'
  <1>1. /\ UNCHANGED <<hasPage, children, count, split, box, rootDirty, savedRoot, expanding,
                       entry, moving, waiting, raced, rounded, touched, unsaved, reopens>>
        /\ pc[t] \in {"walk", "try", "split"}
    BY DEF Walk, TrySplit, AlreadySplit, nodeVars, rootVars, ghostVars
  <1>2. PICK label \in {"walk", "try", "split", "store"}, m \in Nodes :
          /\ pc' = [pc EXCEPT ![t] = label]
          /\ at' = [at EXCEPT ![t] = m]
          /\ label = "split" => MayHaveHalves(m)
    <2>1. at[t] \in Nodes /\ at = [at EXCEPT ![t] = at[t]] /\ pc = [pc EXCEPT ![t] = pc[t]]
      BY DEF ShapeInv, TypeOK
    <2>2. CASE Walk(t)
      <3>1. CASE /\ split[at[t]] = "split" /\ Side(at[t], entry[t]) # 0
                 /\ at' = [at EXCEPT ![t] = Side(at[t], entry[t])] /\ pc' = pc
        <4>1. MayHaveHalves(at[t])
          BY <2>1, <3>1 DEF ShapeInv, DepthInv
        <4>2. Side(at[t], entry[t]) \in Nodes
          BY <2>1, <3>1, <4>1, HalvesFacts DEF Side
        <4>3. pc' = [pc EXCEPT ![t] = "walk"]
          BY <2>1, <2>2, <3>1 DEF Walk
        <4>4. QED
          BY <3>1, <4>2, <4>3
      <3>2. QED
        BY <2>1, <2>2, <3>1 DEF Walk, Goto
    <2>3. CASE TrySplit(t)
      <3>1. at' = [at EXCEPT ![t] = at[t]]
        BY <2>1, <2>3 DEF TrySplit
      <3>2. \/ pc' = [pc EXCEPT ![t] = "store"]
            \/ pc' = [pc EXCEPT ![t] = "split"] /\ MayHaveHalves(at[t])
        BY <2>3 DEF TrySplit, Goto, IsFull
      <3>3. QED
        BY <2>1, <3>1, <3>2
    <2>4. CASE AlreadySplit(t)
      BY <2>1, <2>4 DEF AlreadySplit, Goto
    <2>5. QED
      BY <2>2, <2>3, <2>4
  <1>3. TypeOK'
    BY <1>1, <1>2 DEF ShapeInv, TypeOK
  <1>4. DepthInv'
    BY <1>1, <1>2 DEF ShapeInv, TypeOK, DepthInv, MayHaveHalves
  <1>5. HandInv'
    BY <1>1, <1>2 DEF ShapeInv, TypeOK, HandInv
  <1>6. QED
    BY <1>1, <1>3, <1>4, <1>5 DEF ShapeInv

LEMMA TakeOutShape ==
  ASSUME ShapeInv, NEW t \in Threads, TakeOut(t)
  PROVE  ShapeInv'
  <1> DEFINE n == at[t]
  <1>1. n \in Nodes /\ pc[t] = "split" /\ split[n] = "leaf" /\ MayHaveHalves(n)
    BY DEF ShapeInv, TypeOK, DepthInv, TakeOut
  <1>2. PICK share \in Shares(n) : moving' = [moving EXCEPT ![t] = share]
    BY DEF TakeOut
  <1>3. share \in [left : SUBSET Entries, right : SUBSET Entries]
    <2>1. share.left \subseteq Entries /\ share.right \subseteq Entries
      BY <1>1, <1>2, SharesFacts DEF ShapeInv, TypeOK
    <2>2. QED
      BY <1>2, <2>1, SharesFacts
  <1>4. /\ children' = [children EXCEPT ![n] = {}] /\ count' = [count EXCEPT ![n] = 0]
        /\ split' = [split EXCEPT ![n] = "splitting"]
        /\ pc' = [pc EXCEPT ![t] = "publish"]
        /\ rounded' \in BOOLEAN
        /\ UNCHANGED <<hasPage, box, rootDirty, savedRoot, expanding, at, entry, waiting,
                       raced, touched, unsaved, reopens>>
    BY DEF TakeOut, EmptiedCount, Goto, rootVars, ShapeInv, TypeOK
  <1>5. TypeOK'
    BY <1>1, <1>2, <1>3, <1>4 DEF ShapeInv, TypeOK
  <1>6. DepthInv'
    BY <1>1, <1>4 DEF ShapeInv, TypeOK, DepthInv, MayHaveHalves
  <1>7. HandInv'
    <2>1. \A u \in Threads : pc[u] = "publish" => at[u] # n
      BY <1>1 DEF ShapeInv, HandInv
    <2>2. \A u \in Threads \ {t} : pc'[u] = pc[u] /\ moving'[u] = moving[u]
      BY <1>2, <1>4 DEF ShapeInv, TypeOK
    <2>3. pc'[t] = "publish" /\ split'[n] = "splitting"
          /\ \A m \in Nodes \ {n} : split'[m] = split[m]
      BY <1>1, <1>4 DEF ShapeInv, TypeOK
    <2>4. \A u \in Threads : at[u] \in Nodes
      BY DEF ShapeInv, TypeOK
    <2>5. QED
      BY <1>1, <1>4, <2>1, <2>2, <2>3, <2>4 DEF ShapeInv, HandInv
  <1>8. QED
    BY <1>4, <1>5, <1>6, <1>7 DEF ShapeInv

LEMMA PublishShape ==
  ASSUME ShapeInv, NEW t \in Threads, Publish(t)
  PROVE  ShapeInv'
  <1> DEFINE n == at[t]
             left == moving[t].left
             right == moving[t].right
  <1>1. n \in Nodes /\ pc[t] = "publish" /\ split[n] = "splitting" /\ MayHaveHalves(n)
        /\ left \in SUBSET Entries /\ right \in SUBSET Entries
    BY DEF ShapeInv, TypeOK, DepthInv, HandInv, Publish
  <1>2. /\ hasPage' = [hasPage EXCEPT ![2 * n] = left # {}, ![2 * n + 1] = right # {}]
        /\ split' = [split EXCEPT ![n] = "split"]
        /\ box' = HalfBoxes(n)
        /\ children' = [children EXCEPT ![2 * n] = left, ![2 * n + 1] = right]
        /\ count' = [count EXCEPT ![2 * n] = Cardinality(left),
                                  ![2 * n + 1] = Cardinality(right)]
        /\ moving' = [moving EXCEPT ![t] = Nothing]
        /\ pc' = [pc EXCEPT ![t] = "walk"]
        /\ UNCHANGED <<rootDirty, savedRoot, expanding, at, entry, waiting, raced, rounded,
                       touched, unsaved, reopens>>
    BY DEF Publish, MakeHalves, Goto, rootVars, ghostVars
  <1>3. Cardinality(left) \in Nat /\ Cardinality(right) \in Nat
    BY <1>1, CountType
  <1>4. box' \in [Nodes -> Nat \X Nat]
    BY <1>1, <1>2, HalfBoxesType DEF ShapeInv
  <1>5. TypeOK'
    BY <1>1, <1>2, <1>3, <1>4 DEF ShapeInv, TypeOK, Nothing
  <1>6. DepthInv'
    BY <1>1, <1>2 DEF ShapeInv, TypeOK, DepthInv, MayHaveHalves
  <1>7. HandInv'
    <2>1. \A u \in Threads \ {t} : /\ pc'[u] = pc[u] /\ moving'[u] = moving[u]
                                   /\ pc[u] = "publish" => at[u] # n
      BY <1>1, <1>2 DEF ShapeInv, TypeOK, HandInv
    <2>2. pc'[t] = "walk" /\ moving'[t].left = {} /\ moving'[t].right = {}
      BY <1>2 DEF ShapeInv, TypeOK, Nothing
    <2>3. \A m \in Nodes \ {n} : split'[m] = split[m]
      BY <1>2 DEF ShapeInv, TypeOK
    <2>4. \A u \in Threads : at[u] \in Nodes
      BY DEF ShapeInv, TypeOK
    <2>5. QED
      BY <1>1, <1>2, <2>1, <2>2, <2>3, <2>4 DEF ShapeInv, HandInv
  <1>8. QED
    BY <1>2, <1>5, <1>6, <1>7 DEF ShapeInv

LEMMA StoreShape ==
  ASSUME ShapeInv, NEW t \in Threads, Store(t)
  PROVE  ShapeInv'
  <1>1. /\ at[t] \in Nodes /\ pc[t] = "store" /\ entry[t] \in Entries
        /\ count[at[t]] + 1 \in Nat
    BY DEF ShapeInv, TypeOK, HandInv, Store
  <1>2. /\ hasPage' = [hasPage EXCEPT ![at[t]] = TRUE]
        /\ children' = [children EXCEPT ![at[t]] = children[at[t]] \cup {entry[t]}]
        /\ count' = [count EXCEPT ![at[t]] = count[at[t]] + 1]
        /\ raced' \in BOOLEAN
        /\ pc' = [pc EXCEPT ![t] = "idle"] /\ at' = [at EXCEPT ![t] = 1]
        /\ entry' = [entry EXCEPT ![t] = NoEntry]
        /\ UNCHANGED <<split, box, rootDirty, savedRoot, expanding, moving, waiting, rounded,
                       touched, unsaved, reopens>>
    BY DEF Store, Goto, rootVars, ShapeInv, TypeOK
  <1>3. TypeOK'
    BY <1>1, <1>2, NodeFacts DEF ShapeInv, TypeOK
  <1>4. DepthInv'
    BY <1>1, <1>2 DEF ShapeInv, TypeOK, DepthInv, MayHaveHalves
  <1>5. HandInv'
    BY <1>1, <1>2 DEF ShapeInv, TypeOK, HandInv
  <1>6. QED
    BY <1>2, <1>3, <1>4, <1>5 DEF ShapeInv

LEMMA ExpandPastShape ==
  ASSUME ShapeInv, NEW n \in Nodes, ExpandPast(n)
  PROVE  ShapeInv'
  <1>1. UNCHANGED <<hasPage, children, count, split, box, rootDirty, savedRoot, pc, at, entry,
                    moving, waiting, raced, rounded, touched, unsaved, reopens>>
    BY DEF ExpandPast, nodeVars, threadVars, ghostVars
  <1>2. expanding' \subseteq Nodes
    <2>1. split[n] = "split" => 2 * n \in Nodes /\ 2 * n + 1 \in Nodes
      BY HalvesFacts DEF ShapeInv, DepthInv
    <2>2. QED
      BY <2>1 DEF ExpandPast, ShapeInv, TypeOK
  <1>3. TypeOK'
    BY <1>1, <1>2 DEF ShapeInv, TypeOK
  <1>4. DepthInv' /\ HandInv'
    BY <1>1 DEF ShapeInv, DepthInv, HandInv, MayHaveHalves
  <1>5. QED
    BY <1>1, <1>3, <1>4 DEF ShapeInv

LEMMA ExpandSplitShape ==
  ASSUME ShapeInv, NEW n \in Nodes, ExpandSplit(n)
  PROVE  ShapeInv'
  <1>1. split[n] = "leaf" /\ MayHaveHalves(n)
    BY DEF ExpandSplit, IsFull
  <1>2. PICK share \in Shares(n) :
          /\ MakeHalves(n, share)
          /\ children' = [children EXCEPT ![n] = {}, ![2 * n] = share.left,
                                          ![2 * n + 1] = share.right]
          /\ count' = [EmptiedCount(n) EXCEPT ![2 * n] = Cardinality(share.left),
                                              ![2 * n + 1] = Cardinality(share.right)]
    BY DEF ExpandSplit
  <1>3. share.left \in SUBSET Entries /\ share.right \in SUBSET Entries
    BY <1>2, SharesFacts DEF ShapeInv, TypeOK
  <1>4. Cardinality(share.left) \in Nat /\ Cardinality(share.right) \in Nat
    BY <1>3, CountType
  <1>5. /\ hasPage' = [hasPage EXCEPT ![2 * n] = share.left # {},
                                      ![2 * n + 1] = share.right # {}]
        /\ split' = [split EXCEPT ![n] = "split"]
        /\ box' \in [Nodes -> Nat \X Nat]
    BY <1>2, HalfBoxesType DEF MakeHalves, ShapeInv
  <1>6. /\ expanding' = (expanding \ {n}) \cup {2 * n, 2 * n + 1}
        /\ rounded' \in BOOLEAN
        /\ UNCHANGED <<rootDirty, savedRoot, pc, at, entry, moving, waiting, raced, touched,
                       unsaved, reopens>>
    BY DEF ExpandSplit, threadVars, ShapeInv, TypeOK
  <1>7. children' \in [Nodes -> SUBSET Entries]
    BY <1>2, <1>3 DEF ShapeInv, TypeOK
  <1>8. count' \in [Nodes -> Nat]
    BY <1>2, <1>4 DEF ShapeInv, TypeOK, EmptiedCount
  <1>9. expanding' \subseteq Nodes
    BY <1>1, <1>6, HalvesFacts DEF ShapeInv, TypeOK
  <1>10. TypeOK'
    BY <1>5, <1>6, <1>7, <1>8, <1>9 DEF ShapeInv, TypeOK
  <1>11. DepthInv'
    BY <1>1, <1>5, <1>6 DEF ShapeInv, TypeOK, DepthInv, MayHaveHalves
  <1>12. HandInv'
    <2>1. \A u \in Threads : at[u] \in Nodes /\ (pc[u] = "publish" => at[u] # n)
      BY <1>1 DEF ShapeInv, TypeOK, HandInv
    <2>2. \A m \in Nodes \ {n} : split'[m] = split[m]
      BY <1>5 DEF ShapeInv, TypeOK
    <2>3. QED
      BY <1>6, <2>1, <2>2 DEF ShapeInv, HandInv
  <1>13. QED
    BY <1>6, <1>10, <1>11, <1>12 DEF ShapeInv

LEMMA AloneShape ==
  ASSUME ShapeInv, Expand \/ Condense
  PROVE  ShapeInv'
  <1>1. /\ UNCHANGED <<children, count, split, box, savedRoot, pc, at, entry, moving, waiting,
                       raced, rounded, unsaved, reopens>>
        /\ rootDirty' = TRUE /\ touched' = TRUE
    BY DEF Expand, Condense, nodeVars, threadVars
  <1>2. expanding' \subseteq Nodes /\ hasPage' \in [Nodes -> BOOLEAN]
    <2>1. CASE Expand
      BY <2>1, NodeFacts DEF Expand, nodeVars, ShapeInv, TypeOK
    <2>2. CASE Condense
      <3>1. expanding' = expanding
            /\ hasPage' = [n \in Nodes |-> hasPage[n] /\ children[n] # {}]
        BY <2>2 DEF Condense
      <3>2. \A n \in Nodes : (hasPage[n] /\ children[n] # {}) \in BOOLEAN
        OBVIOUS
      <3>3. QED
        BY <3>1, <3>2 DEF ShapeInv, TypeOK
    <2>3. QED
      BY <2>1, <2>2
  <1>3. TypeOK'
    BY <1>1, <1>2 DEF ShapeInv, TypeOK
  <1>4. DepthInv' /\ HandInv'
    BY <1>1 DEF ShapeInv, DepthInv, HandInv, MayHaveHalves
  <1>5. QED
    BY <1>1, <1>3, <1>4 DEF ShapeInv

LEMMA ReopenShape ==
  ASSUME ShapeInv, Reopen
  PROVE  ShapeInv'
  <1> DEFINE root == IF rootDirty THEN RootNow ELSE savedRoot
  <1>1. /\ savedRoot' = root /\ hasPage' = root.hasPage /\ count' = root.count
        /\ split' = root.split
        /\ children' = [n \in Nodes |-> IF root.hasPage[n] THEN children[n] ELSE {}]
        /\ unsaved' \in BOOLEAN
        /\ box' = HalvedBox /\ rootDirty' = FALSE /\ touched' = FALSE
        /\ reopens < MaxReopens /\ reopens' = reopens + 1
        /\ UNCHANGED <<expanding, pc, at, entry, moving, waiting, raced, rounded>>
        /\ \A t \in Threads : pc[t] = "idle"
    BY DEF Reopen, Reread, threadVars, AllIdle, ShapeInv, TypeOK
  <1>2. /\ root \in [hasPage : [Nodes -> BOOLEAN], count : [Nodes -> Nat],
                     split : [Nodes -> {"leaf", "splitting", "split"}]]
        /\ \A n \in Nodes : root.split[n] # "leaf" => MayHaveHalves(n)
    BY DEF ShapeInv, TypeOK, DepthInv, RootNow
  <1> HIDE DEF root
  <1>3. box' \in [Nodes -> Nat \X Nat]
    BY <1>1, HalvedBoxDef DEF Boxes
  <1>4. reopens' \in 0 .. MaxReopens
    BY <1>1, SparseConstants DEF ShapeInv, TypeOK
  <1>5. TypeOK'
    BY <1>1, <1>2, <1>3, <1>4 DEF ShapeInv, TypeOK
  <1>6. DepthInv'
    BY <1>1, <1>2 DEF DepthInv, MayHaveHalves
  <1>7. HandInv'
    BY <1>1 DEF ShapeInv, HandInv
  <1>8. QED
    BY <1>1, <1>5, <1>6, <1>7 DEF ShapeInv

LEMMA NextShape == ShapeInv /\ [Next]_vars => ShapeInv'
  <1>1. SUFFICES ASSUME ShapeInv, [Next]_vars PROVE ShapeInv'
    OBVIOUS
  <1>2. CASE \E t \in Threads : Step(t)
    BY <1>1, <1>2, WalkShape, TakeOutShape, PublishShape, StoreShape DEF Step
  <1>3. CASE \E t \in Threads, e \in Entries : Begin(t, e)
    BY <1>1, <1>3, BeginShape
  <1>4. CASE \E n \in Nodes : ExpandPast(n) \/ ExpandSplit(n)
    BY <1>1, <1>4, ExpandPastShape, ExpandSplitShape
  <1>5. CASE Expand \/ Condense \/ Reopen
    BY <1>1, <1>5, AloneShape, ReopenShape
  <1>6. CASE UNCHANGED vars
    <2>1. TypeOK'
      BY <1>1, <1>6 DEF vars, nodeVars, rootVars, threadVars, ghostVars, ShapeInv, TypeOK
    <2>2. DepthInv' /\ HandInv' /\ touched' = rootDirty'
      BY <1>1, <1>6 DEF vars, nodeVars, rootVars, threadVars, ghostVars, ShapeInv, DepthInv,
         HandInv, MayHaveHalves
    <2>3. QED
      BY <2>1, <2>2 DEF ShapeInv
  <1>7. QED
    BY <1>1, <1>2, <1>3, <1>4, <1>5, <1>6 DEF Next

LEMMA InitShape == Init => ShapeInv
  <1>1. SUFFICES ASSUME Init PROVE ShapeInv
    OBVIOUS
  <1>2. /\ hasPage \in [Nodes -> BOOLEAN] /\ children \in [Nodes -> SUBSET Entries]
        /\ count \in [Nodes -> Nat]
        /\ split \in [Nodes -> {"leaf", "splitting", "split"}]
        /\ box \in [Nodes -> Nat \X Nat]
    BY <1>1, SparseConstants DEF Init
  <1>3. savedRoot \in [hasPage : [Nodes -> BOOLEAN], count : [Nodes -> Nat],
                       split : [Nodes -> {"leaf", "splitting", "split"}]]
    BY <1>1, <1>2 DEF Init, RootNow
  <1>4. moving \in [Threads -> [left : SUBSET Entries, right : SUBSET Entries]]
    BY <1>1 DEF Init, Nothing
  <1>5. TypeOK
    <2>1. /\ pc \in [Threads -> {"idle", "walk", "try", "split", "publish", "store"}]
          /\ at \in [Threads -> Nodes] /\ entry \in [Threads -> Entries \cup {NoEntry}]
      BY <1>1, NodeFacts DEF Init
    <2>2. rootDirty \in BOOLEAN /\ {raced, rounded, touched, unsaved} \subseteq BOOLEAN
      BY <1>1 DEF Init
    <2>3. reopens \in 0 .. MaxReopens
      BY <1>1, SparseConstants DEF Init
    <2>4. expanding \subseteq Nodes /\ waiting \subseteq Entries
      BY <1>1 DEF Init
    <2>5. QED
      BY <1>2, <1>3, <1>4, <2>1, <2>2, <2>3, <2>4 DEF TypeOK
  <1>6. DepthInv
    BY <1>1 DEF Init, RootNow, DepthInv
  <1>7. HandInv
    BY <1>1 DEF Init, HandInv, Nothing
  <1>8. QED
    BY <1>1, <1>5, <1>6, <1>7 DEF Init, ShapeInv

(* Every node, count and entry in the tree, in its root's page and in the  *)
(* hands of the inserting threads is one that exists, whatever the keys.   *)
THEOREM SparseTypeCorrect == Spec => []TypeOK
  <1>1. ShapeInv => TypeOK
    BY DEF ShapeInv
  <1>2. QED
    BY <1>1, InitShape, NextShape, PTL DEF Spec

-----------------------------------------------------------------------------
(* Where the entries are. *)

(* A split stays, and what it carries with it. *)
LEMMA HangsStays ==
  ASSUME NEW n, Hangs(n), split[n \div 2] = "split" => split'[n \div 2] = "split"
  PROVE  Hangs(n)'
  BY DEF Hangs

LEMMA RootHangs == Hangs(1)
  BY DEF Hangs

LEMMA HalfHangs ==
  ASSUME NEW n \in Nodes, MayHaveHalves(n)
  PROVE  /\ Hangs(2 * n) <=> split[n] = "split"
         /\ Hangs(2 * n + 1) <=> split[n] = "split"
  BY HalvesFacts DEF Hangs

LEMMA HalfHangsNext ==
  ASSUME NEW n \in Nodes, MayHaveHalves(n)
  PROVE  /\ Hangs(2 * n)' <=> split'[n] = "split"
         /\ Hangs(2 * n + 1)' <=> split'[n] = "split"
  BY HalvesFacts DEF Hangs

LEMMA BeginPlaces ==
  ASSUME ShapeInv, Places, NEW t \in Threads, NEW e \in Entries, Begin(t, e)
  PROVE  Places'
  <1>1. /\ e \in waiting /\ waiting' = waiting \ {e} /\ entry[t] = NoEntry
        /\ entry'[t] = e /\ \A u \in Threads \ {t} : entry'[u] = entry[u]
        /\ UNCHANGED <<hasPage, children, count, split, at, moving, expanding>>
    BY DEF Begin, nodeVars, rootVars, ShapeInv, HandInv, TypeOK
  <1>2. TreeInv' /\ PageInv'
    BY <1>1 DEF Places, TreeInv, PageInv, Hangs
  <1>3. OnceInv'
    BY <1>1 DEF Places, OnceInv, Moving
  <1>4. KeptInv'
    <2>1. SUFFICES ASSUME NEW d \in Entries
                   PROVE  \/ d \in waiting'
                          \/ \E u \in Threads : entry'[u] = d \/ d \in Moving(u)'
                          \/ \E n \in Nodes : d \in children'[n]
      BY DEF KeptInv
    <2>2. \A u \in Threads : Moving(u)' = Moving(u)
      BY <1>1 DEF Moving
    <2>3. \A u \in Threads : entry[u] = d => u # t
      BY <1>1, SparseConstants
    <2>4. QED
      BY <1>1, <2>2, <2>3 DEF Places, KeptInv
  <1>5. QED
    BY <1>2, <1>3, <1>4 DEF Places

LEMMA WalkPlaces ==
  ASSUME ShapeInv, Places, NEW t \in Threads, Walk(t) \/ TrySplit(t) \/ AlreadySplit(t)
  PROVE  Places'
  <1>1. UNCHANGED <<hasPage, children, count, split, entry, moving, waiting, expanding>>
    BY DEF Walk, TrySplit, AlreadySplit, nodeVars, rootVars
  <1>2. Hangs(at'[t]) /\ \A u \in Threads \ {t} : at'[u] = at[u]
    <2>1. at[t] \in Nodes /\ Hangs(at[t]) /\ at \in [Threads -> Nodes]
      BY DEF ShapeInv, TypeOK, Places, TreeInv
    <2>2. CASE at' = at
      BY <2>1, <2>2
    <2>3. CASE /\ split[at[t]] = "split"
               /\ at' = [at EXCEPT ![t] = Side(at[t], entry[t])] /\ Side(at[t], entry[t]) # 0
      <3>1. MayHaveHalves(at[t])
        BY <2>1, <2>3 DEF ShapeInv, DepthInv
      <3>2. Hangs(2 * at[t]) /\ Hangs(2 * at[t] + 1)
        BY <2>1, <2>3, <3>1, HalfHangs
      <3>3. at'[t] \in {2 * at[t], 2 * at[t] + 1}
        BY <2>1, <2>3 DEF Side
      <3>4. QED
        BY <2>1, <2>3, <3>2, <3>3
    <2>4. QED
      BY <2>2, <2>3 DEF Walk, TrySplit, AlreadySplit
  <1>3. TreeInv'
    BY <1>1, <1>2 DEF Places, TreeInv, Hangs
  <1>4. PageInv' /\ OnceInv' /\ KeptInv'
    BY <1>1 DEF Places, PageInv, OnceInv, KeptInv, Moving
  <1>5. QED
    BY <1>3, <1>4 DEF Places

LEMMA TakeOutPlaces ==
  ASSUME ShapeInv, Places, NEW t \in Threads, TakeOut(t)
  PROVE  Places'
  <1> DEFINE n == at[t]
  <1>1. n \in Nodes /\ pc[t] = "split" /\ split[n] = "leaf" /\ Hangs(n)
    BY DEF ShapeInv, TypeOK, TakeOut, Places, TreeInv
  <1>2. PICK share \in Shares(n) : moving' = [moving EXCEPT ![t] = share]
    BY DEF TakeOut
  <1>3. share.left \cup share.right = children[n] /\ share.left \cap share.right = {}
    BY <1>2, SharesFacts
  <1>4. /\ children'[n] = {} /\ count'[n] = 0 /\ split'[n] = "splitting"
        /\ \A m \in Nodes \ {n} : /\ children'[m] = children[m] /\ count'[m] = count[m]
                                  /\ split'[m] = split[m]
        /\ UNCHANGED <<hasPage, expanding, at, entry, waiting>>
    BY <1>1 DEF TakeOut, EmptiedCount, ShapeInv, TypeOK, rootVars
  <1>5. /\ moving'[t].left = share.left /\ moving'[t].right = share.right
        /\ moving[t].left = {} /\ moving[t].right = {}
        /\ \A u \in Threads \ {t} : moving'[u] = moving[u]
    <2>1. moving[t].left = {} /\ moving[t].right = {}
      BY <1>1 DEF ShapeInv, HandInv
    <2>2. DOMAIN moving = Threads
      BY DEF ShapeInv, TypeOK
    <2>3. moving'[t] = share /\ \A u \in Threads \ {t} : moving'[u] = moving[u]
      BY <1>2, <2>2
    <2>4. QED
      BY <2>1, <2>3
  <1>6. Moving(t)' = children[n] /\ Moving(t) = {}
        /\ \A u \in Threads \ {t} : Moving(u)' = Moving(u)
    BY <1>3, <1>5 DEF Moving
  <1>7. TreeInv'
    <2>1. \A m \in Nodes : Hangs(m) => Hangs(m)'
      <3>1. \A m \in Nodes : m > 1 => m \div 2 \in Nodes
        BY NodeFacts
      <3>2. QED
        BY <1>1, <1>4, <3>1 DEF Hangs
    <2>2. /\ \A u \in Threads : at[u] \in Nodes
          /\ expanding \subseteq Nodes
      BY DEF ShapeInv, TypeOK
    <2>3. QED
      BY <1>1, <1>4, <2>1, <2>2 DEF Places, TreeInv
  <1>8. PageInv'
    BY <1>4, FS_EmptySet DEF Places, PageInv
  <1>9. OnceInv'
    <2>1. /\ \A m, k \in Nodes : m # k => children'[m] \cap children'[k] = {}
          /\ \A m \in Nodes : waiting' \cap children'[m] = {}
          /\ \A u \in Threads, m \in Nodes : entry'[u] \notin children'[m]
          /\ \A u \in Threads : entry'[u] \notin waiting'
          /\ \A u, v \in Threads : u # v => (entry'[u] = entry'[v] => entry'[u] = NoEntry)
      BY <1>4 DEF Places, OnceInv
    <2>2. \A u \in Threads, m \in Nodes : Moving(u)' \cap children'[m] = {}
      BY <1>1, <1>4, <1>6 DEF Places, OnceInv
    <2>3. \A u \in Threads : /\ moving'[u].left \cap moving'[u].right = {}
                             /\ waiting' \cap Moving(u)' = {}
      BY <1>1, <1>3, <1>4, <1>5, <1>6 DEF Places, OnceInv
    <2>4. \A u, v \in Threads : /\ entry'[u] \notin Moving(v)'
                                /\ u # v => Moving(u)' \cap Moving(v)' = {}
      BY <1>1, <1>4, <1>6 DEF Places, OnceInv
    <2>5. QED
      BY <2>1, <2>2, <2>3, <2>4 DEF OnceInv
  <1>10. KeptInv'
    BY <1>1, <1>4, <1>6 DEF Places, KeptInv
  <1>11. QED
    BY <1>7, <1>8, <1>9, <1>10 DEF Places

LEMMA PublishPlaces ==
  ASSUME ShapeInv, Places, NEW t \in Threads, Publish(t)
  PROVE  Places'
  <1>0. PICK n \in Nodes : n = at[t]
    BY DEF ShapeInv, TypeOK
  <1> DEFINE left == moving[t].left
             right == moving[t].right
  <1>1. split[n] = "splitting" /\ MayHaveHalves(n)
    BY <1>0 DEF ShapeInv, TypeOK, DepthInv, HandInv, Publish
  <1>2. /\ 2 * n \in Nodes /\ 2 * n + 1 \in Nodes /\ 2 * n # 2 * n + 1
        /\ 2 * n # n /\ 2 * n + 1 # n
    BY <1>1, HalvesFacts
  <1>3. children[2 * n] = {} /\ children[2 * n + 1] = {}
    BY <1>1, <1>2, HalfHangs DEF Places, TreeInv
  <1>4. /\ hasPage' = [hasPage EXCEPT ![2 * n] = left # {}, ![2 * n + 1] = right # {}]
        /\ split' = [split EXCEPT ![n] = "split"]
        /\ children' = [children EXCEPT ![2 * n] = left, ![2 * n + 1] = right]
        /\ count' = [count EXCEPT ![2 * n] = Cardinality(left),
                                  ![2 * n + 1] = Cardinality(right)]
        /\ moving' = [moving EXCEPT ![t] = Nothing]
        /\ UNCHANGED <<expanding, at, entry, waiting>>
    BY <1>0 DEF Publish, MakeHalves, rootVars
  <1>5. /\ children'[2 * n] = left /\ children'[2 * n + 1] = right
        /\ hasPage'[2 * n] = (left # {}) /\ hasPage'[2 * n + 1] = (right # {})
        /\ count'[2 * n] = Cardinality(left) /\ count'[2 * n + 1] = Cardinality(right)
        /\ \A m \in Nodes \ {2 * n, 2 * n + 1} :
             children'[m] = children[m] /\ hasPage'[m] = hasPage[m] /\ count'[m] = count[m]
    BY <1>2, <1>4 DEF ShapeInv, TypeOK
  <1>6. /\ split'[n] = "split" /\ \A m \in Nodes \ {n} : split'[m] = split[m]
    BY <1>1, <1>4 DEF ShapeInv, TypeOK
  <1>7. /\ moving'[t].left = {} /\ moving'[t].right = {}
        /\ \A u \in Threads \ {t} : moving'[u] = moving[u]
    BY <1>4 DEF ShapeInv, TypeOK, Nothing
  <1>8. Moving(t)' = {} /\ Moving(t) = left \cup right
        /\ \A u \in Threads \ {t} : Moving(u)' = Moving(u)
    BY <1>7 DEF Moving
  <1>9. TreeInv'
    <2>1. \A m \in Nodes : Hangs(m) => Hangs(m)'
      <3>1. \A m \in Nodes : m > 1 => m \div 2 \in Nodes
        BY NodeFacts
      <3>2. QED
        BY <1>1, <1>6, <3>1 DEF Hangs
    <2>2. /\ \A u \in Threads : at[u] \in Nodes
          /\ expanding \subseteq Nodes
      BY DEF ShapeInv, TypeOK
    <2>3. Hangs(2 * n)' /\ Hangs(2 * n + 1)'
      BY <1>1, <1>6, HalfHangsNext
    <2>4. \A m \in Nodes : children'[m] # {} \/ split'[m] # "leaf" => Hangs(m)'
      BY <1>1, <1>5, <1>6, <2>1, <2>3 DEF Places, TreeInv
    <2>5. QED
      BY <1>4, <2>1, <2>2, <2>4 DEF Places, TreeInv
  <1>10. PageInv'
    BY <1>5 DEF Places, PageInv
  <1> HIDE DEF left, right
  <1>11. OnceInv'
    <2>1. /\ left \cap right = {}
          /\ \A m \in Nodes : (left \cup right) \cap children[m] = {}
          /\ waiting \cap (left \cup right) = {}
          /\ \A u \in Threads : entry[u] \notin left \cup right
          /\ \A u \in Threads \ {t} : Moving(u) \cap (left \cup right) = {}
      BY <1>8 DEF Places, OnceInv, left, right
    <2>2. \A m, k \in Nodes : m # k => children'[m] \cap children'[k] = {}
      BY <1>2, <1>5, <2>1 DEF Places, OnceInv
    <2>3. /\ \A m \in Nodes : waiting' \cap children'[m] = {}
          /\ \A u \in Threads, m \in Nodes : entry'[u] \notin children'[m]
      BY <1>4, <1>5, <2>1 DEF Places, OnceInv
    <2>4. \A u \in Threads, m \in Nodes : Moving(u)' \cap children'[m] = {}
      BY <1>5, <1>8, <2>1 DEF Places, OnceInv
    <2>5. \A u \in Threads : /\ moving'[u].left \cap moving'[u].right = {}
                             /\ waiting' \cap Moving(u)' = {}
                             /\ entry'[u] \notin waiting'
      BY <1>4, <1>7, <1>8 DEF Places, OnceInv
    <2>6. \A u, v \in Threads : /\ entry'[u] \notin Moving(v)'
                                /\ u # v => /\ Moving(u)' \cap Moving(v)' = {}
                                            /\ entry'[u] = entry'[v] => entry'[u] = NoEntry
      BY <1>4, <1>8 DEF Places, OnceInv
    <2>7. QED
      BY <2>2, <2>3, <2>4, <2>5, <2>6 DEF OnceInv
  <1>12. KeptInv'
    <2>1. SUFFICES ASSUME NEW e \in Entries
                   PROVE  \/ e \in waiting'
                          \/ \E u \in Threads : entry'[u] = e \/ e \in Moving(u)'
                          \/ \E m \in Nodes : e \in children'[m]
      BY DEF KeptInv
    <2>2. CASE e \in left \/ e \in right
      BY <1>2, <1>5, <2>2
    <2>3. CASE \E m \in Nodes : e \in children[m]
      BY <1>3, <1>5, <2>3
    <2>4. CASE ~(e \in left \/ e \in right) /\ ~ \E m \in Nodes : e \in children[m]
      BY <1>4, <1>8, <2>4 DEF Places, KeptInv
    <2>5. QED
      BY <2>2, <2>3, <2>4
  <1>13. QED
    BY <1>9, <1>10, <1>11, <1>12 DEF Places

LEMMA StorePlaces ==
  ASSUME ShapeInv, Places, NEW t \in Threads, Store(t)
  PROVE  Places'
  <1>0. PICK n \in Nodes, e \in Entries : n = at[t] /\ e = entry[t]
    BY DEF ShapeInv, TypeOK, HandInv, Store
  <1>1. e # NoEntry /\ Hangs(n) /\ Hangs(1)
    BY <1>0, SparseConstants, RootHangs DEF Places, TreeInv
  <1>2. /\ hasPage'[n] = TRUE /\ children'[n] = children[n] \cup {e}
        /\ count'[n] = count[n] + 1
        /\ \A m \in Nodes \ {n} :
             children'[m] = children[m] /\ hasPage'[m] = hasPage[m] /\ count'[m] = count[m]
        /\ at'[t] = 1 /\ entry'[t] = NoEntry
        /\ \A u \in Threads \ {t} : at'[u] = at[u] /\ entry'[u] = entry[u]
        /\ UNCHANGED <<split, expanding, moving, waiting>>
    BY <1>0 DEF Store, rootVars, ShapeInv, TypeOK
  <1>3. e \notin children[n] /\ IsFiniteSet(children[n])
    BY <1>0, CountType DEF Places, OnceInv, ShapeInv, TypeOK
  <1>4. TreeInv'
    BY <1>0, <1>1, <1>2 DEF Places, TreeInv, Hangs
  <1>5. PageInv'
    BY <1>2, <1>3, FS_AddElement DEF Places, PageInv
  <1>6. \A u \in Threads : Moving(u)' = Moving(u)
    BY <1>2 DEF Moving
  <1>7. OnceInv'
    <2>1. /\ \A m \in Nodes \ {n} : e \notin children[m]
          /\ e \notin waiting
          /\ \A u \in Threads : e \notin Moving(u) /\ (u # t => entry[u] # e)
      BY <1>0, <1>1, <1>3 DEF Places, OnceInv
    <2>2. \A m, k \in Nodes : m # k => children'[m] \cap children'[k] = {}
      BY <1>2, <2>1 DEF Places, OnceInv
    <2>3. NoEntry \notin Entries /\ \A m \in Nodes : children'[m] \subseteq Entries
      <3>1. NoEntry \notin Entries
        BY SparseConstants
      <3>2. /\ children \in [Nodes -> SUBSET Entries] /\ e \in Entries
        BY <1>0, <1>1 DEF ShapeInv, TypeOK
      <3>3. ASSUME NEW m \in Nodes PROVE children'[m] \subseteq Entries
        <4>1. CASE m = n
          BY <1>2, <3>2, <4>1
        <4>2. CASE m # n
          BY <1>2, <3>2, <4>2
        <4>3. QED
          BY <4>1, <4>2
      <3>4. QED
        BY <3>1, <3>3
    <2>4. \A u \in Threads, m \in Nodes : /\ entry'[u] \notin children'[m]
                                          /\ Moving(u)' \cap children'[m] = {}
      BY <1>2, <1>6, <2>1, <2>3 DEF Places, OnceInv
    <2>5. \A m \in Nodes : waiting' \cap children'[m] = {}
      BY <1>2, <2>1 DEF Places, OnceInv
    <2>6. \A u \in Threads : Moving(u) \subseteq Entries /\ waiting \subseteq Entries
      BY DEF ShapeInv, TypeOK, Moving
    <2>7. \A u \in Threads : /\ moving'[u].left \cap moving'[u].right = {}
                             /\ waiting' \cap Moving(u)' = {}
                             /\ entry'[u] \notin waiting'
      BY <1>2, <1>6, <2>3, <2>6 DEF Places, OnceInv
    <2>8. \A u, v \in Threads : /\ entry'[u] \notin Moving(v)'
                                /\ u # v => /\ Moving(u)' \cap Moving(v)' = {}
                                            /\ entry'[u] = entry'[v] => entry'[u] = NoEntry
      BY <1>2, <1>6, <2>3, <2>6 DEF Places, OnceInv
    <2>9. QED
      BY <2>2, <2>4, <2>5, <2>7, <2>8 DEF OnceInv
  <1>8. KeptInv'
    <2>1. SUFFICES ASSUME NEW d \in Entries
                   PROVE  \/ d \in waiting'
                          \/ \E u \in Threads : entry'[u] = d \/ d \in Moving(u)'
                          \/ \E m \in Nodes : d \in children'[m]
      BY DEF KeptInv
    <2>2. CASE d = e \/ \E m \in Nodes : d \in children[m]
      BY <1>2, <2>2
    <2>3. CASE d # e /\ ~ \E m \in Nodes : d \in children[m]
      BY <1>0, <1>2, <1>6, <2>3 DEF Places, KeptInv
    <2>4. QED
      BY <2>2, <2>3
  <1>9. QED
    BY <1>4, <1>5, <1>7, <1>8 DEF Places

LEMMA ExpandPastPlaces ==
  ASSUME ShapeInv, Places, NEW n \in Nodes, ExpandPast(n)
  PROVE  Places'
  <1>1. UNCHANGED <<hasPage, children, count, split, at, entry, moving, waiting>>
    BY DEF ExpandPast, nodeVars, threadVars
  <1>2. \A m \in expanding' : Hangs(m)
    <2>1. split[n] = "split" => Hangs(2 * n) /\ Hangs(2 * n + 1)
      BY HalfHangs DEF ShapeInv, DepthInv
    <2>2. QED
      BY <2>1 DEF ExpandPast, Places, TreeInv
  <1>3. TreeInv'
    BY <1>1, <1>2 DEF Places, TreeInv, Hangs
  <1>4. PageInv' /\ OnceInv' /\ KeptInv'
    BY <1>1 DEF Places, PageInv, OnceInv, KeptInv, Moving
  <1>5. QED
    BY <1>3, <1>4 DEF Places

LEMMA ExpandSplitPlaces ==
  ASSUME ShapeInv, Places, NEW n \in Nodes, ExpandSplit(n)
  PROVE  Places'
  <1>1. split[n] = "leaf" /\ MayHaveHalves(n) /\ n \in expanding /\ Hangs(n)
    BY DEF ExpandSplit, IsFull, Places, TreeInv
  <1>2. PICK share \in Shares(n) :
          /\ MakeHalves(n, share)
          /\ children' = [children EXCEPT ![n] = {}, ![2 * n] = share.left,
                                          ![2 * n + 1] = share.right]
          /\ count' = [EmptiedCount(n) EXCEPT ![2 * n] = Cardinality(share.left),
                                              ![2 * n + 1] = Cardinality(share.right)]
    BY DEF ExpandSplit
  <1> DEFINE left == share.left
             right == share.right
  <1>3. left \cup right = children[n] /\ left \cap right = {}
    BY <1>2, SharesFacts
  <1>4. /\ 2 * n \in Nodes /\ 2 * n + 1 \in Nodes /\ 2 * n # 2 * n + 1
        /\ 2 * n # n /\ 2 * n + 1 # n
    BY <1>1, HalvesFacts
  <1>5. children[2 * n] = {} /\ children[2 * n + 1] = {}
    BY <1>1, <1>4, HalfHangs DEF Places, TreeInv
  <1>6. /\ hasPage' = [hasPage EXCEPT ![2 * n] = left # {}, ![2 * n + 1] = right # {}]
        /\ split' = [split EXCEPT ![n] = "split"]
        /\ expanding' = (expanding \ {n}) \cup {2 * n, 2 * n + 1}
        /\ UNCHANGED <<at, entry, moving, waiting>>
    BY <1>2 DEF ExpandSplit, MakeHalves, threadVars
  <1> HIDE DEF left, right
  <1>7. /\ children'[n] = {} /\ children'[2 * n] = left /\ children'[2 * n + 1] = right
        /\ \A m \in Nodes \ {n, 2 * n, 2 * n + 1} : children'[m] = children[m]
    BY <1>2, <1>4 DEF ShapeInv, TypeOK, left, right
  <1>8. /\ hasPage'[2 * n] = (left # {}) /\ hasPage'[2 * n + 1] = (right # {})
        /\ \A m \in Nodes \ {2 * n, 2 * n + 1} : hasPage'[m] = hasPage[m]
    BY <1>4, <1>6 DEF ShapeInv, TypeOK
  <1>9. /\ count'[n] = 0
        /\ count'[2 * n] = Cardinality(left) /\ count'[2 * n + 1] = Cardinality(right)
        /\ \A m \in Nodes \ {n, 2 * n, 2 * n + 1} : count'[m] = count[m]
    BY <1>2, <1>4 DEF ShapeInv, TypeOK, EmptiedCount, left, right
  <1>10. /\ split'[n] = "split" /\ \A m \in Nodes \ {n} : split'[m] = split[m]
    BY <1>1, <1>6 DEF ShapeInv, TypeOK
  <1>11. TreeInv'
    <2>1. \A m \in Nodes : Hangs(m) => Hangs(m)'
      <3>1. \A m \in Nodes : m > 1 => m \div 2 \in Nodes
        BY NodeFacts
      <3>2. QED
        BY <1>1, <1>10, <3>1 DEF Hangs
    <2>2. /\ \A u \in Threads : at[u] \in Nodes
          /\ expanding \subseteq Nodes
      BY DEF ShapeInv, TypeOK
    <2>3. Hangs(2 * n)' /\ Hangs(2 * n + 1)'
      BY <1>1, <1>10, HalfHangsNext
    <2>4. \A m \in Nodes : children'[m] # {} \/ split'[m] # "leaf" => Hangs(m)'
      BY <1>1, <1>7, <1>10, <2>1, <2>3 DEF Places, TreeInv
    <2>5. \A m \in expanding' : Hangs(m)'
      BY <1>6, <2>1, <2>2, <2>3 DEF Places, TreeInv
    <2>6. QED
      BY <1>6, <2>1, <2>2, <2>4, <2>5 DEF Places, TreeInv
  <1>12. PageInv'
    BY <1>7, <1>8, <1>9, FS_EmptySet DEF Places, PageInv
  <1>13. \A u \in Threads : Moving(u)' = Moving(u)
    BY <1>6 DEF Moving
  <1>14. OnceInv'
    <2>1. \A m, k \in Nodes : m # k => children'[m] \cap children'[k] = {}
      BY <1>3, <1>4, <1>7 DEF Places, OnceInv
    <2>2. \A m \in Nodes : children'[m] \subseteq children[m] \cup children[n]
      BY <1>3, <1>7
    <2>3. /\ \A u \in Threads, m \in Nodes : /\ entry'[u] \notin children'[m]
                                             /\ Moving(u)' \cap children'[m] = {}
          /\ \A m \in Nodes : waiting' \cap children'[m] = {}
      BY <1>6, <1>13, <2>2 DEF Places, OnceInv
    <2>4. /\ \A u \in Threads : /\ moving'[u].left \cap moving'[u].right = {}
                                /\ waiting' \cap Moving(u)' = {}
                                /\ entry'[u] \notin waiting'
          /\ \A u, v \in Threads : /\ entry'[u] \notin Moving(v)'
                                   /\ u # v => /\ Moving(u)' \cap Moving(v)' = {}
                                               /\ entry'[u] = entry'[v] => entry'[u] = NoEntry
      BY <1>6, <1>13 DEF Places, OnceInv
    <2>5. QED
      BY <2>1, <2>3, <2>4 DEF OnceInv
  <1>15. KeptInv'
    <2>1. SUFFICES ASSUME NEW e \in Entries
                   PROVE  \/ e \in waiting'
                          \/ \E u \in Threads : entry'[u] = e \/ e \in Moving(u)'
                          \/ \E m \in Nodes : e \in children'[m]
      BY DEF KeptInv
    <2>2. CASE e \in left \/ e \in right
      BY <1>4, <1>7, <2>2
    <2>3. CASE \E m \in Nodes : e \in children[m]
      BY <1>3, <1>4, <1>5, <1>7, <2>3
    <2>4. CASE ~ \E m \in Nodes : e \in children[m]
      BY <1>6, <1>13, <2>4 DEF Places, KeptInv
    <2>5. QED
      BY <2>2, <2>3, <2>4
  <1>16. QED
    BY <1>11, <1>12, <1>14, <1>15 DEF Places

LEMMA AlonePlaces ==
  ASSUME ShapeInv, Places, Expand \/ Condense
  PROVE  Places'
  <1>1. UNCHANGED <<children, count, split, at, entry, moving, waiting>>
    BY DEF Expand, Condense, nodeVars, threadVars
  <1>2. /\ \A m \in expanding' : Hangs(m)
        /\ \A n \in Nodes : hasPage'[n] <=> hasPage[n] /\ (Condense => children[n] # {})
    BY RootHangs DEF Expand, Condense, AllIdle, nodeVars, Places, TreeInv, ShapeInv, TypeOK
  <1>3. TreeInv'
    BY <1>1, <1>2 DEF Places, TreeInv, Hangs
  <1>4. PageInv'
    BY <1>1, <1>2 DEF Places, PageInv
  <1>5. OnceInv' /\ KeptInv'
    BY <1>1 DEF Places, OnceInv, KeptInv, Moving
  <1>6. QED
    BY <1>3, <1>4, <1>5 DEF Places

(* What is read is what was there, if the root was written or needed not be. *)
LEMMA ReopenSame ==
  ASSUME ShapeInv, Places, Reopen, ~unsaved'
  PROVE  UNCHANGED <<hasPage, children, count, split, expanding, at, entry, moving, waiting>>
  <1>1. ~touched => savedRoot = RootNow
    BY DEF Reopen, ShapeInv
  <1>2. /\ hasPage' = hasPage /\ count' = count /\ split' = split
        /\ children' = [n \in Nodes |-> IF hasPage[n] THEN children[n] ELSE {}]
    BY <1>1 DEF Reopen, Reread, RootNow, ShapeInv
  <1>3. children' = children
    BY <1>2 DEF Places, PageInv, ShapeInv, TypeOK
  <1>4. QED
    BY <1>2, <1>3 DEF Reopen, threadVars

LEMMA SamePlaces ==
  ASSUME Places,
         UNCHANGED <<hasPage, children, count, split, expanding, at, entry, moving, waiting>>
  PROVE  Places'
  <1>1. TreeInv' /\ PageInv'
    BY DEF Places, TreeInv, PageInv, Hangs
  <1>2. OnceInv' /\ KeptInv'
    BY DEF Places, OnceInv, KeptInv, Moving
  <1>3. QED
    BY <1>1, <1>2 DEF Places

LEMMA NextPlaces == ShapeInv /\ PlaceInv /\ [Next]_vars => PlaceInv'
  <1>1. SUFFICES ASSUME ShapeInv, PlaceInv, [Next]_vars, ~unsaved' PROVE Places'
    BY DEF PlaceInv
  <1>2. CASE \E t \in Threads : Step(t)
    <2>1. ~unsaved
      BY <1>1, <1>2 DEF Step, Walk, TrySplit, AlreadySplit, TakeOut, Publish, Store, ghostVars
    <2>2. QED
      BY <1>1, <1>2, <2>1, WalkPlaces, TakeOutPlaces, PublishPlaces, StorePlaces
         DEF Step, PlaceInv
  <1>3. CASE \E t \in Threads, e \in Entries : Begin(t, e)
    <2>1. ~unsaved
      BY <1>1, <1>3 DEF Begin, ghostVars
    <2>2. QED
      BY <1>1, <1>3, <2>1, BeginPlaces DEF PlaceInv
  <1>4. CASE \E n \in Nodes : ExpandPast(n) \/ ExpandSplit(n)
    <2>1. ~unsaved
      BY <1>1, <1>4 DEF ExpandPast, ExpandSplit, ghostVars
    <2>2. QED
      BY <1>1, <1>4, <2>1, ExpandPastPlaces, ExpandSplitPlaces DEF PlaceInv
  <1>5. CASE Expand \/ Condense
    <2>1. ~unsaved
      BY <1>1, <1>5 DEF Expand, Condense
    <2>2. QED
      BY <1>1, <1>5, <2>1, AlonePlaces DEF PlaceInv
  <1>6. CASE Reopen
    <2>1. ~unsaved
      BY <1>1, <1>6 DEF Reopen
    <2>2. QED
      BY <1>1, <1>6, <2>1, ReopenSame, SamePlaces DEF PlaceInv
  <1>7. CASE UNCHANGED vars
    <2>1. ~unsaved
      BY <1>1, <1>7 DEF vars, ghostVars
    <2>2. UNCHANGED <<hasPage, children, count, split, expanding, at, entry, moving, waiting>>
      BY <1>7 DEF vars, nodeVars, rootVars, threadVars
    <2>3. QED
      BY <1>1, <2>1, <2>2, SamePlaces DEF PlaceInv
  <1>8. QED
    BY <1>1, <1>2, <1>3, <1>4, <1>5, <1>6, <1>7 DEF Next

LEMMA InitPlaces == Init => PlaceInv
  <1>1. SUFFICES ASSUME Init PROVE Places
    BY DEF PlaceInv
  <1>2. TreeInv
    BY <1>1, RootHangs DEF Init, TreeInv
  <1>3. PageInv
    BY <1>1, FS_EmptySet DEF Init, PageInv
  <1>4. OnceInv
    BY <1>1, SparseConstants DEF Init, OnceInv, Moving, Nothing
  <1>5. KeptInv
    BY <1>1 DEF Init, KeptInv
  <1>6. QED
    BY <1>2, <1>3, <1>4, <1>5 DEF Places

(* Each entry is in one place, and only nodes that hang in the tree have   *)
(* entries, whatever inserts, splits and openings of the file are mixed.   *)
THEOREM SparsePlaces == Spec => [](ShapeInv /\ PlaceInv)
  BY InitShape, NextShape, InitPlaces, NextPlaces, PTL DEF Spec

-----------------------------------------------------------------------------
(* What a reader finds. *)

LEMMA PlacesCount == PlaceInv => CountsMatch
  <1>1. SUFFICES ASSUME Places, NEW n \in Nodes PROVE count[n] = Cardinality(At(n))
    BY DEF PlaceInv, CountsMatch
  <1>2. At(n) = children[n]
    BY <1>1 DEF At, Places, PageInv
  <1>3. QED
    BY <1>1, <1>2 DEF Places, PageInv

(* The count that decides on a split is the page's length. *)
THEOREM SparseCountsMatch == Spec => []CountsMatch
  BY SparsePlaces, PlacesCount, PTL

(* A search comes to every node that hangs in the tree. *)
LEMMA VisitedHanging ==
  ASSUME ShapeInv, TreeInv, NEW n \in Nodes, Hangs(n)
  PROVE  Visited[n]
  <1> DEFINE Body(f, m) == m = 1 \/ /\ f[m \div 2] /\ split[m \div 2] = "split"
                                    /\ TouchesAll(SearchBox[m])
             hanging == [m \in Nodes |-> Hangs(m)]
  <1>1. \A m \in Nodes : split[m] = "split" => Hangs(m)
    BY DEF TreeInv
  <1>2. \A m \in Nodes : hanging[m] = Body(hanging, m)
    <2>1. SUFFICES ASSUME NEW m \in Nodes PROVE Hangs(m) <=> Body(hanging, m)
      BY DEF Hangs
    <2>2. CASE m = 1
      BY <2>2 DEF Hangs
    <2>3. CASE m # 1
      <3>1. m > 1 /\ m \div 2 \in Nodes
        BY <2>3, NodeFacts
      <3>2. hanging[m \div 2] <=> Hangs(m \div 2)
        BY <3>1
      <3>3. Hangs(m) <=> split[m \div 2] = "split"
        BY <3>1 DEF Hangs
      <3>4. QED
        BY <1>1, <2>3, <3>1, <3>2, <3>3, SearchBoxWide
    <2>4. QED
      BY <2>2, <2>3
  <1>3. hanging = [m \in Nodes |-> Body(hanging, m)]
    BY <1>2
  <1>4. Visited = [m \in Nodes |-> Body(Visited, m)]
    BY <1>3 DEF Visited
  <1> DEFINE Bad == {m \in Nodes : Hangs(m) /\ ~ Visited[m]}
  <1>5. Bad = {}
    <2>1. SUFFICES ASSUME Bad # {} PROVE FALSE
      OBVIOUS
    <2>2. PICK m \in Bad : \A k \in Bad : m <= k
      <3>1. Bad \subseteq Nat
        BY NodeFacts
      <3> HIDE DEF Bad
      <3>2. QED
        BY <2>1, <3>1, LeastNat
    <2>3. m \in Nodes /\ Hangs(m) /\ ~ Visited[m]
      BY <2>2
    <2>4. m # 1
      BY <1>4, <2>3
    <2>5. m > 1 /\ m \div 2 \in Nodes /\ m \div 2 < m /\ m \in Nat /\ m \div 2 \in Nat
      BY <2>3, <2>4, NodeFacts
    <2>6. split[m \div 2] = "split"
      BY <2>3, <2>5 DEF Hangs
    <2>7. Visited[m \div 2]
      <3>1. ~ (m <= m \div 2) /\ Hangs(m \div 2)
        BY <1>1, <2>5, <2>6
      <3>2. QED
        BY <2>2, <2>5, <3>1
    <2>8. Visited[m]
      BY <1>4, <2>3, <2>6, <2>7, SearchBoxWide
    <2>9. QED
      BY <2>3, <2>8
  <1>6. QED
    BY <1>5

LEMMA PlacesFound == ShapeInv /\ PlaceInv => SearchFindsOnce
  <1>1. SUFFICES ASSUME ShapeInv, Places, NEW e \in Inserted \ InSplit
                 PROVE  Cardinality({n \in Nodes : Visited[n] /\ e \in At(n)}) = 1
    BY DEF PlaceInv, SearchFindsOnce
  <1>2. /\ e \in Entries /\ e \notin waiting
        /\ \A t \in Threads : entry[t] # e /\ e \notin Moving(t)
    BY <1>1 DEF Inserted, InSplit, Moving
  <1>3. PICK n \in Nodes : e \in children[n]
    BY <1>1, <1>2 DEF Places, KeptInv
  <1>4. \A m \in Nodes : e \in children[m] => m = n
    BY <1>1, <1>3 DEF Places, OnceInv
  <1>5. \A m \in Nodes : At(m) = children[m]
    BY <1>1 DEF At, Places, PageInv
  <1>6. Visited[n]
    BY <1>1, <1>3, VisitedHanging DEF Places, TreeInv
  <1>7. {m \in Nodes : Visited[m] /\ e \in At(m)} = {n}
    BY <1>3, <1>4, <1>5, <1>6
  <1>8. QED
    BY <1>7, FS_Singleton

(* A search for everything finds each entry whose insert has returned once. *)
THEOREM SearchesFindOnce == Spec => []SearchFindsOnce
  BY SparsePlaces, PlacesFound, PTL

-----------------------------------------------------------------------------
(* The way of get. *)

LEMMA RootBelongs ==
  ASSUME NEW e \in Entries
  PROVE  Key[e] \in Nat /\ Belongs(Key[e], 1)
  <1>1. /\ HalvedBox[1] = RootBox /\ RootBox[1] \in Nat /\ RootBox[2] \in Nat
        /\ Key[e] \in RootBox[1] .. RootBox[2]
    BY HalvedBoxDef, NodeFacts, SparseConstants
  <1>2. QED
    BY <1>1 DEF Belongs

(* Which half a key belongs to, if the halves differ. *)
LEMMA BelongsToHalf ==
  ASSUME NEW n \in Nodes, MayHaveHalves(n), ~AtLimit(HalvedBox[n]), NEW k \in Nat
  PROVE  /\ HalvedBox[2 * n] = Left(HalvedBox[n])
         /\ HalvedBox[2 * n + 1] = Right(HalvedBox[n])
         /\ Belongs(k, 2 * n) <=> Belongs(k, n) /\ k <= Middle(HalvedBox[n])
         /\ Belongs(k, 2 * n + 1) <=> Belongs(k, n) /\ ~ (k <= Middle(HalvedBox[n]))
  <1> DEFINE b == HalvedBox[n]
  <1>1. /\ 2 * n \in Nodes /\ 2 * n + 1 \in Nodes /\ 2 * n # 1 /\ 2 * n + 1 # 1
        /\ (2 * n) \div 2 = n /\ (2 * n + 1) \div 2 = n
    BY HalvesFacts
  <1>2. (2 * n) % 2 = 0 /\ (2 * n + 1) % 2 # 0
    BY NodeFacts
  <1>3. HalvedBox[2 * n] = Left(b) /\ HalvedBox[2 * n + 1] = Right(b)
    BY <1>1, <1>2, HalvedBoxDef
  <1>4. /\ b \in Boxes /\ b[1] \in Nat /\ b[2] \in Nat /\ RootBox[1] <= b[1] /\ b[1] <= b[2]
        /\ RootBox[1] \in Nat
    BY HalvedBoxDef, HalvedBoxIn, SparseConstants
  <1>5. ~ AtLimit(b)
    OBVIOUS
  <1> HIDE DEF b
  <1>6. Middle(b) \in Nat /\ b[1] < Middle(b) /\ Middle(b) < b[2]
    BY <1>4, <1>5, HalvesOfBoxes
  <1>7. /\ Left(b)[1] = b[1] /\ Left(b)[2] = Middle(b)
        /\ Right(b)[1] = Middle(b) /\ Right(b)[2] = b[2]
    BY DEF Left, Right
  <1>8. Belongs(k, n) <=> b[1] <= k /\ k <= b[2] /\ (k = b[1] => k = RootBox[1])
    BY DEF Belongs, b
  <1>9. /\ Belongs(k, 2 * n) <=> b[1] <= k /\ k <= Middle(b) /\ (k = b[1] => k = RootBox[1])
        /\ Belongs(k, 2 * n + 1) <=> Middle(b) <= k /\ k <= b[2]
                                     /\ (k = Middle(b) => k = RootBox[1])
    BY <1>3, <1>7 DEF Belongs
  <1>10. /\ Belongs(k, 2 * n) <=> Belongs(k, n) /\ k <= Middle(b)
         /\ Belongs(k, 2 * n + 1) <=> Belongs(k, n) /\ ~ (k <= Middle(b))
    BY <1>4, <1>6, <1>8, <1>9
  <1>11. QED
    BY <1>3, <1>10 DEF b

(* The half that holds an entry's key is the one it belongs to. *)
LEMMA FitsLeft ==
  ASSUME NEW n \in Nodes, NEW e \in Entries, Belongs(Key[e], n)
  PROVE  Fits(e, Left(HalvedBox[n])) <=> Key[e] <= Middle(HalvedBox[n])
  BY DEF Belongs, Fits, Left

LEMMA BeginWay ==
  ASSUME ShapeInv, Way, NEW t \in Threads, NEW e \in Entries, Begin(t, e)
  PROVE  Way'
  <1>1. /\ at[t] = 1 /\ entry'[t] = e /\ \A u \in Threads \ {t} : entry'[u] = entry[u]
        /\ UNCHANGED <<children, split, box, at, moving>>
    BY DEF Begin, nodeVars, ShapeInv, HandInv, TypeOK
  <1>2. Belongs(Key[e], 1)
    BY RootBelongs
  <1>3. \A u \in Threads : entry'[u] # NoEntry => Belongs(Key[entry'[u]], at[u])
    BY <1>1, <1>2 DEF Way
  <1>4. QED
    BY <1>1, <1>3 DEF Way, Hangs

LEMMA WalkWay ==
  ASSUME ShapeInv, Way, NEW t \in Threads, Walk(t) \/ TrySplit(t) \/ AlreadySplit(t)
  PROVE  Way'
  <1>1. UNCHANGED <<children, split, box, entry, moving>> /\ pc[t] \in {"walk", "try", "split"}
    BY DEF Walk, TrySplit, AlreadySplit, nodeVars
  <1>2. /\ moving[t].left = {} /\ moving[t].right = {}
        /\ \A u \in Threads \ {t} : at'[u] = at[u]
    <2>1. moving[t].left = {} /\ moving[t].right = {}
      BY <1>1 DEF ShapeInv, HandInv
    <2>2. DOMAIN at = Threads
      BY DEF ShapeInv, TypeOK
    <2>3. at' = at \/ \E half : at' = [at EXCEPT ![t] = half]
      BY DEF Walk, TrySplit, AlreadySplit
    <2>4. QED
      BY <2>1, <2>2, <2>3
  <1>3. PICK n \in Nodes, e \in Entries : n = at[t] /\ e = entry[t]
    BY <1>1 DEF ShapeInv, TypeOK, HandInv
  <1>4. Belongs(Key[e], n) /\ e # NoEntry
    BY <1>3, SparseConstants DEF Way
  <1>5. Belongs(Key[e], at'[t])
    <2>1. CASE at' = at
      BY <1>3, <1>4, <2>1
    <2>2. CASE split[n] = "split" /\ Side(n, e) # 0 /\ at' = [at EXCEPT ![t] = Side(n, e)]
      <3>1. MayHaveHalves(n) /\ ~AtLimit(HalvedBox[n]) /\ Key[e] \in Nat
        BY <2>2, RootBelongs DEF ShapeInv, DepthInv, Way
      <3>2. Hangs(2 * n) /\ Hangs(2 * n + 1) /\ 2 * n \in Nodes /\ 2 * n + 1 \in Nodes
        BY <2>2, <3>1, HalfHangs, HalvesFacts
      <3>3. box[2 * n] = Left(HalvedBox[n])
        BY <3>1, <3>2, BelongsToHalf DEF Way
      <3>4. at'[t] = Side(n, e)
        BY <2>2 DEF ShapeInv, TypeOK
      <3>5. CASE Fits(e, box[2 * n])
        <4>1. Side(n, e) = 2 * n
          BY <3>5 DEF Side
        <4>2. Key[e] <= Middle(HalvedBox[n])
          BY <1>4, <3>3, <3>5, FitsLeft
        <4>3. QED
          BY <1>4, <3>1, <3>4, <4>1, <4>2, BelongsToHalf
      <3>6. CASE ~ Fits(e, box[2 * n])
        <4>1. Side(n, e) = 2 * n + 1
          BY <2>2, <3>6 DEF Side
        <4>2. ~ (Key[e] <= Middle(HalvedBox[n]))
          BY <1>4, <3>3, <3>6, FitsLeft
        <4>3. QED
          BY <1>4, <3>1, <3>4, <4>1, <4>2, BelongsToHalf
      <3>7. QED
        BY <3>5, <3>6
    <2>3. QED
      BY <1>3, <2>1, <2>2 DEF Walk, TrySplit, AlreadySplit
  <1>6. QED
    BY <1>1, <1>2, <1>3, <1>5 DEF Way, Hangs

(* Shares by the boxes of the halves give each half what belongs to it.    *)
LEMMA SharesBelong ==
  ASSUME ShapeInv, Way, NEW n \in Nodes, Hangs(n), MayHaveHalves(n), ~AtLimit(box[n]),
         NEW share \in Shares(n)
  PROVE  /\ ~AtLimit(HalvedBox[n])
         /\ \A e \in share.left : Belongs(Key[e], 2 * n)
         /\ \A e \in share.right : Belongs(Key[e], 2 * n + 1)
  <1>1. box[n] = HalvedBox[n]
    BY DEF Way
  <1>2. /\ share.left = {e \in children[n] : Fits(e, Left(HalvedBox[n]))}
        /\ share.right = children[n] \ share.left
    BY <1>1 DEF Shares
  <1>3. \A e \in children[n] : /\ e \in Entries /\ Key[e] \in Nat /\ Belongs(Key[e], n)
                               /\ e \in share.left <=> Key[e] <= Middle(HalvedBox[n])
    BY <1>2, RootBelongs, FitsLeft DEF Way, ShapeInv, TypeOK
  <1>4. QED
    BY <1>1, <1>2, <1>3, BelongsToHalf

LEMMA TakeOutWay ==
  ASSUME ShapeInv, Places, Way, NEW t \in Threads, TakeOut(t), ~rounded'
  PROVE  Way'
  <1>0. PICK n \in Nodes : n = at[t]
    BY DEF ShapeInv, TypeOK
  <1>1. split[n] = "leaf" /\ MayHaveHalves(n) /\ Hangs(n) /\ ~AtLimit(box[n])
    BY <1>0 DEF TakeOut, ShapeInv, DepthInv, Places, TreeInv
  <1>2. PICK share \in Shares(n) : moving' = [moving EXCEPT ![t] = share]
    BY <1>0 DEF TakeOut
  <1>3. /\ ~AtLimit(HalvedBox[n])
        /\ \A e \in share.left : Belongs(Key[e], 2 * n)
        /\ \A e \in share.right : Belongs(Key[e], 2 * n + 1)
    BY <1>1, SharesBelong
  <1>4. /\ children'[n] = {} /\ split'[n] = "splitting"
        /\ \A m \in Nodes \ {n} : children'[m] = children[m] /\ split'[m] = split[m]
        /\ moving'[t] = share /\ \A u \in Threads \ {t} : moving'[u] = moving[u]
        /\ UNCHANGED <<box, at, entry>>
    BY <1>0, <1>2 DEF TakeOut, ShapeInv, TypeOK
  <1>5. \A m \in Nodes : Hangs(m)' => Hangs(m)
    <2>1. \A m \in Nodes : m > 1 => m \div 2 \in Nodes
      BY NodeFacts
    <2>2. QED
      BY <1>4, <2>1 DEF Hangs
  <1>6. QED
    BY <1>0, <1>3, <1>4, <1>5 DEF Way

LEMMA PublishWay ==
  ASSUME ShapeInv, Places, Way, NEW t \in Threads, Publish(t)
  PROVE  Way'
  <1>0. PICK n \in Nodes : n = at[t]
    BY DEF ShapeInv, TypeOK
  <1>1. split[n] = "splitting" /\ MayHaveHalves(n) /\ Hangs(n)
    BY <1>0 DEF Publish, ShapeInv, DepthInv, HandInv, Places, TreeInv
  <1>2. /\ 2 * n \in Nodes /\ 2 * n + 1 \in Nodes /\ 2 * n # 2 * n + 1
        /\ 2 * n # n /\ 2 * n + 1 # n
    BY <1>1, HalvesFacts
  <1>3. ~AtLimit(HalvedBox[n]) /\ box[n] = HalvedBox[n] /\ children[n] = {}
    BY <1>1 DEF Way
  <1>4. split[2 * n] = "leaf" /\ split[2 * n + 1] = "leaf"
    BY <1>1, <1>2, HalfHangs DEF Places, TreeInv
  <1>5. /\ box' = [box EXCEPT ![2 * n] = Left(box[n]), ![2 * n + 1] = Right(box[n])]
        /\ children' = [children EXCEPT ![2 * n] = moving[t].left,
                                        ![2 * n + 1] = moving[t].right]
        /\ split' = [split EXCEPT ![n] = "split"]
        /\ moving' = [moving EXCEPT ![t] = Nothing]
        /\ UNCHANGED <<at, entry>>
    BY <1>0, <1>3 DEF Publish, MakeHalves, HalfBoxes
  <1>6. /\ box'[2 * n] = HalvedBox[2 * n] /\ box'[2 * n + 1] = HalvedBox[2 * n + 1]
        /\ \A m \in Nodes \ {2 * n, 2 * n + 1} : box'[m] = box[m]
    <2>1. HalvedBox[2 * n] = Left(HalvedBox[n]) /\ HalvedBox[2 * n + 1] = Right(HalvedBox[n])
      BY <1>1, <1>3, BelongsToHalf, NodeFacts
    <2>2. QED
      BY <1>2, <1>3, <1>5, <2>1 DEF ShapeInv, TypeOK
  <1>7. /\ children'[2 * n] = moving[t].left /\ children'[2 * n + 1] = moving[t].right
        /\ \A m \in Nodes \ {2 * n, 2 * n + 1} : children'[m] = children[m]
        /\ split'[n] = "split" /\ \A m \in Nodes \ {n} : split'[m] = split[m]
        /\ moving'[t].left = {} /\ moving'[t].right = {}
        /\ \A u \in Threads \ {t} : moving'[u] = moving[u]
    BY <1>2, <1>5 DEF ShapeInv, TypeOK, Nothing
  <1>8. \A m \in Nodes : Hangs(m)' => m \in {2 * n, 2 * n + 1} \/ Hangs(m)
    <2>1. \A m \in Nodes : m > 1 => m \div 2 \in Nodes
      BY NodeFacts
    <2>2. \A m \in Nodes : m > 1 /\ m \div 2 = n => m \in {2 * n, 2 * n + 1}
      BY HalfOfOne
    <2>3. QED
      BY <1>7, <2>1, <2>2 DEF Hangs
  <1>9. \A m \in Nodes : Hangs(m)' => box'[m] = HalvedBox[m]
    BY <1>6, <1>8 DEF Way
  <1>10. \A m \in Nodes : split'[m] # "leaf" => children'[m] = {} /\ ~AtLimit(HalvedBox[m])
    BY <1>2, <1>3, <1>4, <1>7 DEF Way
  <1>11. \A m \in Nodes : \A e \in children'[m] : Belongs(Key[e], m)
    BY <1>0, <1>7 DEF Way
  <1>12. \A u \in Threads : /\ entry'[u] # NoEntry => Belongs(Key[entry'[u]], at'[u])
                            /\ \A e \in moving'[u].left : Belongs(Key[e], 2 * at'[u])
                            /\ \A e \in moving'[u].right : Belongs(Key[e], 2 * at'[u] + 1)
    BY <1>5, <1>7 DEF Way
  <1>13. QED
    BY <1>9, <1>10, <1>11, <1>12 DEF Way

LEMMA StoreWay ==
  ASSUME ShapeInv, Way, NEW t \in Threads, Store(t), ~raced'
  PROVE  Way'
  <1>0. PICK n \in Nodes, e \in Entries : n = at[t] /\ e = entry[t]
    BY DEF ShapeInv, TypeOK, HandInv, Store
  <1>1. /\ split[n] = "leaf" /\ children'[n] = children[n] \cup {e}
        /\ \A m \in Nodes \ {n} : children'[m] = children[m]
        /\ at'[t] = 1 /\ entry'[t] = NoEntry /\ pc[t] = "store"
        /\ \A u \in Threads \ {t} : at'[u] = at[u] /\ entry'[u] = entry[u]
        /\ UNCHANGED <<split, box, moving>>
    BY <1>0 DEF Store, ShapeInv, TypeOK
  <1>2. Belongs(Key[e], n)
    BY <1>0, SparseConstants DEF Way
  <1>3. moving[t].left = {} /\ moving[t].right = {}
    BY <1>1 DEF ShapeInv, HandInv
  <1>4. QED
    BY <1>1, <1>2, <1>3 DEF Way, Hangs

LEMMA ExpandSplitWay ==
  ASSUME ShapeInv, Places, Way, NEW n \in Nodes, ExpandSplit(n), ~rounded'
  PROVE  Way'
  <1>1. split[n] = "leaf" /\ MayHaveHalves(n) /\ Hangs(n) /\ ~AtLimit(box[n])
    BY DEF ExpandSplit, IsFull, Places, TreeInv
  <1>2. PICK share \in Shares(n) :
          /\ MakeHalves(n, share)
          /\ children' = [children EXCEPT ![n] = {}, ![2 * n] = share.left,
                                          ![2 * n + 1] = share.right]
    BY DEF ExpandSplit
  <1>3. /\ ~AtLimit(HalvedBox[n])
        /\ \A e \in share.left : Belongs(Key[e], 2 * n)
        /\ \A e \in share.right : Belongs(Key[e], 2 * n + 1)
    BY <1>1, SharesBelong
  <1>4. /\ 2 * n \in Nodes /\ 2 * n + 1 \in Nodes /\ 2 * n # 2 * n + 1
        /\ 2 * n # n /\ 2 * n + 1 # n
    BY <1>1, HalvesFacts
  <1>5. split[2 * n] = "leaf" /\ split[2 * n + 1] = "leaf" /\ box[n] = HalvedBox[n]
    BY <1>1, <1>4, HalfHangs DEF Places, TreeInv, Way
  <1>6. /\ box' = [box EXCEPT ![2 * n] = Left(box[n]), ![2 * n + 1] = Right(box[n])]
        /\ split' = [split EXCEPT ![n] = "split"]
        /\ UNCHANGED <<at, entry, moving>>
    BY <1>1, <1>2 DEF ExpandSplit, MakeHalves, HalfBoxes, threadVars
  <1>7. /\ box'[2 * n] = HalvedBox[2 * n] /\ box'[2 * n + 1] = HalvedBox[2 * n + 1]
        /\ \A m \in Nodes \ {2 * n, 2 * n + 1} : box'[m] = box[m]
    <2>1. HalvedBox[2 * n] = Left(HalvedBox[n]) /\ HalvedBox[2 * n + 1] = Right(HalvedBox[n])
      BY <1>1, <1>3, BelongsToHalf, NodeFacts
    <2>2. QED
      BY <1>4, <1>5, <1>6, <2>1 DEF ShapeInv, TypeOK
  <1>8. /\ children'[n] = {}
        /\ children'[2 * n] = share.left /\ children'[2 * n + 1] = share.right
        /\ \A m \in Nodes \ {n, 2 * n, 2 * n + 1} : children'[m] = children[m]
        /\ split'[n] = "split" /\ \A m \in Nodes \ {n} : split'[m] = split[m]
    BY <1>2, <1>4, <1>6 DEF ShapeInv, TypeOK
  <1>9. \A m \in Nodes : Hangs(m)' => m \in {2 * n, 2 * n + 1} \/ Hangs(m)
    <2>1. \A m \in Nodes : m > 1 => m \div 2 \in Nodes
      BY NodeFacts
    <2>2. \A m \in Nodes : m > 1 /\ m \div 2 = n => m \in {2 * n, 2 * n + 1}
      BY HalfOfOne
    <2>3. QED
      BY <1>8, <2>1, <2>2 DEF Hangs
  <1>10. \A m \in Nodes : Hangs(m)' => box'[m] = HalvedBox[m]
    BY <1>7, <1>9 DEF Way
  <1>11. \A m \in Nodes : split'[m] # "leaf" => children'[m] = {} /\ ~AtLimit(HalvedBox[m])
    BY <1>3, <1>4, <1>5, <1>8 DEF Way
  <1>12. \A m \in Nodes : \A e \in children'[m] : Belongs(Key[e], m)
    BY <1>3, <1>8 DEF Way
  <1>13. QED
    BY <1>6, <1>10, <1>11, <1>12 DEF Way

LEMMA SameWay ==
  ASSUME Way, UNCHANGED <<children, split, at, entry, moving>>, box' = box \/ box' = HalvedBox
  PROVE  Way'
  BY DEF Way, Hangs

(* What a thread's step says of the histories: they only grow. *)
LEMMA GhostsGrow ==
  ASSUME ShapeInv, NEW t \in Threads, Step(t), ~unsaved', ~raced', ~rounded'
  PROVE  ~unsaved /\ ~raced /\ ~rounded
  <1>1. CASE TakeOut(t)
    <2>1. rounded' = (rounded \/ AtLimit(box[at[t]])) /\ raced' = raced /\ unsaved' = unsaved
      BY <1>1 DEF TakeOut
    <2>2. rounded \in BOOLEAN
      BY DEF ShapeInv, TypeOK
    <2>3. QED
      BY <2>1, <2>2, Zenon
  <1>2. CASE Store(t)
    <2>1. raced' = (raced \/ split[at[t]] # "leaf") /\ rounded' = rounded /\ unsaved' = unsaved
      BY <1>2 DEF Store
    <2>2. raced \in BOOLEAN
      BY DEF ShapeInv, TypeOK
    <2>3. QED
      BY <2>1, <2>2, Zenon
  <1>3. CASE Walk(t) \/ TrySplit(t) \/ AlreadySplit(t) \/ Publish(t)
    BY <1>3 DEF Walk, TrySplit, AlreadySplit, Publish, ghostVars
  <1>4. QED
    BY <1>1, <1>2, <1>3 DEF Step

LEMMA NextWay == ShapeInv /\ PlaceInv /\ WayInv /\ [Next]_vars => WayInv'
  <1>1. SUFFICES ASSUME ShapeInv, PlaceInv, WayInv, [Next]_vars,
                        ~unsaved', ~raced', ~rounded'
                 PROVE  Way'
    BY DEF WayInv
  <1>2. CASE \E t \in Threads : Step(t)
    <2>1. ~unsaved /\ ~raced /\ ~rounded
      BY <1>1, <1>2, GhostsGrow
    <2>2. QED
      BY <1>1, <1>2, <2>1, WalkWay, TakeOutWay, PublishWay, StoreWay
         DEF Step, PlaceInv, WayInv
  <1>3. CASE \E t \in Threads, e \in Entries : Begin(t, e)
    <2>1. ~unsaved /\ ~raced /\ ~rounded
      BY <1>1, <1>3 DEF Begin, ghostVars
    <2>2. QED
      BY <1>1, <1>3, <2>1, BeginWay DEF WayInv
  <1>4. CASE \E n \in Nodes : ExpandSplit(n)
    <2>1. ~unsaved /\ ~raced /\ ~rounded
      <3>1. PICK n \in Nodes : ExpandSplit(n)
        BY <1>4
      <3>2. rounded' = (rounded \/ AtLimit(box[n])) /\ raced' = raced /\ unsaved' = unsaved
        BY <3>1 DEF ExpandSplit
      <3>3. rounded \in BOOLEAN
        BY <1>1 DEF ShapeInv, TypeOK
      <3>4. QED
        BY <1>1, <3>2, <3>3, Zenon
    <2>2. QED
      BY <1>1, <1>4, <2>1, ExpandSplitWay DEF PlaceInv, WayInv
  <1>5. CASE (\E n \in Nodes : ExpandPast(n)) \/ Expand \/ Condense \/ UNCHANGED vars
    <2>1. /\ ~unsaved /\ ~raced /\ ~rounded
          /\ UNCHANGED <<children, split, box, at, entry, moving>>
      BY <1>1, <1>5 DEF ExpandPast, Expand, Condense, vars, nodeVars, threadVars, ghostVars
    <2>2. QED
      BY <1>1, <2>1, SameWay DEF WayInv
  <1>6. CASE Reopen
    <2>1. ~unsaved /\ ~raced /\ ~rounded /\ box' = HalvedBox
      BY <1>1, <1>6 DEF Reopen
    <2>2. QED
      BY <1>1, <1>6, <2>1, ReopenSame, SameWay DEF PlaceInv, WayInv
  <1>7. QED
    BY <1>1, <1>2, <1>3, <1>4, <1>5, <1>6 DEF Next

LEMMA InitWay == Init => WayInv
  <1>1. SUFFICES ASSUME Init PROVE Way
    BY DEF WayInv
  <1>2. \A n \in Nodes : Hangs(n) => n = 1
    <2>1. \A n \in Nodes : n > 1 => n \div 2 \in Nodes
      BY NodeFacts
    <2>2. \A n \in Nodes : split[n] = "leaf"
      BY <1>1 DEF Init
    <2>3. \A n \in Nodes : n > 1 \/ n = 1
      BY NodeFacts
    <2>4. QED
      BY <2>1, <2>2, <2>3 DEF Hangs
  <1>3. HalvedBox[1] = RootBox
    BY HalvedBoxDef, NodeFacts
  <1>4. QED
    BY <1>1, <1>2, <1>3 DEF Init, Way, Nothing

(* An entry is at the node its key belongs to: the side that an insert and *)
(* a split choose by the box is the one that a get chooses by the key.     *)
THEOREM SparseWay == Spec => [](ShapeInv /\ PlaceInv /\ WayInv)
  BY InitShape, NextShape, InitPlaces, NextPlaces, InitWay, NextWay, PTL DEF Spec

(* The equation of get's way down, at one node.                            *)
Downward(f, k, n) ==
    f[n] = IF split[n] # "split" THEN n
           ELSE IF k <= Middle(HalvedBox[n]) THEN f[2 * n] ELSE f[2 * n + 1]

(* It has a solution: the halves of a node come after it. *)
LEMMA WayExists ==
  ASSUME ShapeInv, NEW k \in Nat
  PROVE  \E f \in [Nodes -> Nodes] : \A n \in Nodes : Downward(f, k, n)
  <1> DEFINE Solves(f, j) == \A n \in Nodes : n + j > MaxNode => Downward(f, k, n)
             Bad == {j \in Nat : ~ \E f \in [Nodes -> Nodes] : Solves(f, j)}
  <1>1. Bad = {}
    <2>1. SUFFICES ASSUME Bad # {} PROVE FALSE
      OBVIOUS
    <2>2. PICK j \in Bad : \A i \in Bad : j <= i
      <3>1. Bad \subseteq Nat
        OBVIOUS
      <3> HIDE DEF Bad
      <3>2. QED
        BY <2>1, <3>1, LeastNat
    <2>3. j \in Nat /\ ~ \E f \in [Nodes -> Nodes] : Solves(f, j)
      BY <2>2
    <2>4. j # 0
      <3>1. SUFFICES ASSUME j = 0 PROVE FALSE
        OBVIOUS
      <3>2. [n \in Nodes |-> n] \in [Nodes -> Nodes]
        OBVIOUS
      <3>3. \A n \in Nodes : ~ (n + j > MaxNode)
        BY <3>1, NodeFacts
      <3>4. Solves([n \in Nodes |-> n], j)
        BY <3>3
      <3>5. QED
        BY <2>3, <3>2, <3>4
    <2>5. PICK f \in [Nodes -> Nodes] : Solves(f, j - 1)
      <3>1. j - 1 \in Nat /\ ~ (j <= j - 1)
        BY <2>3, <2>4
      <3>2. j - 1 \notin Bad
        BY <2>2, <3>1
      <3>3. QED
        BY <3>1, <3>2
    <2>6. CASE \A m \in Nodes : m + j # MaxNode + 1
      <3>1. \A n \in Nodes : n + j > MaxNode => n + (j - 1) > MaxNode
        BY <2>3, <2>6, NodeFacts
      <3>2. Solves(f, j)
        BY <2>5, <3>1
      <3>3. QED
        BY <2>3, <3>2
    <2>7. ASSUME NEW m \in Nodes, m + j = MaxNode + 1 PROVE FALSE
      <3> DEFINE v == IF split[m] # "split" THEN m
                      ELSE IF k <= Middle(HalvedBox[m]) THEN f[2 * m] ELSE f[2 * m + 1]
                 g == [f EXCEPT ![m] = v]
      <3>1. \A n \in Nodes : split[n] = "split" =>
                /\ 2 * n \in Nodes /\ 2 * n + 1 \in Nodes
                /\ 2 * n > n /\ 2 * n + 1 > n
        BY HalvesFacts, NodeFacts DEF ShapeInv, DepthInv
      <3>2. v \in Nodes
        BY <3>1
      <3> HIDE DEF v
      <3>3. g \in [Nodes -> Nodes] /\ g[m] = v /\ \A n \in Nodes \ {m} : g[n] = f[n]
        BY <3>2
      <3> HIDE DEF g
      <3>4. \A n \in Nodes : n + j > MaxNode => n = m \/ (n > m /\ n + (j - 1) > MaxNode)
        BY <2>3, <2>7, NodeFacts
      <3>5. \A n \in Nodes : n >= m /\ split[n] = "split" =>
                g[2 * n] = f[2 * n] /\ g[2 * n + 1] = f[2 * n + 1]
        <4>1. \A n \in Nodes : n >= m /\ split[n] = "split" => 2 * n # m /\ 2 * n + 1 # m
          BY <3>1, NodeFacts
        <4>2. QED
          BY <3>1, <3>3, <4>1
      <3>6. Downward(g, k, m)
        <4>1. m >= m
          BY NodeFacts
        <4>2. QED
          BY <3>3, <3>5, <4>1 DEF Downward, v
      <3>7. ASSUME NEW n \in Nodes, n > m, n + (j - 1) > MaxNode PROVE Downward(g, k, n)
        <4>1. Downward(f, k, n)
          BY <2>5, <3>7
        <4>2. n # m /\ n >= m
          BY <3>7, NodeFacts
        <4>3. QED
          BY <3>3, <3>5, <4>1, <4>2 DEF Downward
      <3>8. Solves(g, j)
        BY <3>4, <3>6, <3>7
      <3>9. QED
        BY <2>3, <3>3, <3>8
    <2>8. QED
      BY <2>6, <2>7
  <1>2. MaxNode \notin Bad
    BY <1>1
  <1>3. PICK f \in [Nodes -> Nodes] : Solves(f, MaxNode)
    BY <1>2, NodeFacts
  <1>4. \A n \in Nodes : n + MaxNode > MaxNode
    BY NodeFacts
  <1>5. QED
    BY <1>3, <1>4

(* get ends where a solution has it end. *)
LEMMA WayTaken ==
  ASSUME ShapeInv, NEW k \in Nat
  PROVE  \E f : (\A n \in Nodes : Downward(f, k, n)) /\ LeafFor(k) = f[1]
  <1> DEFINE Body(f, n) == IF split[n] # "split" THEN n
                           ELSE IF k <= Middle(HalvedBox[n]) THEN f[2 * n] ELSE f[2 * n + 1]
             d == CHOOSE f : f = [n \in Nodes |-> Body(f, n)]
  <1>1. PICK f \in [Nodes -> Nodes] : \A n \in Nodes : Downward(f, k, n)
    BY WayExists
  <1>2. f = [n \in Nodes |-> Body(f, n)]
    BY <1>1 DEF Downward
  <1>3. d = [n \in Nodes |-> Body(d, n)]
    BY <1>2
  <1>4. LeafFor(k) = d[1]
    BY DEF LeafFor
  <1> HIDE DEF d
  <1>5. \A n \in Nodes : Downward(d, k, n)
    BY <1>3 DEF Downward
  <1>6. QED
    BY <1>4, <1>5

(* The way down to the node of an entry is the one along which its key     *)
(* belongs.                                                                *)
LEMMA WayLeads ==
  ASSUME ShapeInv, TreeInv, Way, NEW n \in Nodes, NEW e \in Entries, e \in children[n]
  PROVE  LeafFor(Key[e]) = n
  <1>1. PICK k \in Nat : k = Key[e]
    BY RootBelongs
  <1>2. PICK f : (\A m \in Nodes : Downward(f, k, m)) /\ LeafFor(k) = f[1]
    BY WayTaken
  <1> DEFINE T == {m \in Nodes : Hangs(m) /\ Belongs(k, m) /\ f[m] = n}
  <1>3. n \in T
    <2>1. Hangs(n) /\ Belongs(k, n) /\ split[n] # "split"
      BY <1>1 DEF TreeInv, Way
    <2>2. f[n] = n
      BY <1>2, <2>1 DEF Downward
    <2>3. QED
      BY <2>1, <2>2
  <1>4. PICK m \in T : \A q \in T : m <= q
    <2>1. T \subseteq Nat /\ T # {}
      BY <1>3, NodeFacts
    <2> HIDE DEF T
    <2>2. QED
      BY <2>1, LeastNat
  <1>5. m \in Nodes /\ Hangs(m) /\ Belongs(k, m) /\ f[m] = n
    BY <1>4
  <1>6. CASE m = 1
    BY <1>1, <1>2, <1>5, <1>6
  <1>7. CASE m # 1
    <2>1. PICK p \in Nodes : p = m \div 2 /\ p < m /\ m \in {2 * p, 2 * p + 1}
      BY <1>5, <1>7, NodeFacts
    <2>2. split[p] = "split"
      BY <1>5, <1>7, <2>1, NodeFacts DEF Hangs
    <2>3. Hangs(p) /\ MayHaveHalves(p) /\ ~AtLimit(HalvedBox[p])
      BY <2>2 DEF TreeInv, Way, ShapeInv, DepthInv
    <2>4. /\ Belongs(k, 2 * p) <=> Belongs(k, p) /\ k <= Middle(HalvedBox[p])
          /\ Belongs(k, 2 * p + 1) <=> Belongs(k, p) /\ ~ (k <= Middle(HalvedBox[p]))
      BY <2>3, BelongsToHalf
    <2>5. Belongs(k, p) /\ f[p] = f[m]
      BY <1>2, <1>5, <2>1, <2>2, <2>4 DEF Downward
    <2>6. p \in T /\ ~ (m <= p)
      BY <1>5, <2>1, <2>3, <2>5, NodeFacts
    <2>7. QED
      BY <1>4, <2>6
  <1>8. QED
    BY <1>6, <1>7

LEMMA WayFinds == ShapeInv /\ PlaceInv /\ WayInv => GetFinds
  <1>1. SUFFICES ASSUME ShapeInv, Places, Way, NEW e \in Inserted \ InSplit
                 PROVE  FoundByGet(e)
    BY DEF PlaceInv, WayInv, GetFinds
  <1>2. /\ e \in Entries /\ e \notin waiting
        /\ \A t \in Threads : entry[t] # e /\ e \notin Moving(t)
    BY <1>1 DEF Inserted, InSplit, Moving
  <1>3. PICK n \in Nodes : e \in children[n]
    BY <1>1, <1>2 DEF Places, KeptInv
  <1>4. LeafFor(Key[e]) = n
    BY <1>1, <1>2, <1>3, WayLeads DEF Places
  <1>5. e \in At(n)
    BY <1>1, <1>3 DEF At, Places, PageInv
  <1>6. QED
    BY <1>4, <1>5 DEF FoundByGet

(* get finds every key whose insert has returned, unless an entry was      *)
(* stored in a node split meanwhile or a box was split by count.           *)
THEOREM GetsFind == Spec => []GetFinds
  BY SparseWay, WayFinds, PTL
=============================================================================
