-------------------------- MODULE DenseTreeProofs --------------------------
(***************************************************************************)
(* Theorems about DenseTree, for every set of threads and entries and      *)
(* every choice of boxes.                                                  *)
(*                                                                         *)
(* The argument has layers, each an invariant that uses those before it.   *)
(*                                                                         *)
(*   WhereInv  only one node uses a page, and the page and its copy in the *)
(*             file have nothing from outside of that node's box;          *)
(*   OnceInv   an entry is waiting, in the hands of one thread or in one   *)
(*             page;                                                       *)
(*   LockInv   who has which lock, and that nobody is at a half before its *)
(*             node is split;                                              *)
(*   LiveInv   counts are those of pages, a leaf has room for the threads  *)
(*             that are at it, and no entry is lost;                       *)
(*   GetInv    (one thread) an entry is at the node where its way down     *)
(*             ends, and in the file at one where it ended.                *)
(***************************************************************************)
EXTENDS DenseTree, FiniteSetTheorems, NaturalsInduction, WellFoundedInduction,
        TLAPS

-----------------------------------------------------------------------------
(* The invariant. *)

(* A node uses a page: it has it now, has it in the file, or a thread that *)
(* is at the node got it there.                                            *)
Uses(p, n) == \/ pageId[n] = p
              \/ fileNodes[n].pageId = p
              \/ \E t \in Threads : page[t] = p /\ at[t] = n

(* Only one node ever uses a page. *)
OwnInv == \A p \in PageIds, m, n \in Nodes : Uses(p, m) /\ Uses(p, n) => m = n

(* What is in a page, and in its copy in the file, lies in the node's box. *)
BoxInv == \A p \in PageIds, n \in Nodes :
            Uses(p, n) => children[p] \cup filePages[p] \subseteq Within[n]

(* A page that was not created yet is empty and used nowhere. *)
FreshInv == \A p \in PageIds : p > pages =>
              /\ \A n \in Nodes : ~Uses(p, n)
              /\ children[p] = {} /\ filePages[p] = {}

(* A node that is split, or about to be, has halves. *)
DepthInv ==
    /\ \A n \in Nodes : split[n] # "leaf" => 2 * n < MaxNode
    /\ \A n \in Nodes : fileNodes[n].split # "leaf" => 2 * n < MaxNode
    /\ \A t \in Threads : pc[t] \in {"split", "lock", "part", "giveBack", "publish"}
                            => 2 * at[t] < MaxNode

(* What a thread has in its hands when. *)
HandInv == \A t \in Threads :
    /\ pc[t] = "idle" => entry[t] = NoEntry /\ at[t] = 1
    /\ pc[t] # "idle" => entry[t] \in Within[at[t]]
    /\ page[t] # NoPage <=> pc[t] \in {"lock", "part", "giveBack", "publish", "push"}
    /\ IF pc[t] \in {"giveBack", "publish"}
       THEN /\ moving[t].left \subseteq Within[2 * at[t]]
            /\ moving[t].right \subseteq Within[2 * at[t] + 1]
       ELSE moving[t].left = {} /\ moving[t].right = {}

PlaceInv == OwnInv /\ BoxInv /\ FreshInv

WhereInv == TypeOK /\ PlaceInv /\ DepthInv /\ HandInv

(* An entry is waiting, held by one thread, or in one page; the copy of a  *)
(* page in the file counts until the page is changed.                      *)
OnceInv ==
    /\ \A p \in PageIds : children[p] \subseteq WrittenBack(p)
    /\ \A p, q \in PageIds : p # q => WrittenBack(p) \cap WrittenBack(q) = {}
    /\ \A t \in Threads, p \in PageIds : Held(t) \cap WrittenBack(p) = {}
    /\ \A t \in Threads : /\ moving[t].left \cap moving[t].right = {}
                          /\ entry[t] \notin moving[t].left \cup moving[t].right
    /\ \A t, u \in Threads : t # u => Held(t) \cap Held(u) \subseteq {NoEntry}
    /\ \A p \in PageIds : waiting \cap WrittenBack(p) = {}
    /\ \A t \in Threads : waiting \cap Held(t) = {}

-----------------------------------------------------------------------------
(* Facts about the constants, and steps that bring no new use of a page. *)

(* The halves of a node that may be split are nodes, in its box. *)
LEMMA HalvesInside ==
    ASSUME NEW n \in Nodes, 2 * n < MaxNode
    PROVE  /\ 2 * n \in Nodes /\ 2 * n + 1 \in Nodes
           /\ Within[n] \subseteq Entries
           /\ Within[2 * n] \subseteq Within[n]
           /\ Within[2 * n + 1] \subseteq Within[n]
  <1>1. /\ 2 * n \in Nodes /\ 2 * n + 1 \in Nodes
    BY DenseConstants DEF Nodes
  <1>2. Within[2 * n] \cup Within[2 * n + 1] \subseteq Within[n]
    BY DenseConstants DEF Nodes
  <1>3. Within[n] \subseteq Entries
    BY DenseConstants DEF Nodes
  <1> QED BY <1>1, <1>2, <1>3

(* A set of entries has a size. *)
LEMMA EntriesCounted ==
    ASSUME NEW s \in SUBSET Entries
    PROVE  Cardinality(s) \in Nat
  BY DenseConstants, FS_Subset, FS_CardinalityType

(* A step that makes no new use of a page, and puts nothing in a page that *)
(* was not in it or in its copy in the file.                               *)
LEMMA NoNewUse ==
    ASSUME PlaceInv, pages' = pages,
           \A p \in PageIds, n \in Nodes : Uses(p, n)' => Uses(p, n),
           \A p \in PageIds : children'[p] \cup filePages'[p]
                                \subseteq children[p] \cup filePages[p]
    PROVE  PlaceInv'
  <1>1. OwnInv'
    BY DEF PlaceInv, OwnInv
  <1>2. BoxInv'
    BY DEF PlaceInv, BoxInv
  <1>3. FreshInv'
    <2> SUFFICES ASSUME NEW p \in PageIds, p > pages
                 PROVE  /\ \A n \in Nodes : ~Uses(p, n)'
                        /\ children'[p] = {} /\ filePages'[p] = {}
      BY DEF FreshInv
    <2>1. /\ \A n \in Nodes : ~Uses(p, n)
          /\ children[p] = {} /\ filePages[p] = {}
      BY DEF PlaceInv, FreshInv
    <2> QED BY <2>1
  <1> QED BY <1>1, <1>2, <1>3 DEF PlaceInv

-----------------------------------------------------------------------------
(* The invariant at the start. *)

LEMMA InitWhere == Init => WhereInv /\ OnceInv
  <1> SUFFICES ASSUME Init PROVE WhereInv /\ OnceInv
    OBVIOUS
  <1> USE DEF Init
  <1>1. TypeOK
    <2>1. /\ pageId \in [Nodes -> PageIds \cup {NoPage}]
          /\ count \in [Nodes -> Nat]
          /\ split \in [Nodes -> {"leaf", "splitting", "split"}]
          /\ reading \in [Nodes -> SUBSET Threads]
      OBVIOUS
    <2>2. /\ children \in [PageIds -> SUBSET Entries]
          /\ holder \in [PageIds -> Threads \cup {Nobody}]
          /\ pages \in 0 .. MaxPages /\ pagesDirty \subseteq PageIds
          /\ filePages \in [PageIds -> SUBSET Entries]
      BY DenseConstants
    <2>3. fileNodes \in [Nodes -> [pageId : PageIds \cup {NoPage}, count : Nat,
                                   split : {"leaf", "splitting", "split"}]]
      OBVIOUS
    <2>4. /\ pc \in [Threads -> Labels] /\ at \in [Threads -> Nodes]
          /\ entry \in [Threads -> Entries \cup {NoEntry}]
          /\ page \in [Threads -> PageIds \cup {NoPage}]
      BY DenseConstants DEF Labels, Nodes
    <2>5. moving \in [Threads -> [left : SUBSET Entries, right : SUBSET Entries]]
      OBVIOUS
    <2>6. reopens \in 0 .. MaxReopens
      BY DenseConstants
    <2> QED BY <2>1, <2>2, <2>3, <2>4, <2>5, <2>6 DEF TypeOK
  <1>2. \A p \in PageIds, n \in Nodes : ~Uses(p, n)
    BY DEF Uses, PageIds, NoPage
  <1>3. PlaceInv
    BY <1>2 DEF PlaceInv, OwnInv, BoxInv, FreshInv
  <1>4. DepthInv
    BY DEF DepthInv
  <1>5. HandInv
    BY DEF HandInv
  <1>6. OnceInv
    <2>1. \A p \in PageIds : children[p] = {} /\ WrittenBack(p) = {}
      BY DEF WrittenBack
    <2>2. \A t \in Threads : Held(t) = {NoEntry}
      BY DEF Held
    <2>3. waiting \cap {NoEntry} = {}
      BY DenseConstants
    <2> QED BY <2>1, <2>2, <2>3 DEF OnceInv
  <1> QED BY <1>1, <1>3, <1>4, <1>5, <1>6 DEF WhereInv

-----------------------------------------------------------------------------
(* The walk down. *)

LEMMA BeginWhere ==
    ASSUME WhereInv, NEW t \in Threads, NEW e \in Entries, Begin(t, e)
    PROVE  WhereInv'
  <1> USE DEF Begin, Goto, nodeVars, pageVars, fileVars, ghostVars
  <1>1. TypeOK'
    BY DEF WhereInv, TypeOK, Labels
  <1>2. PlaceInv'
    BY NoNewUse DEF WhereInv, Uses
  <1>3. DepthInv'
    BY DEF WhereInv, TypeOK, DepthInv
  <1>4. HandInv'
    <2>1. /\ pc[t] = "idle" /\ at' = at /\ at[t] = 1 /\ e \in Within[1]
          /\ e \in Entries /\ NoEntry \notin Entries
      BY DenseConstants DEF WhereInv, HandInv
    <2> QED BY <2>1 DEF WhereInv, TypeOK, HandInv
  <1> QED BY <1>1, <1>2, <1>3, <1>4 DEF WhereInv

LEMMA DescendWhere ==
    ASSUME WhereInv, NEW t \in Threads, Descend(t)
    PROVE  WhereInv'
  <1> USE DEF Descend, Goto, nodeVars, pageVars, fileVars, ghostVars
  <1> DEFINE half == Side(at[t], entry[t])
  <1>1. CASE at' = [at EXCEPT ![t] = half] /\ split[at[t]] = "split" /\ half # 0
    <2>1. pc[t] = "descend" /\ pc' = pc /\ page[t] = NoPage /\ at[t] \in Nodes
      BY <1>1 DEF WhereInv, TypeOK, HandInv
    <2>2. half \in Nodes /\ entry[t] \in Within[half]
      BY <1>1, <2>1, HalvesInside DEF WhereInv, DepthInv, Side
    <2>3. TypeOK'
      BY <1>1, <2>1, <2>2 DEF WhereInv, TypeOK
    <2>4. PlaceInv'
      BY <1>1, <2>1, NoNewUse DEF WhereInv, TypeOK, Uses, NoPage, PageIds
    <2>5. DepthInv'
      BY <1>1, <2>1 DEF WhereInv, TypeOK, DepthInv
    <2>6. HandInv'
      BY <1>1, <2>1, <2>2 DEF WhereInv, TypeOK, HandInv
    <2> QED BY <2>3, <2>4, <2>5, <2>6 DEF WhereInv
  <1>2. CASE /\ at' = at
             /\ \/ split[at[t]] # "split" /\ pc' = [pc EXCEPT ![t] = "len"]
                \/ pc' = [pc EXCEPT ![t] = "store"]
    <2>1. TypeOK'
      BY <1>2 DEF WhereInv, TypeOK, Labels
    <2>2. PlaceInv'
      BY <1>2, NoNewUse DEF WhereInv, Uses
    <2>3. DepthInv'
      BY <1>2 DEF WhereInv, TypeOK, DepthInv
    <2>4. HandInv'
      BY <1>2 DEF WhereInv, TypeOK, HandInv
    <2> QED BY <2>1, <2>2, <2>3, <2>4 DEF WhereInv
  <1> QED BY <1>1, <1>2

LEMMA TrySplitWhere ==
    ASSUME WhereInv, NEW t \in Threads, TrySplit(t)
    PROVE  WhereInv'
  <1> USE DEF TrySplit, Goto, nodeVars, pageVars, fileVars, ghostVars
  <1>1. TypeOK'
    BY DEF WhereInv, TypeOK, Labels
  <1>2. PlaceInv'
    BY NoNewUse DEF WhereInv, Uses
  <1>3. DepthInv'
    BY DEF WhereInv, TypeOK, DepthInv
  <1>4. HandInv'
    BY DEF WhereInv, TypeOK, HandInv
  <1> QED BY <1>1, <1>2, <1>3, <1>4 DEF WhereInv

-----------------------------------------------------------------------------
(* The split. *)

LEMMA AlreadySplitWhere ==
    ASSUME WhereInv, NEW t \in Threads, AlreadySplit(t)
    PROVE  WhereInv'
  <1> USE DEF AlreadySplit, Goto, nodeVars, pageVars, fileVars, ghostVars
  <1>1. TypeOK'
    BY DEF WhereInv, TypeOK, Labels
  <1>2. PlaceInv'
    BY NoNewUse DEF WhereInv, Uses
  <1>3. DepthInv'
    BY DEF WhereInv, TypeOK, DepthInv
  <1>4. HandInv'
    BY DEF WhereInv, TypeOK, HandInv
  <1> QED BY <1>1, <1>2, <1>3, <1>4 DEF WhereInv

LEMMA BeginSplitWhere ==
    ASSUME WhereInv, NEW t \in Threads, BeginSplit(t)
    PROVE  WhereInv'
  <1> USE DEF BeginSplit, Goto, nodeVars, pageVars, fileVars, ghostVars
  <1>1. TypeOK'
    <2>1. at[t] \in Nodes /\ pageId[at[t]] \in PageIds \cup {NoPage}
      BY DEF WhereInv, TypeOK
    <2>2. split' \in [Nodes -> {"leaf", "splitting", "split"}]
      BY <2>1 DEF WhereInv, TypeOK
    <2>3. reading' \in [Nodes -> SUBSET Threads]
      BY <2>1 DEF WhereInv, TypeOK
    <2>4. page' \in [Threads -> PageIds \cup {NoPage}]
      BY <2>1 DEF WhereInv, TypeOK
    <2>5. pc' \in [Threads -> Labels]
      BY DEF WhereInv, TypeOK, Labels
    <2> QED BY <2>2, <2>3, <2>4, <2>5 DEF WhereInv, TypeOK
  <1>2. PlaceInv'
    <2>1. \A p \in PageIds, n \in Nodes : Uses(p, n)' => Uses(p, n)
      BY DEF WhereInv, TypeOK, Uses
    <2> QED BY <2>1, NoNewUse DEF WhereInv
  <1>3. DepthInv'
    BY DEF WhereInv, TypeOK, DepthInv
  <1>4. HandInv'
    BY DEF WhereInv, TypeOK, HandInv
  <1> QED BY <1>1, <1>2, <1>3, <1>4 DEF WhereInv

LEMMA LockPageWhere ==
    ASSUME WhereInv, NEW t \in Threads, LockPage(t)
    PROVE  WhereInv'
  <1> USE DEF LockPage, Goto, nodeVars, pageVars, fileVars, ghostVars
  <1>1. TypeOK'
    BY DEF WhereInv, TypeOK, Labels
  <1>2. PlaceInv'
    BY NoNewUse DEF WhereInv, Uses
  <1>3. DepthInv'
    BY DEF WhereInv, TypeOK, DepthInv
  <1>4. HandInv'
    BY DEF WhereInv, TypeOK, HandInv
  <1> QED BY <1>1, <1>2, <1>3, <1>4 DEF WhereInv

(* What Share returns: three disjoint parts, each half in its box. *)
LEMMA Shared ==
    ASSUME NEW n, NEW s
    PROVE  LET share == Share(n, s)
           IN /\ share.left \subseteq s \cap Within[2 * n]
              /\ share.right \subseteq s \cap Within[2 * n + 1]
              /\ share.stay \subseteq s
              /\ share.left \cap share.right = {}
              /\ share.left \cap share.stay = {}
              /\ share.right \cap share.stay = {}
  BY DEF Share

LEMMA PartitionWhere ==
    ASSUME WhereInv, NEW t \in Threads, Partition(t)
    PROVE  WhereInv'
  <1> USE DEF Partition, Goto, nodeVars, pageVars, fileVars, ghostVars
  <1> DEFINE share == Share(at[t], children[page[t]])
  <1>1. /\ pc[t] = "part" /\ at[t] \in Nodes /\ page[t] \in PageIds
        /\ children[page[t]] \in SUBSET Entries
    BY DEF WhereInv, TypeOK, HandInv
  <1>2. /\ moving' = [moving EXCEPT ![t] = [left |-> share.left, right |-> share.right]]
        /\ children' = [children EXCEPT ![page[t]] = share.stay]
        /\ count' = [count EXCEPT ![at[t]] = Cardinality(share.stay)]
        /\ pagesDirty' = pagesDirty \cup {page[t]}
        /\ pc' = [pc EXCEPT ![t] = IF share.stay = {} THEN "giveBack" ELSE "publish"]
    BY DEF Recount
  <1>3. /\ share.left \subseteq children[page[t]] \cap Within[2 * at[t]]
        /\ share.right \subseteq children[page[t]] \cap Within[2 * at[t] + 1]
        /\ share.stay \subseteq children[page[t]]
    BY Shared
  <1> HIDE DEF share
  <1>4. TypeOK'
    <2>1. moving' \in [Threads -> [left : SUBSET Entries, right : SUBSET Entries]]
      BY <1>1, <1>2, <1>3 DEF WhereInv, TypeOK
    <2>2. children' \in [PageIds -> SUBSET Entries]
      BY <1>1, <1>2, <1>3 DEF WhereInv, TypeOK
    <2>3. count' \in [Nodes -> Nat]
      BY <1>1, <1>2, <1>3, EntriesCounted DEF WhereInv, TypeOK
    <2>4. pagesDirty' \subseteq PageIds /\ pc' \in [Threads -> Labels]
      BY <1>1, <1>2 DEF WhereInv, TypeOK, Labels
    <2> QED BY <2>1, <2>2, <2>3, <2>4 DEF WhereInv, TypeOK
  <1>5. PlaceInv'
    <2>1. \A p \in PageIds : children'[p] \subseteq children[p]
      BY <1>1, <1>2, <1>3 DEF WhereInv, TypeOK
    <2> QED BY <2>1, NoNewUse DEF WhereInv, Uses
  <1>6. DepthInv'
    BY <1>1, <1>2 DEF WhereInv, TypeOK, DepthInv
  <1>7. HandInv'
    BY <1>1, <1>2, <1>3 DEF WhereInv, TypeOK, HandInv
  <1> QED BY <1>4, <1>5, <1>6, <1>7 DEF WhereInv

LEMMA GiveBackWhere ==
    ASSUME WhereInv, NEW t \in Threads, GiveBack(t)
    PROVE  WhereInv'
  <1> USE DEF GiveBack, Goto, nodeVars, pageVars, fileVars, ghostVars
  <1>1. TypeOK'
    BY DEF WhereInv, TypeOK, Labels
  <1>2. PlaceInv'
    <2>1. \A p \in PageIds, n \in Nodes : Uses(p, n)' => Uses(p, n)
      BY DEF WhereInv, TypeOK, Uses, NoPage, PageIds
    <2> QED BY <2>1, NoNewUse DEF WhereInv
  <1>3. DepthInv'
    BY DEF WhereInv, TypeOK, DepthInv
  <1>4. HandInv'
    BY DEF WhereInv, TypeOK, HandInv
  <1> QED BY <1>1, <1>2, <1>3, <1>4 DEF WhereInv

LEMMA PublishWhere ==
    ASSUME WhereInv, NEW t \in Threads, Publish(t)
    PROVE  WhereInv'
  <1> DEFINE n == at[t]
             left == moving[t].left
             right == moving[t].right
             l == HalfPage(left, pages + 1)
             r == HalfPage(right, IF left = {} THEN pages + 1 ELSE pages + 2)
             new == {l, r} \ {NoPage}
  <1>1. /\ pc[t] = "publish" /\ n \in Nodes /\ page[t] \in PageIds
        /\ 2 * n < MaxNode
        /\ left \in SUBSET Entries /\ right \in SUBSET Entries
        /\ left \subseteq Within[2 * n] /\ right \subseteq Within[2 * n + 1]
        /\ pages \in 0 .. MaxPages
    BY DEF Publish, WhereInv, TypeOK, HandInv, DepthInv
  <1>2. 2 * n \in Nodes /\ 2 * n + 1 \in Nodes /\ 2 * n # 2 * n + 1
    BY <1>1, HalvesInside DEF Nodes
  <1>3. /\ l = (IF left = {} THEN NoPage ELSE pages + 1)
        /\ r = (IF right = {} THEN NoPage
                ELSE IF left = {} THEN pages + 1 ELSE pages + 2)
        /\ new = {l, r} \ {NoPage}
    BY DEF HalfPage
  <1>4. /\ new \subseteq PageIds
        /\ pageId' = [pageId EXCEPT ![2 * n] = l, ![2 * n + 1] = r]
        /\ count' = [count EXCEPT ![2 * n] = Cardinality(left),
                                  ![2 * n + 1] = Cardinality(right)]
        /\ children' = [p \in PageIds |-> IF p = l THEN left
                                          ELSE IF p = r THEN right
                                          ELSE children[p]]
        /\ pages' = pages + Cardinality(new)
        /\ pagesDirty' = pagesDirty \cup new
        /\ split' = [split EXCEPT ![n] = "split"]
        /\ holder' = [holder EXCEPT ![page[t]] = Nobody]
        /\ moving' = [moving EXCEPT ![t] = [left |-> {}, right |-> {}]]
        /\ page' = [page EXCEPT ![t] = NoPage]
        /\ pc' = [pc EXCEPT ![t] = "descend"]
        /\ UNCHANGED <<reading, fileVars, at, entry, waiting, ghostVars>>
    BY DEF Publish, Goto
  <1> HIDE DEF n, left, right, l, r, new
  <1>5. pages' \in pages .. MaxPages /\ \A p \in new : p > pages /\ p <= pages'
    <2>1. CASE left = {} /\ right = {}
      <3>1. new = {}
        BY <1>3, <2>1
      <3>2. Cardinality(new) = 0
        BY <3>1, FS_EmptySet
      <3> QED BY <1>1, <1>4, <3>1, <3>2
    <2>2. CASE (left = {}) # (right = {})
      <3>1. new = {pages + 1}
        BY <1>1, <1>3, <2>2 DEF NoPage
      <3>2. Cardinality(new) = 1
        BY <3>1, FS_Singleton
      <3> QED BY <1>1, <1>4, <3>1, <3>2 DEF PageIds
    <2>3. CASE left # {} /\ right # {}
      <3>1. new = {pages + 1, pages + 2} /\ pages + 1 # pages + 2
        BY <1>1, <1>3, <2>3 DEF NoPage
      <3>2. Cardinality({pages + 1}) = 1 /\ IsFiniteSet({pages + 1})
        BY FS_Singleton
      <3>3. new = {pages + 1} \cup {pages + 2} /\ pages + 2 \notin {pages + 1}
        BY <1>1, <3>1
      <3>4. Cardinality(new) = Cardinality({pages + 1}) + 1
        BY <3>2, <3>3, FS_AddElement
      <3>5. Cardinality(new) = 2
        BY <3>2, <3>4
      <3> QED BY <1>1, <1>4, <3>1, <3>5 DEF PageIds
    <2> QED BY <2>1, <2>2, <2>3
  <1>6. l \in PageIds \cup {NoPage} /\ r \in PageIds \cup {NoPage}
    BY <1>3, <1>4
  <1>7. TypeOK'
    <2>1. pageId' \in [Nodes -> PageIds \cup {NoPage}]
      BY <1>4, <1>6 DEF WhereInv, TypeOK
    <2>2. count' \in [Nodes -> Nat]
      BY <1>1, <1>4, EntriesCounted DEF WhereInv, TypeOK
    <2>3. children' \in [PageIds -> SUBSET Entries]
      BY <1>1, <1>4 DEF WhereInv, TypeOK
    <2>4. pages' \in 0 .. MaxPages
      BY <1>1, <1>5
    <2>5. pagesDirty' \subseteq PageIds
      BY <1>4 DEF WhereInv, TypeOK
    <2>6. split' \in [Nodes -> {"leaf", "splitting", "split"}]
      BY <1>4 DEF WhereInv, TypeOK
    <2>7. holder' \in [PageIds -> Threads \cup {Nobody}]
      BY <1>4 DEF WhereInv, TypeOK
    <2>8. moving' \in [Threads -> [left : SUBSET Entries, right : SUBSET Entries]]
      BY <1>4 DEF WhereInv, TypeOK
    <2>9. page' \in [Threads -> PageIds \cup {NoPage}] /\ pc' \in [Threads -> Labels]
      BY <1>4 DEF WhereInv, TypeOK, Labels
    <2> QED BY <1>4, <2>1, <2>2, <2>3, <2>4, <2>5, <2>6, <2>7, <2>8, <2>9
            DEF WhereInv, TypeOK, fileVars, ghostVars
  <1>8. ASSUME NEW p \in PageIds, NEW m \in Nodes, Uses(p, m)'
        PROVE  \/ Uses(p, m) /\ p \notin new
               \/ p > pages /\ p \in new /\ p = l /\ m = 2 * n
               \/ p > pages /\ p \in new /\ p = r /\ m = 2 * n + 1
    <2>1. p \in new => p > pages /\ ~Uses(p, m)
      BY <1>5 DEF WhereInv, PlaceInv, FreshInv
    <2>2. p = l \/ p = r => p \in new
      BY <1>1, <1>3 DEF NoPage, PageIds
    <2>3. CASE pageId'[m] = p
      BY <1>2, <1>4, <2>1, <2>2, <2>3 DEF WhereInv, TypeOK, Uses
    <2>4. CASE fileNodes'[m].pageId = p \/ \E u \in Threads : page'[u] = p /\ at'[u] = m
      <3>1. Uses(p, m)
        BY <1>4, <2>4 DEF WhereInv, TypeOK, Uses, fileVars, NoPage, PageIds
      <3> QED BY <2>1, <3>1
    <2> QED BY <1>8, <2>3, <2>4 DEF Uses
  <1>9. l = r => l = NoPage
    BY <1>1, <1>3 DEF NoPage
  <1>10. PlaceInv'
    <2>1. OwnInv'
      <3> SUFFICES ASSUME NEW p \in PageIds, NEW k \in Nodes, NEW m \in Nodes,
                          Uses(p, k)', Uses(p, m)'
                   PROVE  k = m
        BY DEF OwnInv
      <3>1. CASE p \notin new
        BY <1>8, <3>1 DEF WhereInv, PlaceInv, OwnInv
      <3>2. CASE p \in new
        BY <1>3, <1>8, <1>9, <3>2
      <3> QED BY <3>1, <3>2
    <2>2. BoxInv'
      <3> SUFFICES ASSUME NEW p \in PageIds, NEW m \in Nodes, Uses(p, m)'
                   PROVE  children'[p] \cup filePages'[p] \subseteq Within[m]
        BY DEF BoxInv
      <3>1. CASE p \notin new
        <4>1. Uses(p, m) /\ p # l /\ p # r
          BY <1>1, <1>3, <1>8, <3>1 DEF NoPage, PageIds
        <4> QED BY <1>4, <4>1 DEF WhereInv, PlaceInv, BoxInv, fileVars
      <3>2. CASE p \in new
        <4>1. filePages'[p] = {}
          BY <1>4, <1>5, <3>2 DEF WhereInv, PlaceInv, FreshInv, fileVars
        <4>2. (p = l /\ m = 2 * n) \/ (p = r /\ p # l /\ m = 2 * n + 1)
          BY <1>3, <1>8, <1>9, <3>2
        <4> QED BY <1>1, <1>4, <4>1, <4>2
      <3> QED BY <3>1, <3>2
    <2>3. FreshInv'
      <3> SUFFICES ASSUME NEW p \in PageIds, p > pages'
                   PROVE  /\ \A m \in Nodes : ~Uses(p, m)'
                          /\ children'[p] = {} /\ filePages'[p] = {}
        BY DEF FreshInv
      <3>1. p > pages /\ p \notin new
        BY <1>1, <1>5 DEF PageIds
      <3>2. p # l /\ p # r
        BY <1>3, <3>1 DEF NoPage, PageIds
      <3>3. (\A m \in Nodes : ~Uses(p, m)) /\ children[p] = {} /\ filePages[p] = {}
        BY <3>1 DEF WhereInv, PlaceInv, FreshInv
      <3> QED BY <1>4, <1>8, <3>1, <3>2, <3>3 DEF fileVars
    <2> QED BY <2>1, <2>2, <2>3 DEF PlaceInv
  <1>11. DepthInv'
    BY <1>1, <1>4 DEF WhereInv, TypeOK, DepthInv, fileVars
  <1>12. HandInv'
    BY <1>1, <1>4 DEF WhereInv, TypeOK, HandInv, NoPage, PageIds
  <1> QED BY <1>7, <1>10, <1>11, <1>12 DEF WhereInv

-----------------------------------------------------------------------------
(* Storing. *)

LEMMA StoreWhere ==
    ASSUME WhereInv, NEW t \in Threads, Store(t)
    PROVE  WhereInv'
  <1>1. /\ pc[t] = "store" /\ at[t] \in Nodes
        /\ UNCHANGED <<pageId, count, split, pageVars, fileVars, at, entry,
                       moving, waiting, ghostVars>>
    BY DEF Store, WhereInv, TypeOK
  <1> USE DEF Goto, pageVars, fileVars, ghostVars
  <1>2. CASE /\ UNCHANGED <<reading, page>>
             /\ pc' = [pc EXCEPT ![t] = "new"]
    <2>1. TypeOK'
      BY <1>1, <1>2 DEF WhereInv, TypeOK, Labels
    <2>2. PlaceInv'
      BY <1>1, <1>2, NoNewUse DEF WhereInv, Uses
    <2>3. DepthInv'
      BY <1>1, <1>2 DEF WhereInv, TypeOK, DepthInv
    <2>4. HandInv'
      BY <1>1, <1>2 DEF WhereInv, TypeOK, HandInv
    <2> QED BY <2>1, <2>2, <2>3, <2>4 DEF WhereInv
  <1>3. CASE /\ pageId[at[t]] # NoPage
             /\ reading' = [reading EXCEPT ![at[t]] = @ \cup {t}]
             /\ page' = [page EXCEPT ![t] = pageId[at[t]]]
             /\ pc' = [pc EXCEPT ![t] = "push"]
    <2>1. TypeOK'
      <3>1. reading' \in [Nodes -> SUBSET Threads]
        BY <1>1, <1>3 DEF WhereInv, TypeOK
      <3>2. page' \in [Threads -> PageIds \cup {NoPage}]
        BY <1>1, <1>3 DEF WhereInv, TypeOK
      <3>3. pc' \in [Threads -> Labels]
        BY <1>3 DEF WhereInv, TypeOK, Labels
      <3> QED BY <1>1, <3>1, <3>2, <3>3 DEF WhereInv, TypeOK
    <2>2. PlaceInv'
      <3>1. \A p \in PageIds, n \in Nodes : Uses(p, n)' => Uses(p, n)
        BY <1>1, <1>3 DEF WhereInv, TypeOK, Uses
      <3> QED BY <1>1, <3>1, NoNewUse DEF WhereInv
    <2>3. DepthInv'
      BY <1>1, <1>3 DEF WhereInv, TypeOK, DepthInv
    <2>4. HandInv'
      BY <1>1, <1>3 DEF WhereInv, TypeOK, HandInv
    <2> QED BY <2>1, <2>2, <2>3, <2>4 DEF WhereInv
  <1> QED BY <1>2, <1>3 DEF Store

LEMMA PushWhere ==
    ASSUME WhereInv, NEW t \in Threads, Push(t)
    PROVE  WhereInv'
  <1> USE DEF Push, Return, Goto, nodeVars, pageVars, fileVars, ghostVars
  <1>1. /\ pc[t] = "push" /\ at[t] \in Nodes /\ page[t] \in PageIds
        /\ entry[t] \in Within[at[t]] /\ entry[t] \in Entries
    <2>1. pc[t] = "push" /\ at[t] \in Nodes /\ page[t] \in PageIds
      BY DEF WhereInv, TypeOK, HandInv
    <2>2. entry[t] \in Within[at[t]]
      BY <2>1 DEF WhereInv, HandInv
    <2> QED BY <2>1, <2>2, DenseConstants DEF Nodes
  <1>2. TypeOK'
    <2>1. count' \in [Nodes -> Nat]
      BY <1>1 DEF WhereInv, TypeOK, Increment
    <2>2. children' \in [PageIds -> SUBSET Entries]
      BY <1>1 DEF WhereInv, TypeOK
    <2>3. at' \in [Threads -> Nodes]
      BY DenseConstants DEF WhereInv, TypeOK, Nodes
    <2> QED BY <1>1, <2>1, <2>2, <2>3 DEF WhereInv, TypeOK, Labels
  <1>3. PlaceInv'
    <2>1. \A p \in PageIds, n \in Nodes : Uses(p, n)' => Uses(p, n)
      BY DEF WhereInv, TypeOK, Uses, NoPage, PageIds
    <2>2. Uses(page[t], at[t])
      BY DEF Uses
    <2>3. children' = [children EXCEPT ![page[t]] = @ \cup {entry[t]}]
      OBVIOUS
    <2>4. OwnInv'
      BY <2>1 DEF WhereInv, PlaceInv, OwnInv
    <2>5. BoxInv'
      <3> SUFFICES ASSUME NEW p \in PageIds, NEW n \in Nodes, Uses(p, n)'
                   PROVE  children'[p] \cup filePages'[p] \subseteq Within[n]
        BY DEF BoxInv
      <3>1. Uses(p, n) /\ children[p] \cup filePages[p] \subseteq Within[n]
        BY <2>1 DEF WhereInv, PlaceInv, BoxInv
      <3>2. p = page[t] => n = at[t]
        BY <1>1, <2>2, <3>1 DEF WhereInv, PlaceInv, OwnInv
      <3> QED BY <1>1, <2>3, <3>1, <3>2 DEF WhereInv, TypeOK
    <2>6. FreshInv'
      <3> SUFFICES ASSUME NEW p \in PageIds, p > pages
                   PROVE  /\ \A n \in Nodes : ~Uses(p, n)'
                          /\ children'[p] = {} /\ filePages'[p] = {}
        BY DEF FreshInv
      <3>1. (\A n \in Nodes : ~Uses(p, n)) /\ children[p] = {} /\ filePages[p] = {}
        BY DEF WhereInv, PlaceInv, FreshInv
      <3>2. p # page[t]
        BY <1>1, <2>2, <3>1
      <3> QED BY <2>1, <2>3, <3>1, <3>2 DEF WhereInv, TypeOK
    <2> QED BY <2>4, <2>5, <2>6 DEF PlaceInv
  <1>4. DepthInv'
    BY <1>1 DEF WhereInv, TypeOK, DepthInv
  <1>5. HandInv'
    BY <1>1 DEF WhereInv, TypeOK, HandInv
  <1> QED BY <1>2, <1>3, <1>4, <1>5 DEF WhereInv

LEMMA PushToNewPageWhere ==
    ASSUME WhereInv, NEW t \in Threads, PushToNewPage(t)
    PROVE  WhereInv'
  <1> USE DEF PushToNewPage, Return, Goto, nodeVars, pageVars, ghostVars
  <1> DEFINE q == pages + 1
  <1>1. /\ pc[t] = "new" /\ at[t] \in Nodes /\ page[t] = NoPage
        /\ pages \in 0 .. MaxPages /\ q \in PageIds /\ q > pages
        /\ entry[t] \in Within[at[t]] /\ entry[t] \in Entries
    <2>1. /\ pc[t] = "new" /\ at[t] \in Nodes /\ page[t] = NoPage
          /\ pages \in 0 .. MaxPages /\ q \in PageIds
      BY DEF WhereInv, TypeOK, HandInv
    <2>2. entry[t] \in Within[at[t]]
      BY <2>1 DEF WhereInv, HandInv
    <2> QED BY <2>1, <2>2, DenseConstants DEF Nodes
  <1>2. TypeOK'
    <2>1. count' \in [Nodes -> Nat]
      BY <1>1 DEF WhereInv, TypeOK
    <2>2. children' \in [PageIds -> SUBSET Entries]
      BY <1>1 DEF WhereInv, TypeOK
    <2>3. at' \in [Threads -> Nodes]
      BY DenseConstants DEF WhereInv, TypeOK, Nodes
    <2>4. pages' \in 0 .. MaxPages
      BY <1>1 DEF PageIds
    <2>5. overwrote' \in BOOLEAN /\ structureDirty' \in BOOLEAN
      BY DEF WhereInv, TypeOK
    <2> QED BY <1>1, <2>1, <2>2, <2>3, <2>4, <2>5 DEF WhereInv, TypeOK, Labels
  <1>3. PlaceInv'
    <2>1. /\ \A n \in Nodes : ~Uses(q, n)
          /\ children[q] = {} /\ filePages[q] = {}
      BY <1>1 DEF WhereInv, PlaceInv, FreshInv
    <2>2. ASSUME NEW p \in PageIds, NEW n \in Nodes, Uses(p, n)'
          PROVE  IF p = q THEN n = at[t] ELSE Uses(p, n)
      <3>1. CASE pageId'[n] = p
        BY <1>1, <2>1, <3>1 DEF WhereInv, TypeOK, Uses
      <3>2. CASE fileNodes'[n].pageId = p \/ \E u \in Threads : page'[u] = p /\ at'[u] = n
        <4>1. Uses(p, n)
          BY <1>1, <3>2 DEF WhereInv, TypeOK, Uses, NoPage, PageIds
        <4> QED BY <2>1, <4>1
      <3> QED BY <2>2, <3>1, <3>2 DEF Uses
    <2>3. children' = [children EXCEPT ![q] = {entry[t]}] /\ filePages' = filePages
      OBVIOUS
    <2> HIDE DEF q
    <2>4. OwnInv'
      <3> SUFFICES ASSUME NEW p \in PageIds, NEW k \in Nodes, NEW m \in Nodes,
                          Uses(p, k)', Uses(p, m)'
                   PROVE  k = m
        BY DEF OwnInv
      <3> QED BY <2>2 DEF WhereInv, PlaceInv, OwnInv
    <2>5. BoxInv'
      <3> SUFFICES ASSUME NEW p \in PageIds, NEW n \in Nodes, Uses(p, n)'
                   PROVE  children'[p] \cup filePages'[p] \subseteq Within[n]
        BY DEF BoxInv
      <3>1. CASE p = q
        BY <1>1, <2>1, <2>2, <2>3, <3>1 DEF WhereInv, TypeOK
      <3>2. CASE p # q
        BY <2>2, <2>3, <3>2 DEF WhereInv, TypeOK, PlaceInv, BoxInv
      <3> QED BY <3>1, <3>2
    <2>6. FreshInv'
      <3> SUFFICES ASSUME NEW p \in PageIds, p > pages'
                   PROVE  /\ \A n \in Nodes : ~Uses(p, n)'
                          /\ children'[p] = {} /\ filePages'[p] = {}
        BY DEF FreshInv
      <3>1. p > pages /\ p # q
        BY <1>1 DEF PageIds, q
      <3>2. (\A n \in Nodes : ~Uses(p, n)) /\ children[p] = {} /\ filePages[p] = {}
        BY <3>1 DEF WhereInv, PlaceInv, FreshInv
      <3> QED BY <2>2, <2>3, <3>1, <3>2 DEF WhereInv, TypeOK
    <2> QED BY <2>4, <2>5, <2>6 DEF PlaceInv
  <1>4. DepthInv'
    BY <1>1 DEF WhereInv, TypeOK, DepthInv
  <1>5. HandInv'
    BY <1>1 DEF WhereInv, TypeOK, HandInv
  <1> QED BY <1>2, <1>3, <1>4, <1>5 DEF WhereInv

-----------------------------------------------------------------------------
(* The files. *)

LEMMA FlushWhere ==
    ASSUME WhereInv, Flush
    PROVE  WhereInv'
  <1> USE DEF Flush, nodeVars, threadVars, ghostVars
  <1>1. TypeOK'
    <2>1. NodesNow \in [Nodes -> [pageId : PageIds \cup {NoPage}, count : Nat,
                                  split : {"leaf", "splitting", "split"}]]
      BY DEF WhereInv, TypeOK, NodesNow
    <2>2. fileNodes' \in [Nodes -> [pageId : PageIds \cup {NoPage}, count : Nat,
                                    split : {"leaf", "splitting", "split"}]]
      BY <2>1 DEF WhereInv, TypeOK
    <2>3. filePages' \in [PageIds -> SUBSET Entries]
      BY DEF WhereInv, TypeOK, WrittenBack
    <2> QED BY <2>2, <2>3 DEF WhereInv, TypeOK
  <1>2. \A n \in Nodes : NodesNow[n].pageId = pageId[n] /\ NodesNow[n].split = split[n]
    BY DEF NodesNow
  <1>3. PlaceInv'
    <2>1. \A p \in PageIds, n \in Nodes : Uses(p, n)' => Uses(p, n)
      BY <1>2 DEF Uses
    <2>2. \A p \in PageIds : children'[p] \cup filePages'[p]
                             \subseteq children[p] \cup filePages[p]
      BY DEF WrittenBack
    <2> QED BY <2>1, <2>2, NoNewUse DEF WhereInv
  <1>4. DepthInv'
    BY <1>2 DEF WhereInv, DepthInv
  <1>5. HandInv'
    BY DEF WhereInv, HandInv
  <1> QED BY <1>1, <1>3, <1>4, <1>5 DEF WhereInv

LEMMA ReopenWhere ==
    ASSUME WhereInv, Reopen
    PROVE  WhereInv'
  <1> USE DEF Reopen, threadVars
  <1>1. TypeOK'
    <2>1. /\ pageId' \in [Nodes -> PageIds \cup {NoPage}]
          /\ count' \in [Nodes -> Nat]
          /\ split' \in [Nodes -> {"leaf", "splitting", "split"}]
      BY DEF WhereInv, TypeOK
    <2>2. children' \in [PageIds -> SUBSET Entries]
      BY DEF WhereInv, TypeOK, FirstOf
    <2>3. reopens' \in 0 .. MaxReopens
      BY DenseConstants DEF WhereInv, TypeOK
    <2>4. stale' \in BOOLEAN
      BY DEF WhereInv, TypeOK
    <2> QED BY <2>1, <2>2, <2>3, <2>4 DEF WhereInv, TypeOK
  <1>2. PlaceInv'
    <2>1. \A p \in PageIds, n \in Nodes : Uses(p, n)' => Uses(p, n)
      BY DEF Uses
    <2>2. \A p \in PageIds : children'[p] \cup filePages'[p]
                             \subseteq children[p] \cup filePages[p]
      BY DEF FirstOf
    <2> QED BY <2>1, <2>2, NoNewUse DEF WhereInv
  <1>3. DepthInv'
    BY DEF WhereInv, DepthInv
  <1>4. HandInv'
    BY DEF WhereInv, HandInv
  <1> QED BY <1>1, <1>2, <1>3, <1>4 DEF WhereInv

LEMMA NextWhere == WhereInv /\ [Next]_vars => WhereInv'
  <1> SUFFICES ASSUME WhereInv, [Next]_vars PROVE WhereInv'
    OBVIOUS
  <1>1. CASE \E t \in Threads : Step(t)
    <2> PICK t \in Threads : Step(t)
      BY <1>1
    <2> QED BY DescendWhere, TrySplitWhere, AlreadySplitWhere, BeginSplitWhere,
               LockPageWhere, PartitionWhere, GiveBackWhere, PublishWhere,
               StoreWhere, PushWhere, PushToNewPageWhere DEF Step, Split
  <1>2. CASE \E t \in Threads, e \in Entries : Begin(t, e)
    BY <1>2, BeginWhere
  <1>3. CASE Flush
    BY <1>3, FlushWhere
  <1>4. CASE Reopen
    BY <1>4, ReopenWhere
  <1>5. CASE UNCHANGED vars
    <2> USE <1>5 DEF vars, nodeVars, pageVars, fileVars, threadVars, ghostVars
    <2>1. TypeOK'
      BY DEF WhereInv, TypeOK
    <2>2. PlaceInv'
      BY NoNewUse DEF WhereInv, Uses
    <2>3. DepthInv'
      BY DEF WhereInv, DepthInv
    <2>4. HandInv'
      BY DEF WhereInv, HandInv
    <2> QED BY <2>1, <2>2, <2>3, <2>4 DEF WhereInv
  <1> QED BY <1>1, <1>2, <1>3, <1>4, <1>5 DEF Next

-----------------------------------------------------------------------------
LEMMA WhereImpliesInItsBox == WhereInv => InItsBox
  <1> SUFFICES ASSUME WhereInv PROVE InItsBox
    OBVIOUS
  <1>1. ASSUME NEW m \in Nodes, NEW n \in Nodes, m # n, pageId[m] # NoPage
        PROVE  pageId[m] # pageId[n]
    BY <1>1 DEF WhereInv, TypeOK, PlaceInv, OwnInv, Uses
  <1>2. ASSUME NEW n \in Nodes
        PROVE  At(n) \subseteq Within[n]
    BY DEF WhereInv, TypeOK, PlaceInv, BoxInv, Uses, At
  <1> QED BY <1>1, <1>2 DEF InItsBox

(* Every page id, node id and count in the state of the tree, in its files *)
(* and in the hands of the inserting threads is one that exists, whatever  *)
(* boxes the tree is given.                                                *)
THEOREM DenseTypeCorrect == Spec => []TypeOK
  <1>1. WhereInv => TypeOK
    BY DEF WhereInv
  <1> QED BY <1>1, InitWhere, NextWhere, PTL DEF Spec

(* However many threads insert, split and store at once, no page is shared *)
(* by two nodes and every entry is in a node whose box holds it.           *)
THEOREM EntriesInTheirBox == Spec => []InItsBox
  <1> QED BY WhereImpliesInItsBox, InitWhere, NextWhere, PTL DEF Spec

-----------------------------------------------------------------------------
(* An entry is in one place. *)

LEMMA KeptAreEntries ==
    ASSUME WhereInv
    PROVE  /\ NoEntry \notin Entries
           /\ \A p \in PageIds : WrittenBack(p) \subseteq Entries
           /\ waiting \subseteq Entries
           /\ \A t \in Threads : moving[t].left \cup moving[t].right \subseteq Entries
  BY DenseConstants DEF WhereInv, TypeOK, WrittenBack

(* A step in which no entry changes hands. *)
LEMMA NothingMoves ==
    ASSUME OnceInv, UNCHANGED <<entry, moving, waiting>>,
           \A p \in PageIds : /\ children'[p] \subseteq WrittenBack(p)'
                              /\ WrittenBack(p)' \subseteq WrittenBack(p)
    PROVE  OnceInv'
  <1>1. \A t \in Threads : Held(t)' = Held(t)
    BY DEF Held
  <1> QED BY <1>1 DEF OnceInv

LEMMA PagesStay ==
    ASSUME OnceInv, UNCHANGED <<entry, moving, waiting, children, filePages, pagesDirty>>
    PROVE  OnceInv'
  <1>1. \A p \in PageIds : /\ children'[p] \subseteq WrittenBack(p)'
                           /\ WrittenBack(p)' \subseteq WrittenBack(p)
    BY DEF OnceInv, WrittenBack
  <1> QED BY <1>1, NothingMoves

LEMMA BeginOnce ==
    ASSUME WhereInv, OnceInv, NEW t \in Threads, NEW e \in Entries, Begin(t, e)
    PROVE  OnceInv'
  <1>1. /\ e \in waiting /\ waiting' = waiting \ {e} /\ moving' = moving
        /\ entry' = [entry EXCEPT ![t] = e]
        /\ UNCHANGED <<children, filePages, pagesDirty>>
    BY DEF Begin, pageVars, fileVars
  <1>2. moving[t].left = {} /\ moving[t].right = {}
    BY DEF Begin, WhereInv, HandInv
  <1>3. \A u \in Threads : Held(u)' = IF u = t THEN {e} ELSE Held(u)
    BY <1>1, <1>2 DEF Held, WhereInv, TypeOK
  <1>4. \A p \in PageIds : WrittenBack(p)' = WrittenBack(p)
    BY <1>1 DEF WrittenBack
  <1>5. \A u \in Threads : entry'[u] = IF u = t THEN e ELSE entry[u]
    BY <1>1 DEF WhereInv, TypeOK
  <1> QED BY <1>1, <1>2, <1>3, <1>4, <1>5 DEF OnceInv

LEMMA PartitionOnce ==
    ASSUME WhereInv, OnceInv, NEW t \in Threads, Partition(t)
    PROVE  OnceInv'
  <1> DEFINE p == page[t]
             share == Share(at[t], children[p])
  <1>1. /\ p \in PageIds /\ moving[t].left = {} /\ moving[t].right = {}
    BY DEF Partition, WhereInv, TypeOK, HandInv
  <1>2. /\ moving' = [moving EXCEPT ![t] = [left |-> share.left, right |-> share.right]]
        /\ children' = [children EXCEPT ![p] = share.stay]
        /\ pagesDirty' = pagesDirty \cup {p}
        /\ UNCHANGED <<entry, waiting, filePages>>
    BY DEF Partition, fileVars
  <1>3. /\ share.left \subseteq children[p] /\ share.right \subseteq children[p]
        /\ share.stay \subseteq children[p] /\ share.left \cap share.right = {}
        /\ share.left \cap share.stay = {} /\ share.right \cap share.stay = {}
    BY Shared
  <1>4. children[p] \subseteq WrittenBack(p)
    BY <1>1 DEF OnceInv
  <1> HIDE DEF p, share
  <1>5. \A u \in Threads : Held(u)' = IF u = t THEN Held(t) \cup share.left \cup share.right
                                      ELSE Held(u)
    BY <1>1, <1>2 DEF Held, WhereInv, TypeOK
  <1>6. \A q \in PageIds : WrittenBack(q)' = IF q = p THEN share.stay ELSE WrittenBack(q)
    BY <1>1, <1>2 DEF WrittenBack, WhereInv, TypeOK
  <1>7. \A q \in PageIds : children'[q] = IF q = p THEN share.stay ELSE children[q]
    BY <1>1, <1>2 DEF WhereInv, TypeOK
  <1>8. \A u \in Threads : /\ u # t => moving'[u] = moving[u]
                           /\ moving'[t].left = share.left
                           /\ moving'[t].right = share.right
    BY <1>2 DEF WhereInv, TypeOK
  <1>9. entry[t] \in Held(t) /\ Held(t) \cap WrittenBack(p) = {}
    BY <1>1 DEF Held, OnceInv
  <1>10. \A q \in PageIds : children'[q] \subseteq WrittenBack(q)'
    BY <1>6, <1>7 DEF OnceInv
  <1>11. \A q, r \in PageIds : q # r => WrittenBack(q)' \cap WrittenBack(r)' = {}
    BY <1>1, <1>3, <1>4, <1>6 DEF OnceInv
  <1>12. \A u \in Threads, q \in PageIds : Held(u)' \cap WrittenBack(q)' = {}
    BY <1>1, <1>3, <1>4, <1>5, <1>6 DEF OnceInv
  <1>13. \A u \in Threads : /\ moving'[u].left \cap moving'[u].right = {}
                            /\ entry'[u] \notin moving'[u].left \cup moving'[u].right
    BY <1>2, <1>3, <1>4, <1>8, <1>9 DEF OnceInv
  <1>14. \A u, v \in Threads : u # v => Held(u)' \cap Held(v)' \subseteq {NoEntry}
    BY <1>1, <1>3, <1>4, <1>5 DEF OnceInv
  <1>15. \A q \in PageIds : waiting' \cap WrittenBack(q)' = {}
    BY <1>1, <1>2, <1>3, <1>4, <1>6 DEF OnceInv
  <1>16. \A u \in Threads : waiting' \cap Held(u)' = {}
    BY <1>1, <1>2, <1>3, <1>4, <1>5 DEF OnceInv
  <1> QED BY <1>10, <1>11, <1>12, <1>13, <1>14, <1>15, <1>16 DEF OnceInv

LEMMA PublishOnce ==
    ASSUME WhereInv, OnceInv, NEW t \in Threads, Publish(t)
    PROVE  OnceInv'
  <1> DEFINE left == moving[t].left
             right == moving[t].right
             l == HalfPage(left, pages + 1)
             r == HalfPage(right, IF left = {} THEN pages + 1 ELSE pages + 2)
             new == {l, r} \ {NoPage}
  <1>1. /\ children' = [p \in PageIds |-> IF p = l THEN left
                                          ELSE IF p = r THEN right
                                          ELSE children[p]]
        /\ pagesDirty' = pagesDirty \cup new
        /\ moving' = [moving EXCEPT ![t] = [left |-> {}, right |-> {}]]
        /\ UNCHANGED <<entry, waiting, filePages>>
    BY DEF Publish, fileVars
  <1>2. /\ pages \in 0 .. MaxPages
        /\ l = r => l = NoPage
    BY DEF HalfPage, NoPage, WhereInv, TypeOK
  <1>3. \A p \in PageIds : p = l \/ p = r => p \in new
    BY DEF PageIds, NoPage
  <1> HIDE DEF l, r
  <1>4. \A p \in PageIds : children'[p] = IF p = l THEN left
                                          ELSE IF p = r THEN right ELSE children[p]
    BY <1>1
  <1>5. \A p \in PageIds : WrittenBack(p)' = IF p = l THEN left
                                             ELSE IF p = r THEN right ELSE WrittenBack(p)
    BY <1>1, <1>3, <1>4 DEF WrittenBack
  <1>6. \A p \in PageIds : p = l => p # r
    BY <1>2 DEF PageIds, NoPage
  <1>7. /\ left \cap right = {} /\ entry[t] \notin left \cup right
        /\ left \cup right \subseteq Held(t) \ {NoEntry}
    BY KeptAreEntries DEF OnceInv, Held
  <1>8. \A u \in Threads : /\ Held(u)' = IF u = t THEN {entry[t]} ELSE Held(u)
                           /\ u # t => moving'[u] = moving[u]
                           /\ moving'[t].left = {} /\ moving'[t].right = {}
    BY <1>1 DEF Held, WhereInv, TypeOK
  <1> HIDE DEF left, right
  <1>9. entry[t] \in Held(t)
    BY DEF Held
  <1>10. \A p \in PageIds : children'[p] \subseteq WrittenBack(p)'
    BY <1>4, <1>5 DEF OnceInv
  <1>11. \A p, q \in PageIds : p # q => WrittenBack(p)' \cap WrittenBack(q)' = {}
    BY <1>5, <1>6, <1>7 DEF OnceInv
  <1>12. \A u \in Threads, p \in PageIds : Held(u)' \cap WrittenBack(p)' = {}
    BY <1>5, <1>7, <1>8, <1>9 DEF OnceInv
  <1>13. \A u \in Threads : /\ moving'[u].left \cap moving'[u].right = {}
                            /\ entry'[u] \notin moving'[u].left \cup moving'[u].right
    BY <1>1, <1>8 DEF OnceInv
  <1>14. \A u, v \in Threads : u # v => Held(u)' \cap Held(v)' \subseteq {NoEntry}
    BY <1>8, <1>9 DEF OnceInv
  <1>15. \A p \in PageIds : waiting' \cap WrittenBack(p)' = {}
    BY <1>1, <1>5, <1>7 DEF OnceInv
  <1>16. \A u \in Threads : waiting' \cap Held(u)' = {}
    BY <1>1, <1>8, <1>9 DEF OnceInv
  <1> QED BY <1>10, <1>11, <1>12, <1>13, <1>14, <1>15, <1>16 DEF OnceInv

(* An entry goes from a thread's hands into a page. *)
LEMMA EntryStored ==
    ASSUME WhereInv, OnceInv, NEW t \in Threads, NEW q \in PageIds,
           entry[t] \in Entries, moving[t].left = {}, moving[t].right = {},
           entry' = [entry EXCEPT ![t] = NoEntry], UNCHANGED <<moving, waiting>>,
           \A p \in PageIds :
              /\ children'[p] \subseteq WrittenBack(p)'
              /\ WrittenBack(p)' \subseteq
                   IF p = q THEN WrittenBack(p) \cup {entry[t]} ELSE WrittenBack(p)
    PROVE  OnceInv'
  <1>1. \A u \in Threads : Held(u)' = IF u = t THEN {NoEntry} ELSE Held(u)
    BY DEF Held, WhereInv, TypeOK
  <1>2. \A u \in Threads : entry'[u] = IF u = t THEN NoEntry ELSE entry[u]
    BY DEF WhereInv, TypeOK
  <1>3. entry[t] \in Held(t) /\ entry[t] # NoEntry
    BY KeptAreEntries DEF Held
  <1>4. \A u, p \in PageIds : u # p => WrittenBack(u)' \cap WrittenBack(p)' = {}
    BY <1>3 DEF OnceInv
  <1>5. \A u \in Threads, p \in PageIds : Held(u)' \cap WrittenBack(p)' = {}
    BY <1>1, <1>3, KeptAreEntries DEF OnceInv
  <1>6. \A u \in Threads : /\ moving'[u].left \cap moving'[u].right = {}
                           /\ entry'[u] \notin moving'[u].left \cup moving'[u].right
    BY <1>2 DEF OnceInv
  <1>7. \A u, v \in Threads : u # v => Held(u)' \cap Held(v)' \subseteq {NoEntry}
    BY <1>1 DEF OnceInv
  <1>8. \A p \in PageIds : waiting' \cap WrittenBack(p)' = {}
    BY <1>3 DEF OnceInv
  <1>9. \A u \in Threads : waiting' \cap Held(u)' = {}
    BY <1>1, KeptAreEntries DEF OnceInv
  <1> QED BY <1>4, <1>5, <1>6, <1>7, <1>8, <1>9 DEF OnceInv

LEMMA PushOnce ==
    ASSUME WhereInv, OnceInv, NEW t \in Threads, Push(t)
    PROVE  OnceInv'
  <1>1. /\ page[t] \in PageIds /\ entry[t] \in Within[at[t]] /\ at[t] \in Nodes
        /\ moving[t].left = {} /\ moving[t].right = {}
    BY DEF Push, WhereInv, TypeOK, HandInv
  <1>2. entry[t] \in Entries
    BY <1>1, DenseConstants DEF Nodes
  <1>3. /\ children' = [children EXCEPT ![page[t]] = @ \cup {entry[t]}]
        /\ pagesDirty' = pagesDirty \cup {page[t]}
        /\ entry' = [entry EXCEPT ![t] = NoEntry]
        /\ UNCHANGED <<moving, waiting, filePages>>
    BY DEF Push, Return, fileVars
  <1>4. \A p \in PageIds : children'[p] = IF p = page[t] THEN children[p] \cup {entry[t]}
                                          ELSE children[p]
    BY <1>3 DEF WhereInv, TypeOK
  <1>5. \A p \in PageIds : WrittenBack(p)' = IF p = page[t] THEN children[p] \cup {entry[t]}
                                             ELSE WrittenBack(p)
    BY <1>3, <1>4 DEF WrittenBack
  <1>6. \A p \in PageIds :
           /\ children'[p] \subseteq WrittenBack(p)'
           /\ WrittenBack(p)' \subseteq
                IF p = page[t] THEN WrittenBack(p) \cup {entry[t]} ELSE WrittenBack(p)
    <2>1. \A p \in PageIds : children[p] \subseteq WrittenBack(p)
      BY DEF OnceInv
    <2> QED BY <1>4, <1>5, <2>1
  <1> QED BY <1>1, <1>2, <1>3, <1>6, EntryStored

LEMMA PushToNewPageOnce ==
    ASSUME WhereInv, OnceInv, NEW t \in Threads, PushToNewPage(t)
    PROVE  OnceInv'
  <1> DEFINE q == pages + 1
  <1>1. /\ q \in PageIds /\ entry[t] \in Within[at[t]] /\ at[t] \in Nodes
        /\ moving[t].left = {} /\ moving[t].right = {}
    BY DEF PushToNewPage, WhereInv, TypeOK, HandInv
  <1>2. entry[t] \in Entries
    BY <1>1, DenseConstants DEF Nodes
  <1>3. /\ children' = [children EXCEPT ![q] = {entry[t]}]
        /\ pagesDirty' = pagesDirty \cup {q}
        /\ entry' = [entry EXCEPT ![t] = NoEntry]
        /\ UNCHANGED <<moving, waiting, filePages>>
    BY DEF PushToNewPage, Return
  <1> HIDE DEF q
  <1>4. \A p \in PageIds : children'[p] = IF p = q THEN {entry[t]} ELSE children[p]
    BY <1>3 DEF WhereInv, TypeOK
  <1>5. \A p \in PageIds : WrittenBack(p)' = IF p = q THEN {entry[t]} ELSE WrittenBack(p)
    BY <1>3, <1>4 DEF WrittenBack
  <1>6. \A p \in PageIds :
           /\ children'[p] \subseteq WrittenBack(p)'
           /\ WrittenBack(p)' \subseteq
                IF p = q THEN WrittenBack(p) \cup {entry[t]} ELSE WrittenBack(p)
    BY <1>4, <1>5 DEF OnceInv
  <1> QED BY <1>1, <1>2, <1>3, <1>6, EntryStored

LEMMA FlushOnce ==
    ASSUME OnceInv, Flush
    PROVE  OnceInv'
  <1>1. \A p \in PageIds : WrittenBack(p)' = WrittenBack(p)
    BY DEF Flush, WrittenBack
  <1>2. \A p \in PageIds : children'[p] \subseteq WrittenBack(p)'
    BY <1>1 DEF Flush, OnceInv
  <1> QED BY <1>1, <1>2, NothingMoves DEF Flush, threadVars

LEMMA ReopenOnce ==
    ASSUME OnceInv, Reopen
    PROVE  OnceInv'
  <1>1. \A p \in PageIds : /\ WrittenBack(p) = filePages[p]
                           /\ WrittenBack(p)' = filePages[p]
                           /\ children'[p] \subseteq filePages[p]
    BY DEF Reopen, WrittenBack, FirstOf
  <1> QED BY <1>1, NothingMoves DEF Reopen, threadVars

LEMMA NextOnce == WhereInv /\ OnceInv /\ [Next]_vars => OnceInv'
  <1> SUFFICES ASSUME WhereInv, OnceInv, [Next]_vars PROVE OnceInv'
    OBVIOUS
  <1> USE DEF pageVars, fileVars
  <1>1. CASE \E t \in Threads : Step(t)
    <2> PICK t \in Threads : Step(t)
      BY <1>1
    <2>1. CASE Descend(t) \/ TrySplit(t) \/ Store(t)
      BY <2>1, PagesStay DEF Descend, TrySplit, Store
    <2>2. CASE AlreadySplit(t) \/ BeginSplit(t) \/ LockPage(t) \/ GiveBack(t)
      BY <2>2, PagesStay DEF AlreadySplit, BeginSplit, LockPage, GiveBack
    <2>3. CASE Partition(t) \/ Publish(t) \/ Push(t) \/ PushToNewPage(t)
      BY <2>3, PartitionOnce, PublishOnce, PushOnce, PushToNewPageOnce
    <2> QED BY <2>1, <2>2, <2>3 DEF Step, Split
  <1>2. CASE \E t \in Threads, e \in Entries : Begin(t, e)
    BY <1>2, BeginOnce
  <1>3. CASE Flush \/ Reopen
    BY <1>3, FlushOnce, ReopenOnce
  <1>4. CASE UNCHANGED vars
    BY <1>4, PagesStay DEF vars, threadVars
  <1> QED BY <1>1, <1>2, <1>3, <1>4 DEF Next

LEMMA OnceImpliesOnlyOnce == WhereInv /\ OnceInv => OnlyOnce
  <1> SUFFICES ASSUME WhereInv, OnceInv PROVE OnlyOnce
    OBVIOUS
  <1>1. 1 .. pages \subseteq PageIds
    BY DenseConstants DEF WhereInv, TypeOK, PageIds
  <1>2. \A p, q \in 1 .. pages : p # q => children[p] \cap children[q] = {}
    BY <1>1 DEF OnceInv
  <1>3. \A t \in Threads, p \in PageIds : Held(t) \cap children[p] = {}
    BY DEF OnceInv
  <1> QED BY <1>2, <1>3 DEF OnceInv, OnlyOnce

(* However many threads insert, split and store at once, and whenever the  *)
(* files are written and read, no entry is in two pages, in a page and in  *)
(* the hands of a thread, or in the hands of two threads.                  *)
THEOREM EntriesInOnePlace == Spec => []OnlyOnce
  <1>1. Init => WhereInv /\ OnceInv
    BY InitWhere
  <1>2. (WhereInv /\ OnceInv) /\ [Next]_vars => (WhereInv /\ OnceInv)'
    BY NextWhere, NextOnce
  <1> QED BY <1>1, <1>2, OnceImpliesOnlyOnce, PTL DEF Spec


-----------------------------------------------------------------------------
(* Locks: who is where in a split.                                         *)

Splitting(t) == pc[t] \in {"lock", "part", "giveBack", "publish"}

(* The read locks on page_id are those of the two places that take one. *)
ReadingInv == \A n \in Nodes, t \in Threads :
    t \in reading[n] <=> at[t] = n /\ pc[t] \in {"push", "lock"}

(* One thread fills the cell of a node; no file has a cell half filled. *)
SplitterInv ==
    /\ \A t \in Threads : Splitting(t) => split[at[t]] = "splitting"
    /\ \A t, u \in Threads : Splitting(t) /\ Splitting(u) /\ at[t] = at[u] => t = u
    /\ \A n \in Nodes : split[n] = "splitting" => \E t \in Threads : Splitting(t) /\ at[t] = n
    /\ \A n \in Nodes : fileNodes[n].split # "splitting"

(* It has the page's item locked from page.write() to the end. *)
HolderInv == \A t \in Threads, p \in PageIds :
    holder[p] = t <=> pc[t] \in {"part", "giveBack", "publish"} /\ page[t] = p

(* Nobody is at a half, or has put anything there, before its node is      *)
(* split; also in the file.                                                *)
ReachInv ==
    /\ \A t \in Threads : Reachable(at[t])
    /\ \A n \in Nodes : pageId[n] # NoPage \/ split[n] # "leaf" => Reachable(n)
    /\ \A n \in Nodes : fileNodes[n].pageId # NoPage \/ fileNodes[n].split # "leaf" =>
                          n = 1 \/ fileNodes[n \div 2].split = "split"

(* The page that is given back has been emptied. *)
EmptiedInv == \A t \in Threads : pc[t] = "giveBack" => children[page[t]] = {}

LockInv == ReadingInv /\ SplitterInv /\ HolderInv /\ ReachInv /\ EmptiedInv


(* The halves of a node lead back to it. *)
LEMMA HalfOf == \A n \in Nodes : (2 * n) \div 2 = n /\ (2 * n + 1) \div 2 = n
  BY DEF Nodes

(* What a thread has got was created. *)
LEMMA UsedIsOld ==
    ASSUME WhereInv, NEW u \in Threads, page[u] \in PageIds
    PROVE  page[u] <= pages
  <1>1. Uses(page[u], at[u]) /\ at[u] \in Nodes /\ pages \in Nat /\ page[u] \in Nat
    BY DEF Uses, WhereInv, TypeOK, PageIds
  <1>2. ~ (page[u] > pages)
    BY <1>1 DEF WhereInv, PlaceInv, FreshInv
  <1> QED BY <1>1, <1>2

(* A step of a thread that is not splitting. *)
LEMMA SplittersStay ==
    ASSUME SplitterInv, split' = split, fileNodes' = fileNodes,
           \A u \in Threads : /\ Splitting(u)' <=> Splitting(u)
                              /\ Splitting(u) => at'[u] = at[u]
    PROVE  SplitterInv'
  BY DEF SplitterInv

LEMMA BeginLocks ==
    ASSUME WhereInv, LockInv, NEW t \in Threads, NEW e \in Entries, Begin(t, e)
    PROVE  LockInv'
  <1> USE DEF LockInv, Begin, Goto, nodeVars, pageVars, fileVars, ghostVars
  <1>1. ReadingInv'
    BY DEF WhereInv, TypeOK, ReadingInv
  <1>2. SplitterInv'
    <2>1. \A u \in Threads : /\ Splitting(u)' <=> Splitting(u)
                             /\ Splitting(u) => at'[u] = at[u]
      BY DEF WhereInv, TypeOK, Splitting
    <2> QED BY <2>1, SplittersStay
  <1>3. HolderInv'
    BY DenseConstants DEF WhereInv, TypeOK, HandInv, HolderInv, NoPage, PageIds
  <1>4. ReachInv'
    BY DEF WhereInv, TypeOK, HandInv, ReachInv, Reachable
  <1>5. EmptiedInv'
    BY DEF WhereInv, TypeOK, HandInv, HolderInv, EmptiedInv
  <1> QED BY <1>1, <1>2, <1>3, <1>4, <1>5

LEMMA DescendLocks ==
    ASSUME WhereInv, LockInv, NEW t \in Threads, Descend(t)
    PROVE  LockInv'
  <1> USE DEF LockInv, Descend, Goto, nodeVars, pageVars, fileVars, ghostVars
  <1>1. ReadingInv'
    BY DEF WhereInv, TypeOK, ReadingInv
  <1>2. SplitterInv'
    <2>1. \A u \in Threads : /\ Splitting(u)' <=> Splitting(u)
                             /\ Splitting(u) => at'[u] = at[u]
      BY DEF WhereInv, TypeOK, Splitting
    <2> QED BY <2>1, SplittersStay
  <1>3. HolderInv'
    BY DenseConstants DEF WhereInv, TypeOK, HandInv, HolderInv, NoPage, PageIds
  <1>4. ReachInv'
    <2>1. ASSUME NEW u \in Threads PROVE Reachable(at[u])'
      <3>1. at[t] \in Nodes /\ Reachable(at[u])
        BY DEF WhereInv, TypeOK, ReachInv
      <3>2. at'[u] = at[u] \/ (split[at[t]] = "split" /\ at'[u] = Side(at[t], entry[t])
                                /\ at'[u] # 0)
        BY DEF WhereInv, TypeOK
      <3>3. Side(at[t], entry[t]) # 0 => Side(at[t], entry[t]) \div 2 = at[t]
        BY <3>1, HalfOf DEF Side
      <3> QED BY <3>1, <3>2, <3>3 DEF Reachable
    <2> QED BY <2>1 DEF WhereInv, TypeOK, ReachInv, Reachable
  <1>5. EmptiedInv'
    <2>1. \A u \in Threads : pc'[u] = "giveBack" => pc[u] = "giveBack" /\ page'[u] = page[u]
      BY DEF WhereInv, TypeOK
    <2>2. UNCHANGED children
      OBVIOUS
    <2> QED BY <2>1, <2>2 DEF EmptiedInv
  <1> QED BY <1>1, <1>2, <1>3, <1>4, <1>5

LEMMA TrySplitLocks ==
    ASSUME WhereInv, LockInv, NEW t \in Threads, TrySplit(t)
    PROVE  LockInv'
  <1> USE DEF LockInv, TrySplit, Goto, nodeVars, pageVars, fileVars, ghostVars
  <1>1. ReadingInv'
    BY DEF WhereInv, TypeOK, ReadingInv
  <1>2. SplitterInv'
    <2>1. \A u \in Threads : /\ Splitting(u)' <=> Splitting(u)
                             /\ Splitting(u) => at'[u] = at[u]
      BY DEF WhereInv, TypeOK, Splitting
    <2> QED BY <2>1, SplittersStay
  <1>3. HolderInv'
    BY DenseConstants DEF WhereInv, TypeOK, HandInv, HolderInv, NoPage, PageIds
  <1>4. ReachInv'
    BY DEF WhereInv, TypeOK, HandInv, ReachInv, Reachable
  <1>5. EmptiedInv'
    BY DEF WhereInv, TypeOK, HandInv, HolderInv, EmptiedInv
  <1> QED BY <1>1, <1>2, <1>3, <1>4, <1>5

LEMMA AlreadySplitLocks ==
    ASSUME WhereInv, LockInv, NEW t \in Threads, AlreadySplit(t)
    PROVE  LockInv'
  <1> USE DEF LockInv, AlreadySplit, Goto, nodeVars, pageVars, fileVars, ghostVars
  <1>1. ReadingInv'
    BY DEF WhereInv, TypeOK, ReadingInv
  <1>2. SplitterInv'
    BY DEF WhereInv, TypeOK, SplitterInv, Splitting
  <1>3. HolderInv'
    BY DenseConstants DEF WhereInv, TypeOK, HandInv, HolderInv, NoPage, PageIds
  <1>4. ReachInv'
    BY DEF WhereInv, TypeOK, HandInv, ReachInv, Reachable
  <1>5. EmptiedInv'
    BY DEF WhereInv, TypeOK, HandInv, HolderInv, EmptiedInv
  <1> QED BY <1>1, <1>2, <1>3, <1>4, <1>5

LEMMA BeginSplitLocks ==
    ASSUME WhereInv, LockInv, NEW t \in Threads, BeginSplit(t)
    PROVE  LockInv'
  <1> USE DEF LockInv, BeginSplit, Goto, nodeVars, pageVars, fileVars, ghostVars
  <1>1. ReadingInv'
    BY DEF WhereInv, TypeOK, ReadingInv
  <1>2. SplitterInv'
    BY DEF WhereInv, TypeOK, SplitterInv, Splitting
  <1>3. HolderInv'
    BY DenseConstants DEF WhereInv, TypeOK, HandInv, HolderInv, NoPage, PageIds
  <1>4. ReachInv'
    BY DEF WhereInv, TypeOK, HandInv, ReachInv, Reachable
  <1>5. EmptiedInv'
    BY DEF WhereInv, TypeOK, HandInv, HolderInv, EmptiedInv
  <1> QED BY <1>1, <1>2, <1>3, <1>4, <1>5

LEMMA LockPageLocks ==
    ASSUME WhereInv, LockInv, NEW t \in Threads, LockPage(t)
    PROVE  LockInv'
  <1> USE DEF LockInv, LockPage, Goto, nodeVars, pageVars, fileVars, ghostVars
  <1>1. ReadingInv'
    BY DEF WhereInv, TypeOK, ReadingInv
  <1>2. SplitterInv'
    BY DEF WhereInv, TypeOK, SplitterInv, Splitting
  <1>3. HolderInv'
    BY DenseConstants DEF WhereInv, TypeOK, HandInv, HolderInv, NoPage, PageIds
  <1>4. ReachInv'
    BY DEF WhereInv, TypeOK, HandInv, ReachInv, Reachable
  <1>5. EmptiedInv'
    BY DEF WhereInv, TypeOK, HandInv, HolderInv, EmptiedInv
  <1> QED BY <1>1, <1>2, <1>3, <1>4, <1>5

LEMMA PartitionLocks ==
    ASSUME WhereInv, LockInv, NEW t \in Threads, Partition(t)
    PROVE  LockInv'
  <1> USE DEF LockInv, Partition, Goto, nodeVars, pageVars, fileVars, ghostVars
  <1>1. ReadingInv'
    BY DEF WhereInv, TypeOK, ReadingInv
  <1>2. SplitterInv'
    BY DEF WhereInv, TypeOK, SplitterInv, Splitting
  <1>3. HolderInv'
    BY DenseConstants DEF WhereInv, TypeOK, HandInv, HolderInv, NoPage, PageIds
  <1>4. ReachInv'
    BY DEF WhereInv, TypeOK, HandInv, ReachInv, Reachable
  <1>5. EmptiedInv'
    BY DEF WhereInv, TypeOK, HandInv, HolderInv, EmptiedInv
  <1> QED BY <1>1, <1>2, <1>3, <1>4, <1>5

LEMMA GiveBackLocks ==
    ASSUME WhereInv, LockInv, NEW t \in Threads, GiveBack(t)
    PROVE  LockInv'
  <1> USE DEF LockInv, GiveBack, Goto, nodeVars, pageVars, fileVars, ghostVars
  <1>1. ReadingInv'
    BY DEF WhereInv, TypeOK, ReadingInv
  <1>2. SplitterInv'
    BY DEF WhereInv, TypeOK, SplitterInv, Splitting
  <1>3. HolderInv'
    BY DenseConstants DEF WhereInv, TypeOK, HandInv, HolderInv, NoPage, PageIds
  <1>4. ReachInv'
    BY DEF WhereInv, TypeOK, HandInv, ReachInv, Reachable
  <1>5. EmptiedInv'
    BY DEF WhereInv, TypeOK, HandInv, HolderInv, EmptiedInv
  <1> QED BY <1>1, <1>2, <1>3, <1>4, <1>5

LEMMA PublishLocks ==
    ASSUME WhereInv, LockInv, NEW t \in Threads, Publish(t)
    PROVE  LockInv'
  <1> USE DEF LockInv, Publish, Goto, nodeVars, pageVars, fileVars, ghostVars
  <1>1. ReadingInv'
    BY DEF WhereInv, TypeOK, ReadingInv
  <1>2. SplitterInv'
    BY DEF WhereInv, TypeOK, SplitterInv, Splitting
  <1>3. HolderInv'
    BY DenseConstants DEF WhereInv, TypeOK, HandInv, HolderInv, NoPage, PageIds
  <1>4. ReachInv'
    <2>1. at[t] \in Nodes /\ split'[at[t]] = "split" /\ at' = at /\ fileNodes' = fileNodes
      BY DEF WhereInv, TypeOK
    <2>2. \A m \in Nodes : /\ Reachable(m) => Reachable(m)'
                           /\ split'[m] = split[m] \/ m = at[t]
      BY DEF WhereInv, TypeOK, Reachable
    <2>3. \A m \in Nodes : m = 2 * at[t] \/ m = 2 * at[t] + 1 => Reachable(m)'
      BY <2>1, HalfOf DEF Reachable
    <2>4. \A m \in Nodes : pageId'[m] = pageId[m] \/ m = 2 * at[t] \/ m = 2 * at[t] + 1
      BY DEF WhereInv, TypeOK
    <2>5. \A u \in Threads : at[u] \in Nodes
      BY DEF WhereInv, TypeOK
    <2> QED BY <2>1, <2>2, <2>3, <2>4, <2>5 DEF ReachInv
  <1>5. EmptiedInv'
    <2> SUFFICES ASSUME NEW u \in Threads, pc'[u] = "giveBack"
                 PROVE  children'[page'[u]] = {}
      BY DEF EmptiedInv
    <2>1. u # t /\ pc[u] = "giveBack" /\ page'[u] = page[u] /\ page[u] \in PageIds
      BY DEF WhereInv, TypeOK, HandInv
    <2>2. page[u] <= pages /\ page[u] \in Nat \ {0} /\ pages \in Nat
      <3>1. pages \in Nat /\ page[u] \in Nat \ {0}
        BY <2>1 DEF PageIds, WhereInv, TypeOK
      <3>2. page[u] # NoPage
        BY <3>1 DEF NoPage
      <3> HIDE DEF LockInv
      <3> QED BY <2>1, <3>1, <3>2, UsedIsOld
    <2>3. children'[page[u]] = children[page[u]]
      BY <2>1, <2>2 DEF HalfPage, NoPage
    <2> QED BY <2>1, <2>3 DEF EmptiedInv
  <1> QED BY <1>1, <1>2, <1>3, <1>4, <1>5

LEMMA StoreLocks ==
    ASSUME WhereInv, LockInv, NEW t \in Threads, Store(t)
    PROVE  LockInv'
  <1> USE DEF LockInv, Store, Goto, nodeVars, pageVars, fileVars, ghostVars
  <1>1. ReadingInv'
    <2>1. CASE UNCHANGED <<reading, page>> /\ pc' = [pc EXCEPT ![t] = "new"]
      BY <2>1 DEF WhereInv, TypeOK, ReadingInv
    <2>2. CASE /\ reading' = [reading EXCEPT ![at[t]] = @ \cup {t}]
               /\ pc' = [pc EXCEPT ![t] = "push"]
      BY <2>2 DEF WhereInv, TypeOK, ReadingInv
    <2> QED BY <2>1, <2>2
  <1>2. SplitterInv'
    <2>1. \A u \in Threads : /\ Splitting(u)' <=> Splitting(u)
                             /\ Splitting(u) => at'[u] = at[u]
      BY DEF WhereInv, TypeOK, Splitting
    <2> QED BY <2>1, SplittersStay
  <1>3. HolderInv'
    BY DenseConstants DEF WhereInv, TypeOK, HandInv, HolderInv, NoPage, PageIds
  <1>4. ReachInv'
    BY DEF WhereInv, TypeOK, HandInv, ReachInv, Reachable
  <1>5. EmptiedInv'
    BY DEF WhereInv, TypeOK, HandInv, HolderInv, EmptiedInv
  <1> QED BY <1>1, <1>2, <1>3, <1>4, <1>5

LEMMA PushLocks ==
    ASSUME WhereInv, LockInv, NEW t \in Threads, Push(t)
    PROVE  LockInv'
  <1> USE DEF LockInv, Push, Return, Goto, nodeVars, pageVars, fileVars, ghostVars
  <1>1. ReadingInv'
    BY DEF WhereInv, TypeOK, ReadingInv
  <1>2. SplitterInv'
    <2>1. \A u \in Threads : /\ Splitting(u)' <=> Splitting(u)
                             /\ Splitting(u) => at'[u] = at[u]
      BY DEF WhereInv, TypeOK, Splitting
    <2> QED BY <2>1, SplittersStay
  <1>3. HolderInv'
    BY DenseConstants DEF WhereInv, TypeOK, HandInv, HolderInv, NoPage, PageIds
  <1>4. ReachInv'
    BY DEF WhereInv, TypeOK, HandInv, ReachInv, Reachable
  <1>5. EmptiedInv'
    <2> SUFFICES ASSUME NEW u \in Threads, pc'[u] = "giveBack"
                 PROVE  children'[page'[u]] = {}
      BY DEF EmptiedInv
    <2>1. u # t /\ pc[u] = "giveBack" /\ page'[u] = page[u] /\ page[u] \in PageIds
      BY DEF WhereInv, TypeOK, HandInv
    <2>2. page[u] # page[t]
      BY <2>1, DenseConstants DEF HolderInv
    <2> QED BY <2>1, <2>2 DEF WhereInv, TypeOK, EmptiedInv
  <1> QED BY <1>1, <1>2, <1>3, <1>4, <1>5

LEMMA PushToNewPageLocks ==
    ASSUME WhereInv, LockInv, NEW t \in Threads, PushToNewPage(t)
    PROVE  LockInv'
  <1> USE DEF LockInv, PushToNewPage, Return, Goto, nodeVars, pageVars, fileVars, ghostVars
  <1>1. ReadingInv'
    BY DEF WhereInv, TypeOK, ReadingInv
  <1>2. SplitterInv'
    <2>1. \A u \in Threads : /\ Splitting(u)' <=> Splitting(u)
                             /\ Splitting(u) => at'[u] = at[u]
      BY DEF WhereInv, TypeOK, Splitting
    <2> QED BY <2>1, SplittersStay
  <1>3. HolderInv'
    BY DenseConstants DEF WhereInv, TypeOK, HandInv, HolderInv, NoPage, PageIds
  <1>4. ReachInv'
    BY DEF WhereInv, TypeOK, HandInv, ReachInv, Reachable
  <1>5. EmptiedInv'
    <2> SUFFICES ASSUME NEW u \in Threads, pc'[u] = "giveBack"
                 PROVE  children'[page'[u]] = {}
      BY DEF EmptiedInv
    <2>1. u # t /\ pc[u] = "giveBack" /\ page'[u] = page[u] /\ page[u] \in PageIds
      BY DEF WhereInv, TypeOK, HandInv
    <2>2. page[u] <= pages
      BY <2>1, UsedIsOld
    <2>3. pages \in Nat /\ page[u] # pages + 1
      BY <2>1, <2>2 DEF PageIds, WhereInv, TypeOK
    <2> QED BY <2>1, <2>3 DEF WhereInv, TypeOK, EmptiedInv
  <1> QED BY <1>1, <1>2, <1>3, <1>4, <1>5

LEMMA FlushLocks ==
    ASSUME WhereInv, LockInv, Flush
    PROVE  LockInv'
  <1> USE DEF LockInv, Flush, AllIdle, NodesNow, threadVars, Goto, nodeVars, pageVars, fileVars, ghostVars
  <1>1. ReadingInv'
    BY DEF WhereInv, TypeOK, ReadingInv
  <1>2. SplitterInv'
    BY DEF WhereInv, TypeOK, SplitterInv, Splitting
  <1>3. HolderInv'
    BY DenseConstants DEF WhereInv, TypeOK, HandInv, HolderInv, NoPage, PageIds
  <1>4. ReachInv'
    <2>1. \A n \in Nodes : pageId[n] # NoPage \/ split[n] # "leaf" => Reachable(n)
      BY DEF ReachInv
    <2>2. \A n \in Nodes : fileNodes'[n].pageId # NoPage \/ fileNodes'[n].split # "leaf" =>
                              n = 1 \/ fileNodes'[n \div 2].split = "split"
      <3>1. CASE fileNodes' = fileNodes
        BY <3>1 DEF ReachInv
      <3>2. CASE fileNodes' = NodesNow
        <4>1. \A n \in Nodes : n # 1 => n \div 2 \in Nodes
          BY DenseConstants DEF Nodes
        <4>2. \A n \in Nodes : /\ fileNodes'[n].pageId = pageId[n]
                               /\ fileNodes'[n].split = split[n]
          BY <3>2
        <4> QED BY <2>1, <4>1, <4>2 DEF Reachable
      <3> QED BY <3>1, <3>2
    <2> QED BY <2>1, <2>2 DEF ReachInv, Reachable
  <1>5. EmptiedInv'
    BY DEF WhereInv, TypeOK, HandInv, HolderInv, EmptiedInv
  <1> QED BY <1>1, <1>2, <1>3, <1>4, <1>5

LEMMA ReopenLocks ==
    ASSUME WhereInv, LockInv, Reopen
    PROVE  LockInv'
  <1> USE DEF LockInv, Reopen, AllIdle, threadVars, Goto, nodeVars, pageVars, fileVars, ghostVars
  <1>1. ReadingInv'
    BY DEF WhereInv, TypeOK, ReadingInv
  <1>2. SplitterInv'
    BY DEF WhereInv, TypeOK, SplitterInv, Splitting
  <1>3. HolderInv'
    BY DenseConstants DEF WhereInv, TypeOK, HandInv, HolderInv, NoPage, PageIds
  <1>4. ReachInv'
    <2>1. \A u \in Threads : at'[u] = 1
      BY DEF WhereInv, HandInv
    <2>2. \A n \in Nodes : /\ n # 1 => n \div 2 \in Nodes
                           /\ pageId'[n] = fileNodes[n].pageId
                           /\ split'[n] = fileNodes[n].split
      BY DenseConstants DEF Nodes
    <2> QED BY <2>1, <2>2 DEF ReachInv, Reachable
  <1>5. EmptiedInv'
    BY DEF WhereInv, TypeOK, HandInv, HolderInv, EmptiedInv
  <1> QED BY <1>1, <1>2, <1>3, <1>4, <1>5
LEMMA InitLocks == Init => LockInv
  <1> SUFFICES ASSUME Init PROVE LockInv
    OBVIOUS
  <1> USE DEF Init
  <1>1. ReadingInv /\ SplitterInv /\ EmptiedInv
    BY DEF ReadingInv, SplitterInv, Splitting, EmptiedInv
  <1>2. HolderInv /\ ReachInv
    BY DenseConstants DEF HolderInv, ReachInv, Reachable
  <1> QED BY <1>1, <1>2 DEF LockInv

LEMMA NextLocks == WhereInv /\ LockInv /\ [Next]_vars => LockInv'
  <1> SUFFICES ASSUME WhereInv, LockInv, [Next]_vars PROVE LockInv'
    OBVIOUS
  <1>1. CASE \E t \in Threads : Step(t)
    <2> PICK t \in Threads : Step(t)
      BY <1>1
    <2>1. CASE Descend(t) \/ TrySplit(t) \/ Store(t) \/ Push(t) \/ PushToNewPage(t)
      BY <2>1, DescendLocks, TrySplitLocks, StoreLocks, PushLocks, PushToNewPageLocks
    <2>2. CASE Split(t)
      BY <2>2, AlreadySplitLocks, BeginSplitLocks, LockPageLocks, PartitionLocks,
         GiveBackLocks, PublishLocks DEF Split
    <2> QED BY <2>1, <2>2 DEF Step
  <1>2. CASE \E t \in Threads, e \in Entries : Begin(t, e)
    BY <1>2, BeginLocks
  <1>3. CASE Flush \/ Reopen
    BY <1>3, FlushLocks, ReopenLocks
  <1>4. CASE UNCHANGED vars
    <2> USE <1>4 DEF vars, nodeVars, pageVars, fileVars, threadVars, LockInv
    <2>1. ReadingInv' /\ SplitterInv' /\ HolderInv'
      BY DEF ReadingInv, SplitterInv, Splitting, HolderInv
    <2>2. ReachInv' /\ EmptiedInv'
      BY DEF ReachInv, Reachable, EmptiedInv
    <2> QED BY <2>1, <2>2
  <1> QED BY <1>1, <1>2, <1>3, <1>4 DEF Next

-----------------------------------------------------------------------------
(* How many entries are less than one of them. *)

(* A set of naturals that is not empty has a least member. *)
LEMMA LeastNat ==
  ASSUME NEW T, T \subseteq Nat, T # {}
  PROVE  \E x \in T : \A y \in T : x <= y
  <1> DEFINE R == OpToRel(<, Nat)
  <1>1. IsWellFoundedOn(R, Nat)
    BY NatLessThanWellFounded
  <1>2. \A x, y \in Nat : <<y, x>> \in R <=> y < x
    BY DEF OpToRel
  <1> HIDE DEF R
  <1>3. PICK x \in T : \A y \in T : ~ (<<y, x>> \in R)
    BY <1>1, WFMin
  <1>4. \A y \in T : ~ (y < x)
    BY <1>2, <1>3
  <1> QED BY <1>3, <1>4

Below(s, e) == {f \in s : f < e}

(* A part of a set of entries has no more of them than the set. *)
LEMMA PartCounted ==
    ASSUME NEW s \in SUBSET Entries, NEW r \in SUBSET s
    PROVE  /\ Cardinality(r) \in Nat /\ Cardinality(s) \in Nat
           /\ Cardinality(r) <= Cardinality(s)
           /\ Cardinality(r) = Cardinality(s) => r = s
  <1>1. IsFiniteSet(s)
    BY DenseConstants, FS_Subset
  <1> QED BY <1>1, EntriesCounted, FS_Subset

(* One entry more. *)
LEMMA OneMore ==
    ASSUME NEW s \in SUBSET Entries, NEW e \in Entries, e \notin s
    PROVE  Cardinality(s \cup {e}) = Cardinality(s) + 1
  <1>1. IsFiniteSet(s)
    BY DenseConstants, FS_Subset
  <1> QED BY <1>1, FS_AddElement

(* The greater of two entries has more below it. *)
LEMMA GreaterHasMore ==
    ASSUME NEW s \in SUBSET Entries, NEW e \in s, NEW f \in s, e < f
    PROVE  Cardinality(Below(s, e)) + 1 <= Cardinality(Below(s, f))
  <1>0. \A x \in s : x \in Nat /\ x \in Entries
    BY DenseConstants
  <1>1. /\ Below(s, e) \in SUBSET Entries /\ Below(s, f) \in SUBSET Entries
        /\ e \notin Below(s, e) /\ e \in Below(s, f)
    BY <1>0 DEF Below
  <1>2. Below(s, e) \cup {e} \in SUBSET Below(s, f)
    BY <1>0 DEF Below
  <1>3. Cardinality(Below(s, e) \cup {e}) <= Cardinality(Below(s, f))
    BY <1>1, <1>2, PartCounted
  <1> QED BY <1>1, <1>3, OneMore

(* A page read for k entries gets k entries, if it has as many: there are  *)
(* no more, by the greatest, and no fewer, by the least that is left out.  *)
LEMMA FirstOfCount ==
    ASSUME NEW s \in SUBSET Entries, NEW k \in Nat, k <= Cardinality(s)
    PROVE  Cardinality(FirstOf(s, k)) = k
  <1> DEFINE T == FirstOf(s, k)
             size(e) == Cardinality(Below(s, e))
  <1>1. T \in SUBSET s /\ T \in SUBSET Entries
    BY DEF FirstOf
  <1>2. \A e \in s : size(e) \in Nat /\ (e \in T <=> size(e) < k)
    <2>1. \A e : Below(s, e) \in SUBSET Entries
      BY DEF Below
    <2> QED BY <2>1, EntriesCounted DEF FirstOf, Below
  <1>3. Cardinality(T) \in Nat /\ Cardinality(s) \in Nat
    BY <1>1, EntriesCounted
  <1>4. \A e, f \in s : e \in Nat /\ f \in Nat /\ (e < f => size(e) + 1 <= size(f))
    BY GreaterHasMore, DenseConstants
  <1> HIDE DEF T, size
  <1>5. Cardinality(T) <= k
    <2>1. CASE T = {}
      BY <2>1, FS_EmptySet
    <2>2. CASE T # {}
      <3> DEFINE Rest == {k - size(e) : e \in T}
      <3>1. Rest \subseteq Nat /\ Rest # {}
        BY <1>1, <1>2, <2>2
      <3> HIDE DEF Rest
      <3>2. PICK x \in Rest : \A y \in Rest : x <= y
        BY <3>1, LeastNat
      <3> USE DEF Rest
      <3>3. PICK m \in T : x = k - size(m)
        BY <3>2
      <3>4. ASSUME NEW f \in T PROVE size(f) <= size(m)
        <4>1. k - size(m) <= k - size(f)
          BY <3>2, <3>3
        <4>2. size(m) \in Nat /\ size(f) \in Nat
          BY <1>1, <1>2
        <4> QED BY <4>1, <4>2
      <3>5. T \subseteq Below(s, m) \cup {m}
        BY <1>1, <1>2, <1>4, <3>4 DEF Below
      <3>6. Below(s, m) \in SUBSET Entries /\ m \in Entries /\ m \notin Below(s, m)
        BY <1>1, <1>4 DEF Below
      <3>7. Cardinality(T) <= size(m) + 1
        <4>1. T \in SUBSET (Below(s, m) \cup {m}) /\ Below(s, m) \cup {m} \in SUBSET Entries
          BY <3>5, <3>6
        <4>2. Cardinality(T) <= Cardinality(Below(s, m) \cup {m})
          BY <4>1, PartCounted
        <4> QED BY <3>6, <4>2, OneMore DEF size
      <3> QED BY <1>1, <1>2, <1>3, <3>7
    <2> QED BY <2>1, <2>2
  <1>6. k <= Cardinality(T)
    <2>1. CASE s \subseteq T
      BY <1>1, <2>1
    <2>2. CASE ~ (s \subseteq T)
      <3>1. PICK r \in s \ T : \A e \in s \ T : r <= e
        <4>1. s \ T \subseteq Nat /\ s \ T # {}
          BY <1>4, <2>2
        <4> QED BY <4>1, LeastNat
      <3>2. Below(s, r) \in SUBSET T
        BY <1>4, <3>1 DEF Below
      <3>3. size(r) <= Cardinality(T)
        BY <1>1, <3>2, PartCounted DEF size
      <3> QED BY <1>2, <1>3, <3>1, <3>3
    <2> QED BY <2>1, <2>2
  <1> QED BY <1>3, <1>5, <1>6 DEF T

(* A page read for all its entries has them all. *)
LEMMA FirstOfAll ==
    ASSUME NEW s \in SUBSET Entries
    PROVE  FirstOf(s, Cardinality(s)) = s
  <1>1. FirstOf(s, Cardinality(s)) \in SUBSET s /\ Cardinality(s) \in Nat
    BY EntriesCounted DEF FirstOf
  <1> QED BY <1>1, FirstOfCount, PartCounted

(* A set of threads has a size. *)
LEMMA ThreadsCounted ==
    ASSUME NEW S \in SUBSET Threads, NEW T \in SUBSET S
    PROVE  /\ Cardinality(S) \in Nat /\ Cardinality(T) \in Nat
           /\ Cardinality(Threads) \in Nat
           /\ Cardinality(S) <= Cardinality(Threads)
           /\ Cardinality(T) <= Cardinality(S)
           /\ \A t \in S : t \notin T => Cardinality(T) + 1 <= Cardinality(S)
  <1>1. IsFiniteSet(S) /\ IsFiniteSet(T) /\ IsFiniteSet(Threads)
    BY DenseConstants, FS_Subset
  <1>2. /\ Cardinality(S) \in Nat /\ Cardinality(T) \in Nat
        /\ Cardinality(Threads) \in Nat
        /\ Cardinality(S) <= Cardinality(Threads)
        /\ Cardinality(T) <= Cardinality(S)
    BY <1>1, FS_CardinalityType, FS_Subset
  <1>3. ASSUME NEW t \in S, t \notin T PROVE Cardinality(T) + 1 <= Cardinality(S)
    <2>1. T \cup {t} \in SUBSET S
      BY <1>3
    <2>2. Cardinality(T \cup {t}) = Cardinality(T) + 1
      BY <1>1, <1>3, FS_AddElement
    <2>3. Cardinality(T \cup {t}) <= Cardinality(S)
      BY <1>1, <2>1, FS_Subset
    <2> QED BY <2>2, <2>3
  <1> QED BY <1>2, <1>3

-----------------------------------------------------------------------------
(* Counts and limits, as long as no page was replaced by a new one.        *)

(* A thread works on the page the node has. *)
PageInv == \A t \in Threads :
    pc[t] \in {"push", "lock", "part", "giveBack"} => page[t] = pageId[at[t]]

(* A node's count is its page's length, locked or not. *)
CountInv == \A n \in Nodes :
    /\ pageId[n] # NoPage => count[n] = Cardinality(children[pageId[n]])
    /\ pageId[n] = NoPage => count[n] = 0
    /\ fileNodes[n].pageId = NoPage => fileNodes[n].count = 0

(* The threads that have decided to store at a node. *)
Pending(n) == {t \in Threads : at[t] = n /\ pc[t] \in {"store", "push", "new"}}

Bound == Saturation + Cardinality(Threads)

(* A node that may still be split has room for all that was decided; what  *)
(* a split takes out of it is within the limit too.                        *)
FullInv ==
    /\ \A n \in Nodes : 2 * n < MaxNode /\ split[n] # "split" =>
                          count[n] + Cardinality(Pending(n)) <= Bound
    /\ \A n \in Nodes : 2 * n < MaxNode /\ fileNodes[n].split # "split" =>
                          fileNodes[n].count <= Bound
    /\ \A t \in Threads : /\ Cardinality(moving[t].left) <= Bound
                          /\ Cardinality(moving[t].right) <= Bound

LimitInv == PageInv /\ CountInv /\ FullInv

(* If the tree was never read with an old structure either, each entry is  *)
(* waiting, in the hands of a thread or at a node, and a page that is not  *)
(* marked as changed is in the file as it is.                              *)
InHands(e) == \E t \in Threads : e \in Held(t)

KeptInv ==
    /\ \A e \in Entries : e \in waiting \/ InHands(e) \/ \E n \in Nodes : e \in At(n)
    /\ \A n \in Nodes : pageId[n] # NoPage /\ pageId[n] \notin pagesDirty =>
                          children[pageId[n]] = filePages[pageId[n]]

LiveInv == ~overwrote => LimitInv /\ (~stale => KeptInv)

(* The parts of it have their types. *)
LEMMA BoundsCounted ==
    ASSUME WhereInv
    PROVE  /\ Bound \in Nat /\ Saturation \in Nat /\ Cardinality(Threads) \in Nat
           /\ \A n \in Nodes : /\ Pending(n) \in SUBSET Threads
                               /\ Cardinality(Pending(n)) \in Nat
                               /\ Cardinality(Pending(n)) <= Cardinality(Threads)
                               /\ count[n] \in Nat
           /\ \A t \in Threads : /\ Cardinality(moving[t].left) \in Nat
                                 /\ Cardinality(moving[t].right) \in Nat
  <1>1. \A n : Pending(n) \in SUBSET Threads
    BY DEF Pending
  <1>2. \A S \in SUBSET Threads : /\ Cardinality(S) \in Nat /\ Cardinality(Threads) \in Nat
                                  /\ Cardinality(S) <= Cardinality(Threads)
    BY ThreadsCounted
  <1>3. Saturation \in Nat /\ Cardinality(Threads) \in Nat
    BY <1>2, DenseConstants
  <1>4. \A t \in Threads : moving[t].left \in SUBSET Entries /\ moving[t].right \in SUBSET Entries
    BY DEF WhereInv, TypeOK
  <1> QED BY <1>1, <1>2, <1>3, <1>4, EntriesCounted DEF Bound, WhereInv, TypeOK

(* What is used now or in the file is not a page to come. *)
LEMMA OwnedIsOld ==
    ASSUME WhereInv, NEW n \in Nodes
    PROVE  /\ pageId[n] # NoPage => pageId[n] \in PageIds /\ pageId[n] <= pages
           /\ pages \in Nat
  <1>1. /\ pageId[n] # NoPage => pageId[n] \in PageIds
        /\ pages \in Nat /\ \A p \in PageIds : p \in Nat
    BY DEF WhereInv, TypeOK, PageIds
  <1>2. ASSUME pageId[n] # NoPage PROVE ~ (pageId[n] > pages)
    BY <1>1, <1>2 DEF WhereInv, PlaceInv, FreshInv, Uses
  <1> QED BY <1>1, <1>2

(* Two nodes do not have one page. *)
LEMMA OwnedOnce ==
    ASSUME WhereInv, NEW m \in Nodes, NEW n \in Nodes, pageId[n] # NoPage, pageId[m] = pageId[n]
    PROVE  m = n
  <1>1. pageId[n] \in PageIds
    BY DEF WhereInv, TypeOK
  <1> QED BY <1>1 DEF WhereInv, PlaceInv, OwnInv, Uses

(* A step that decides nothing, and raises no count of a leaf. *)
LEMMA StillFull ==
    ASSUME WhereInv, FullInv, count' \in [Nodes -> Nat],
           \A n \in Nodes : split'[n] # "split" =>
              /\ split[n] # "split" /\ count'[n] <= count[n]
              /\ Pending(n)' \subseteq Pending(n),
           fileNodes' = fileNodes,
           \A t \in Threads : /\ Cardinality(moving'[t].left) <= Bound
                              /\ Cardinality(moving'[t].right) <= Bound
    PROVE  FullInv'
  <1>1. ASSUME NEW n \in Nodes, 2 * n < MaxNode, split'[n] # "split"
        PROVE  count'[n] + Cardinality(Pending(n)') <= Bound
    <2>1. Pending(n) \in SUBSET Threads /\ Pending(n)' \in SUBSET Pending(n)
      BY <1>1 DEF Pending
    <2>2. /\ Cardinality(Pending(n)) \in Nat /\ Cardinality(Pending(n)') \in Nat
          /\ Cardinality(Pending(n)') <= Cardinality(Pending(n))
      BY <2>1, ThreadsCounted
    <2>3. /\ count[n] + Cardinality(Pending(n)) <= Bound
          /\ count'[n] <= count[n] /\ count[n] \in Nat /\ count'[n] \in Nat /\ Bound \in Nat
      BY <1>1, BoundsCounted DEF FullInv
    <2> QED BY <2>2, <2>3
  <1>2. Bound' = Bound
    BY DEF Bound
  <1> QED BY <1>1, <1>2 DEF FullInv

(* An entry stays in sight. *)
LEMMA StillKept ==
    ASSUME KeptInv, UNCHANGED <<pageId, children, filePages, pagesDirty>>,
           \A e \in Entries : e \in waiting => e \in waiting' \/ InHands(e)',
           \A e \in Entries : InHands(e) => InHands(e)'
    PROVE  KeptInv'
  BY DEF KeptInv, At

LEMMA BeginLive ==
    ASSUME WhereInv, LockInv, LimitInv, NEW t \in Threads, NEW e \in Entries, Begin(t, e)
    PROVE  LimitInv' /\ (KeptInv => KeptInv')
  <1> USE DEF LimitInv, Begin, Goto, nodeVars, pageVars, fileVars, ghostVars
  <1>1. PageInv'
    BY DEF WhereInv, TypeOK, HandInv, PageInv
  <1>2. CountInv'
    BY DEF CountInv
  <1>3. FullInv'
    <2>1. \A n \in Nodes : split'[n] # "split" => /\ split[n] # "split"
                                                  /\ Pending(n)' \subseteq Pending(n)
      BY DEF WhereInv, TypeOK, Pending
    <2>2. count' = count /\ fileNodes' = fileNodes /\ moving' = moving
      OBVIOUS
    <2>3. \A n \in Nodes : count'[n] <= count[n]
      BY <2>2, BoundsCounted
    <2>4. count' \in [Nodes -> Nat]
      BY <2>2 DEF WhereInv, TypeOK
    <2> QED BY <2>1, <2>2, <2>3, <2>4, StillFull DEF FullInv
  <1>4. ASSUME KeptInv PROVE KeptInv'
    <2> USE <1>4
    <2>1. \A u \in Threads, f \in Entries : f \in Held(u) => f \in Held(u)'
      BY DenseConstants DEF WhereInv, TypeOK, HandInv, Held
    <2>2. e \in Held(t)'
      BY DEF WhereInv, TypeOK, Held
    <2> QED BY <2>1, <2>2, StillKept DEF InHands
  <1> QED BY <1>1, <1>2, <1>3, <1>4

LEMMA DescendLive ==
    ASSUME WhereInv, LockInv, LimitInv, NEW t \in Threads, Descend(t)
    PROVE  LimitInv' /\ (KeptInv => KeptInv')
  <1> USE DEF LimitInv, Descend, Goto, nodeVars, pageVars, fileVars, ghostVars
  <1>1. PageInv'
    <2> SUFFICES ASSUME NEW u \in Threads, pc'[u] \in {"push", "lock", "part", "giveBack"}
                 PROVE  page'[u] = pageId'[at'[u]]
      BY DEF PageInv
    <2>1. u # t /\ pc'[u] = pc[u] /\ at'[u] = at[u]
      BY DEF WhereInv, TypeOK
    <2> QED BY <2>1 DEF PageInv
  <1>2. CountInv'
    BY DEF CountInv
  <1>3. FullInv'
    <2>1. \A n \in Nodes : split'[n] # "split" => /\ split[n] # "split"
                                                  /\ Pending(n)' \subseteq Pending(n)
      BY DEF WhereInv, TypeOK, Pending
    <2>2. count' = count /\ fileNodes' = fileNodes /\ moving' = moving
      OBVIOUS
    <2>3. \A n \in Nodes : count'[n] <= count[n]
      BY <2>2, BoundsCounted
    <2>4. count' \in [Nodes -> Nat]
      BY <2>2 DEF WhereInv, TypeOK
    <2> QED BY <2>1, <2>2, <2>3, <2>4, StillFull DEF FullInv
  <1>4. ASSUME KeptInv PROVE KeptInv'
    <2> USE <1>4
    <2>1. \A u \in Threads : Held(u)' = Held(u)
      BY DEF Held
    <2> QED BY <2>1, StillKept DEF InHands
  <1> QED BY <1>1, <1>2, <1>3, <1>4

LEMMA TrySplitLive ==
    ASSUME WhereInv, LockInv, LimitInv, NEW t \in Threads, TrySplit(t)
    PROVE  LimitInv' /\ (KeptInv => KeptInv')
  <1> USE DEF LimitInv, TrySplit, Goto, nodeVars, pageVars, fileVars, ghostVars
  <1>1. PageInv'
    BY DEF WhereInv, TypeOK, HandInv, PageInv
  <1>2. CountInv'
    BY DEF CountInv
  <1>3. FullInv'
    <2>1. at[t] \in Nodes /\ count' = count /\ split' = split
      BY DEF WhereInv, TypeOK
    <2>2. ASSUME NEW n \in Nodes, 2 * n < MaxNode, split[n] # "split"
          PROVE  count[n] + Cardinality(Pending(n)') <= Bound
      <3>1. /\ Pending(n)' \in SUBSET Threads /\ Pending(n) \in SUBSET Threads
            /\ Cardinality(Pending(n)') \in Nat
            /\ Cardinality(Pending(n)') <= Cardinality(Threads)
        <4>1. Pending(n)' \in SUBSET Threads /\ Pending(n) \in SUBSET Threads
          BY DEF Pending
        <4> QED BY <4>1, ThreadsCounted
      <3>2. CASE n = at[t] /\ ~ IsFull(n)
        <4>1. count[n] <= Saturation
          BY <3>2, BoundsCounted DEF IsFull, CountInv
        <4> QED BY <3>1, <4>1, BoundsCounted DEF Bound
      <3>3. CASE n # at[t] \/ IsFull(n)
        <4>1. Pending(n)' \in SUBSET Pending(n)
          BY <2>1, <2>2, <3>3 DEF WhereInv, TypeOK, Pending
        <4>2. Cardinality(Pending(n)') <= Cardinality(Pending(n))
          BY <3>1, <4>1, ThreadsCounted
        <4>3. count[n] + Cardinality(Pending(n)) <= Bound
          BY <2>2 DEF FullInv
        <4> QED BY <3>1, <4>2, <4>3, BoundsCounted
      <3> QED BY <3>2, <3>3
    <2>3. Bound' = Bound /\ fileNodes' = fileNodes /\ moving' = moving
      BY DEF Bound
    <2> QED BY <2>1, <2>2, <2>3 DEF FullInv
  <1>4. ASSUME KeptInv PROVE KeptInv'
    <2> USE <1>4
    <2>1. \A u \in Threads : Held(u)' = Held(u)
      BY DEF Held
    <2> QED BY <2>1, StillKept DEF InHands
  <1> QED BY <1>1, <1>2, <1>3, <1>4

LEMMA AlreadySplitLive ==
    ASSUME WhereInv, LockInv, LimitInv, NEW t \in Threads, AlreadySplit(t)
    PROVE  LimitInv' /\ (KeptInv => KeptInv')
  <1> USE DEF LimitInv, AlreadySplit, Goto, nodeVars, pageVars, fileVars, ghostVars
  <1>1. PageInv'
    BY DEF WhereInv, TypeOK, HandInv, PageInv
  <1>2. CountInv'
    BY DEF CountInv
  <1>3. FullInv'
    <2>1. \A n \in Nodes : split'[n] # "split" => /\ split[n] # "split"
                                                  /\ Pending(n)' \subseteq Pending(n)
      BY DEF WhereInv, TypeOK, Pending
    <2>2. count' = count /\ fileNodes' = fileNodes /\ moving' = moving
      OBVIOUS
    <2>3. \A n \in Nodes : count'[n] <= count[n]
      BY <2>2, BoundsCounted
    <2>4. count' \in [Nodes -> Nat]
      BY <2>2 DEF WhereInv, TypeOK
    <2> QED BY <2>1, <2>2, <2>3, <2>4, StillFull DEF FullInv
  <1>4. ASSUME KeptInv PROVE KeptInv'
    <2> USE <1>4
    <2>1. \A u \in Threads : Held(u)' = Held(u)
      BY DEF Held
    <2> QED BY <2>1, StillKept DEF InHands
  <1> QED BY <1>1, <1>2, <1>3, <1>4

LEMMA BeginSplitLive ==
    ASSUME WhereInv, LockInv, LimitInv, NEW t \in Threads, BeginSplit(t)
    PROVE  LimitInv' /\ (KeptInv => KeptInv')
  <1> USE DEF LimitInv, BeginSplit, Goto, nodeVars, pageVars, fileVars, ghostVars
  <1>1. PageInv'
    BY DEF WhereInv, TypeOK, HandInv, PageInv
  <1>2. CountInv'
    BY DEF CountInv
  <1>3. FullInv'
    <2>1. \A n \in Nodes : split'[n] # "split" => /\ split[n] # "split"
                                                  /\ Pending(n)' \subseteq Pending(n)
      BY DEF WhereInv, TypeOK, Pending
    <2>2. count' = count /\ fileNodes' = fileNodes /\ moving' = moving
      OBVIOUS
    <2>3. \A n \in Nodes : count'[n] <= count[n]
      BY <2>2, BoundsCounted
    <2>4. count' \in [Nodes -> Nat]
      BY <2>2 DEF WhereInv, TypeOK
    <2> QED BY <2>1, <2>2, <2>3, <2>4, StillFull DEF FullInv
  <1>4. ASSUME KeptInv PROVE KeptInv'
    <2> USE <1>4
    <2>1. \A u \in Threads : Held(u)' = Held(u)
      BY DEF Held
    <2> QED BY <2>1, StillKept DEF InHands
  <1> QED BY <1>1, <1>2, <1>3, <1>4

LEMMA LockPageLive ==
    ASSUME WhereInv, LockInv, LimitInv, NEW t \in Threads, LockPage(t)
    PROVE  LimitInv' /\ (KeptInv => KeptInv')
  <1> USE DEF LimitInv, LockPage, Goto, nodeVars, pageVars, fileVars, ghostVars
  <1>1. PageInv'
    BY DEF WhereInv, TypeOK, HandInv, PageInv
  <1>2. CountInv'
    BY DEF CountInv
  <1>3. FullInv'
    <2>1. \A n \in Nodes : split'[n] # "split" => /\ split[n] # "split"
                                                  /\ Pending(n)' \subseteq Pending(n)
      BY DEF WhereInv, TypeOK, Pending
    <2>2. count' = count /\ fileNodes' = fileNodes /\ moving' = moving
      OBVIOUS
    <2>3. \A n \in Nodes : count'[n] <= count[n]
      BY <2>2, BoundsCounted
    <2>4. count' \in [Nodes -> Nat]
      BY <2>2 DEF WhereInv, TypeOK
    <2> QED BY <2>1, <2>2, <2>3, <2>4, StillFull DEF FullInv
  <1>4. ASSUME KeptInv PROVE KeptInv'
    <2> USE <1>4
    <2>1. \A u \in Threads : Held(u)' = Held(u)
      BY DEF Held
    <2> QED BY <2>1, StillKept DEF InHands
  <1> QED BY <1>1, <1>2, <1>3, <1>4

LEMMA StoreLive ==
    ASSUME WhereInv, LockInv, LimitInv, NEW t \in Threads, Store(t)
    PROVE  LimitInv' /\ (KeptInv => KeptInv')
  <1> USE DEF LimitInv, Store, Goto, nodeVars, pageVars, fileVars, ghostVars
  <1>1. PageInv'
    BY DEF WhereInv, TypeOK, HandInv, PageInv
  <1>2. CountInv'
    BY DEF CountInv
  <1>3. FullInv'
    <2>1. \A n \in Nodes : split'[n] # "split" => /\ split[n] # "split"
                                                  /\ Pending(n)' \subseteq Pending(n)
      BY DEF WhereInv, TypeOK, Pending
    <2>2. count' = count /\ fileNodes' = fileNodes /\ moving' = moving
      OBVIOUS
    <2>3. \A n \in Nodes : count'[n] <= count[n]
      BY <2>2, BoundsCounted
    <2>4. count' \in [Nodes -> Nat]
      BY <2>2 DEF WhereInv, TypeOK
    <2> QED BY <2>1, <2>2, <2>3, <2>4, StillFull DEF FullInv
  <1>4. ASSUME KeptInv PROVE KeptInv'
    <2> USE <1>4
    <2>1. \A u \in Threads : Held(u)' = Held(u)
      BY DEF Held
    <2> QED BY <2>1, StillKept DEF InHands
  <1> QED BY <1>1, <1>2, <1>3, <1>4

(* The one thread that splits a node takes its entries out. *)
LEMMA PartitionLive ==
    ASSUME WhereInv, LockInv, LimitInv, NEW t \in Threads, Partition(t)
    PROVE  LimitInv' /\ (KeptInv => KeptInv')
  <1> USE DEF LimitInv
  <1> DEFINE n == at[t]
             s == children[page[t]]
             share == Share(n, s)
  <1>1. /\ pc[t] = "part" /\ n \in Nodes /\ page[t] \in PageIds /\ s \in SUBSET Entries
        /\ page[t] = pageId[n] /\ pageId[n] # NoPage /\ count[n] = Cardinality(s)
        /\ 2 * n < MaxNode /\ split[n] = "splitting" /\ entry[t] \in Entries
        /\ moving[t].left = {} /\ moving[t].right = {}
    <2>1. pc[t] = "part" /\ n \in Nodes /\ page[t] \in PageIds /\ page[t] = pageId[n]
      BY DEF Partition, WhereInv, TypeOK, HandInv, PageInv
    <2>2. s \in SUBSET Entries /\ pageId[n] # NoPage
      BY <2>1 DEF WhereInv, TypeOK, NoPage, PageIds
    <2>3. count[n] = Cardinality(s)
      BY <2>1, <2>2 DEF CountInv
    <2>4. 2 * n < MaxNode /\ split[n] = "splitting"
      BY <2>1 DEF WhereInv, DepthInv, LockInv, SplitterInv, Splitting
    <2>5. entry[t] \in Entries /\ moving[t].left = {} /\ moving[t].right = {}
      BY <2>1, HalvesInside, <2>4 DEF WhereInv, HandInv
    <2> QED BY <2>1, <2>2, <2>3, <2>4, <2>5
  <1>2. /\ share.left \in SUBSET s /\ share.right \in SUBSET s /\ share.stay \in SUBSET s
        /\ s = share.left \cup share.right \cup share.stay
    BY DEF Share
  <1>3. /\ moving'[t].left = share.left /\ moving'[t].right = share.right
        /\ children'[page[t]] = share.stay
        /\ count'[n] = Cardinality(share.stay)
        /\ \A u \in Threads : u # t => moving'[u] = moving[u] /\ pc'[u] = pc[u]
        /\ \A p \in PageIds : p # page[t] => children'[p] = children[p]
        /\ \A m \in Nodes : m # n => count'[m] = count[m]
        /\ pagesDirty' = pagesDirty \cup {page[t]} /\ pc'[t] \in {"giveBack", "publish"}
        /\ count' \in [Nodes -> Nat]
    BY <1>1, <1>2, EntriesCounted DEF Partition, Recount, Goto, WhereInv, TypeOK
  <1>4. UNCHANGED <<pageId, split, reading, page, at, entry, waiting, filePages, fileNodes>>
    BY DEF Partition, fileVars
  <1>5. /\ Cardinality(share.left) <= count[n] /\ Cardinality(share.right) <= count[n]
        /\ Cardinality(share.stay) <= count[n] /\ Cardinality(share.left) \in Nat
        /\ Cardinality(share.right) \in Nat /\ Cardinality(share.stay) \in Nat
    BY <1>1, <1>2, PartCounted
  <1>6. \A m \in Nodes : m # n /\ pageId[m] # NoPage => /\ pageId[m] # page[t]
                                                         /\ pageId[m] \in PageIds
    BY <1>1, OwnedOnce DEF WhereInv, TypeOK
  <1> HIDE DEF n, s, share
  <1>7. PageInv'
    BY <1>1, <1>3, <1>4 DEF PageInv, n
  <1>8. CountInv'
    BY <1>1, <1>3, <1>4, <1>6 DEF CountInv
  <1>9. FullInv'
    <2>1. count[n] <= Bound
      <3>1. count[n] + Cardinality(Pending(n)) <= Bound
        BY <1>1 DEF FullInv
      <3> QED BY <1>1, <3>1, BoundsCounted
    <2>2. \A u \in Threads : /\ Cardinality(moving'[u].left) <= Bound
                             /\ Cardinality(moving'[u].right) <= Bound
      BY <1>1, <1>3, <1>5, <2>1, BoundsCounted DEF FullInv
    <2>3. \A m \in Nodes : count'[m] <= count[m]
      BY <1>3, <1>5, BoundsCounted
    <2>4. \A m \in Nodes : Pending(m)' \subseteq Pending(m)
      BY <1>3, <1>4 DEF Pending
    <2> QED BY <1>3, <1>4, <2>2, <2>3, <2>4, StillFull
  <1>10. ASSUME KeptInv PROVE KeptInv'
    <2>1. \A u \in Threads : u # t => Held(u)' = Held(u)
      BY <1>3, <1>4 DEF Held
    <2>2. Held(t) = {entry[t]} /\ Held(t)' = {entry[t]} \cup share.left \cup share.right
      BY <1>1, <1>3, <1>4 DEF Held
    <2>3. \A e \in Entries : InHands(e) => InHands(e)'
      BY <2>1, <2>2 DEF InHands
    <2>4. ASSUME NEW e \in Entries, NEW m \in Nodes, e \in At(m)
          PROVE  InHands(e)' \/ e \in At(m)'
      <3>1. CASE m = n
        BY <1>1, <1>2, <1>3, <1>4, <2>2, <2>4, <3>1 DEF At, InHands, s
      <3>2. CASE m # n
        BY <1>3, <1>4, <1>6, <2>4, <3>2 DEF At
      <3> QED BY <3>1, <3>2
    <2>5. \A e \in Entries : \/ e \in waiting' \/ InHands(e)'
                             \/ \E m \in Nodes : e \in At(m)'
      BY <1>4, <1>10, <2>3, <2>4 DEF KeptInv
    <2>6. \A m \in Nodes : pageId'[m] # NoPage /\ pageId'[m] \notin pagesDirty' =>
                             children'[pageId'[m]] = filePages'[pageId'[m]]
      BY <1>1, <1>3, <1>4, <1>6, <1>10 DEF KeptInv
    <2> QED BY <2>5, <2>6 DEF KeptInv
  <1> QED BY <1>7, <1>8, <1>9, <1>10

(* A node gives up its page: nobody else is at work on it. *)
LEMMA GiveBackLive ==
    ASSUME WhereInv, LockInv, LimitInv, NEW t \in Threads, GiveBack(t)
    PROVE  LimitInv' /\ (KeptInv => KeptInv')
  <1> USE DEF LimitInv
  <1> DEFINE n == at[t]
  <1>1. /\ pc[t] = "giveBack" /\ n \in Nodes /\ page[t] \in PageIds
        /\ page[t] = pageId[n] /\ pageId[n] # NoPage
        /\ children[pageId[n]] = {} /\ count[n] = 0
    <2>1. /\ pc[t] = "giveBack" /\ n \in Nodes /\ page[t] \in PageIds
          /\ page[t] = pageId[n]
      BY DEF GiveBack, WhereInv, TypeOK, HandInv, PageInv
    <2>2. pageId[n] # NoPage /\ children[pageId[n]] = {}
      BY <2>1 DEF NoPage, PageIds, LockInv, EmptiedInv
    <2>3. count[n] = 0
      BY <2>1, <2>2, FS_EmptySet DEF CountInv
    <2> QED BY <2>1, <2>2, <2>3
  <1>2. /\ UNCHANGED <<count, split, reading, children, pagesDirty, fileNodes, filePages,
                       at, entry, page, moving, waiting>>
        /\ pc'[t] = "publish" /\ \A u \in Threads : u # t => pc'[u] = pc[u]
    BY DEF GiveBack, Goto, pageVars, fileVars, WhereInv, TypeOK
  <1>3. \/ pageId' = pageId
        \/ /\ reading[n] = {} /\ pageId'[n] = NoPage
           /\ \A m \in Nodes : m # n => pageId'[m] = pageId[m]
    BY <1>1 DEF GiveBack, MayGiveBack, WhereInv, TypeOK
  <1> HIDE DEF n
  <1>4. PageInv'
    <2> SUFFICES ASSUME NEW u \in Threads, pc'[u] \in {"push", "lock", "part", "giveBack"},
                        pageId' # pageId
                 PROVE  page'[u] = pageId'[at'[u]]
      BY <1>2 DEF PageInv
    <2>1. u # t /\ pc[u] \in {"push", "lock", "part", "giveBack"} /\ page[u] = pageId[at[u]]
      BY <1>2 DEF PageInv
    <2>2. at[u] # n
      BY <1>1, <1>3, <2>1 DEF LockInv, ReadingInv, SplitterInv, Splitting, n
    <2> QED BY <1>2, <1>3, <2>1, <2>2 DEF WhereInv, TypeOK
  <1>5. CountInv'
    BY <1>1, <1>2, <1>3 DEF CountInv
  <1>6. FullInv'
    <2>1. \A m \in Nodes : Pending(m)' \subseteq Pending(m)
      BY <1>1, <1>2 DEF Pending
    <2>2. count' \in [Nodes -> Nat]
      BY <1>2 DEF WhereInv, TypeOK
    <2>3. \A m \in Nodes : count'[m] <= count[m]
      BY <1>2, BoundsCounted
    <2> QED BY <1>2, <2>1, <2>2, <2>3, StillFull DEF FullInv
  <1>7. ASSUME KeptInv PROVE KeptInv'
    <2>1. \A e : InHands(e)' <=> InHands(e)
      BY <1>2 DEF InHands, Held
    <2>2. \A m \in Nodes : At(m)' = At(m)
      BY <1>1, <1>2, <1>3 DEF At
    <2>3. \A m \in Nodes : pageId'[m] # NoPage => pageId'[m] = pageId[m]
      BY <1>3
    <2> QED BY <1>2, <1>7, <2>1, <2>2, <2>3 DEF KeptInv
  <1> QED BY <1>4, <1>5, <1>6, <1>7

(* An entry is stored in its node's page, which nobody has locked. *)
LEMMA PushLive ==
    ASSUME WhereInv, OnceInv, LockInv, LimitInv, NEW t \in Threads, Push(t)
    PROVE  LimitInv' /\ (KeptInv => KeptInv')
  <1> USE DEF LimitInv
  <1> DEFINE n == at[t]
             p == page[t]
             e == entry[t]
  <1>1. /\ pc[t] = "push" /\ n \in Nodes /\ p \in PageIds /\ children[p] \in SUBSET Entries
        /\ p = pageId[n] /\ pageId[n] # NoPage /\ count[n] = Cardinality(children[p])
        /\ e \in Entries /\ e \notin children[p] /\ count[n] \in Nat
        /\ moving[t].left = {} /\ moving[t].right = {}
    <2>1. pc[t] = "push" /\ n \in Nodes /\ p \in PageIds /\ p = pageId[n]
      BY DEF Push, WhereInv, TypeOK, HandInv, PageInv
    <2>2. children[p] \in SUBSET Entries /\ pageId[n] # NoPage /\ count[n] \in Nat
      BY <2>1 DEF WhereInv, TypeOK, NoPage, PageIds
    <2>3. count[n] = Cardinality(children[p])
      BY <2>1, <2>2 DEF CountInv
    <2>4. e \in Within[n] /\ moving[t].left = {} /\ moving[t].right = {}
      BY <2>1 DEF WhereInv, HandInv
    <2>5. e \in Entries
      BY <2>1, <2>4, DenseConstants DEF Nodes
    <2>6. e \notin children[p]
      BY <2>1 DEF OnceInv, Held
    <2> QED BY <2>1, <2>2, <2>3, <2>4, <2>5, <2>6
  <1>2. /\ children'[p] = children[p] \cup {e} /\ count'[n] = count[n] + 1
        /\ \A q \in PageIds : q # p => children'[q] = children[q]
        /\ \A m \in Nodes : m # n => count'[m] = count[m]
        /\ pc'[t] = "idle" /\ \A u \in Threads : u # t => /\ pc'[u] = pc[u] /\ at'[u] = at[u]
                                                          /\ page'[u] = page[u]
                                                          /\ entry'[u] = entry[u]
        /\ entry'[t] = NoEntry /\ pagesDirty' = pagesDirty \cup {p}
        /\ UNCHANGED <<pageId, split, fileNodes, filePages, moving, waiting>>
    BY <1>1 DEF Push, Return, Goto, Increment, fileVars, WhereInv, TypeOK
  <1>3. \A m \in Nodes : m # n /\ pageId[m] # NoPage => pageId[m] # p /\ pageId[m] \in PageIds
    BY <1>1, OwnedOnce DEF WhereInv, TypeOK
  <1>4. Cardinality(children'[p]) = count'[n]
    BY <1>1, <1>2, OneMore
  <1>5. t \in Pending(n)
    BY <1>1 DEF Pending
  <1> HIDE DEF n, p, e
  <1>6. PageInv'
    BY <1>2 DEF PageInv
  <1>7. CountInv'
    <2>1. ASSUME NEW m \in Nodes
          PROVE  /\ pageId'[m] # NoPage => count'[m] = Cardinality(children'[pageId'[m]])
                 /\ pageId'[m] = NoPage => count'[m] = 0
      <3>1. CASE m = n
        BY <1>1, <1>2, <1>4, <3>1
      <3>2. CASE m # n
        <4>1. count'[m] = count[m] /\ pageId'[m] = pageId[m]
          BY <1>2, <3>2
        <4>2. pageId[m] # NoPage => children'[pageId[m]] = children[pageId[m]]
          BY <1>2, <1>3, <3>2
        <4> QED BY <4>1, <4>2 DEF CountInv
      <3> QED BY <3>1, <3>2
    <2> QED BY <1>2, <2>1 DEF CountInv
  <1>8. FullInv'
    <2>1. ASSUME NEW m \in Nodes, 2 * m < MaxNode, split[m] # "split"
          PROVE  count'[m] + Cardinality(Pending(m)') <= Bound
      <3>1. Pending(m)' \in SUBSET (Pending(m) \ {t}) /\ Pending(m) \in SUBSET Threads
        BY <1>2 DEF Pending
      <3>2. /\ Cardinality(Pending(m)') \in Nat /\ Cardinality(Pending(m)) \in Nat
            /\ Cardinality(Pending(m)') <= Cardinality(Pending(m))
            /\ t \in Pending(m) => Cardinality(Pending(m)') + 1 <= Cardinality(Pending(m))
        BY <3>1, ThreadsCounted
      <3>3. count[m] + Cardinality(Pending(m)) <= Bound /\ count[m] \in Nat /\ Bound \in Nat
        BY <2>1, BoundsCounted DEF FullInv
      <3> QED BY <1>2, <1>5, <3>2, <3>3
    <2>2. Bound' = Bound
      BY DEF Bound
    <2> QED BY <1>2, <2>1, <2>2 DEF FullInv
  <1>9. ASSUME KeptInv PROVE KeptInv'
    <2>1. \A u \in Threads : u # t => Held(u)' = Held(u)
      BY <1>2 DEF Held
    <2>2. Held(t) = {e}
      BY <1>1 DEF Held, e
    <2>3. \E m \in Nodes : e \in At(m)'
      <3>1. PICK m \in Nodes : m = n
        BY <1>1
      <3>2. pageId'[m] # NoPage /\ e \in children'[pageId'[m]]
        BY <1>1, <1>2, <3>1
      <3> QED BY <3>2 DEF At
    <2>4. \A f \in Entries : InHands(f) => InHands(f)' \/ f = e
      BY <2>1, <2>2 DEF InHands
    <2>5. \A m \in Nodes : At(m) \subseteq At(m)'
      BY <1>1, <1>2, <1>3 DEF At
    <2>6. \A m \in Nodes : pageId'[m] # NoPage /\ pageId'[m] \notin pagesDirty' =>
                             children'[pageId'[m]] = filePages'[pageId'[m]]
      BY <1>1, <1>2, <1>3, <1>9 DEF KeptInv
    <2>7. \A f \in Entries : \/ f \in waiting' \/ InHands(f)'
                             \/ \E m \in Nodes : f \in At(m)'
      <3> SUFFICES ASSUME NEW f \in Entries, f \notin waiting', ~ InHands(f)'
                   PROVE  \E m \in Nodes : f \in At(m)'
        OBVIOUS
      <3>1. f = e \/ \E m \in Nodes : f \in At(m)
        BY <1>2, <1>9, <2>4 DEF KeptInv
      <3> QED BY <2>3, <2>5, <3>1
    <2> QED BY <2>6, <2>7 DEF KeptInv
  <1> QED BY <1>6, <1>7, <1>8, <1>9

(* The first entry of a node that has no page, which makes one. *)
LEMMA PushToNewPageLive ==
    ASSUME WhereInv, LockInv, LimitInv, NEW t \in Threads, PushToNewPage(t),
           pageId[at[t]] = NoPage
    PROVE  LimitInv' /\ (KeptInv => KeptInv')
  <1> USE DEF LimitInv
  <1> DEFINE n == at[t]
             p == pages + 1
             e == entry[t]
  <1>1. /\ pc[t] = "new" /\ n \in Nodes /\ p \in PageIds /\ p # NoPage
        /\ pageId[n] = NoPage /\ count[n] = 0 /\ e \in Entries
        /\ moving[t].left = {} /\ moving[t].right = {}
    <2>1. /\ pc[t] = "new" /\ n \in Nodes /\ p \in PageIds /\ p # NoPage
          /\ pageId[n] = NoPage
      BY DEF PushToNewPage, WhereInv, TypeOK, NoPage, PageIds
    <2>2. count[n] = 0
      BY <2>1 DEF CountInv
    <2>3. e \in Within[n] /\ moving[t].left = {} /\ moving[t].right = {}
      BY <2>1 DEF WhereInv, HandInv
    <2>4. e \in Entries
      BY <2>1, <2>3, DenseConstants DEF Nodes
    <2> QED BY <2>1, <2>2, <2>3, <2>4
  <1>2. /\ children'[p] = {e} /\ count'[n] = 1 /\ pageId'[n] = p
        /\ \A q \in PageIds : q # p => children'[q] = children[q]
        /\ \A m \in Nodes : m # n => count'[m] = count[m] /\ pageId'[m] = pageId[m]
        /\ pc'[t] = "idle" /\ \A u \in Threads : u # t => /\ pc'[u] = pc[u] /\ at'[u] = at[u]
                                                          /\ page'[u] = page[u]
                                                          /\ entry'[u] = entry[u]
        /\ entry'[t] = NoEntry /\ pagesDirty' = pagesDirty \cup {p}
        /\ UNCHANGED <<split, fileNodes, filePages, moving, waiting>>
    BY <1>1 DEF PushToNewPage, Return, Goto, WhereInv, TypeOK
  <1>3. \A m \in Nodes : pageId[m] # NoPage => m # n /\ pageId[m] # p /\ pageId[m] \in PageIds
    <2>1. \A m \in Nodes : pageId[m] # NoPage => /\ pageId[m] \in PageIds
                                                 /\ pageId[m] <= pages
      BY OwnedIsOld
    <2>2. pages \in Nat /\ \A q \in PageIds : q \in Nat
      BY DEF WhereInv, TypeOK, PageIds
    <2> QED BY <1>1, <2>1, <2>2
  <1>4. t \in Pending(n)
    BY <1>1 DEF Pending
  <1> HIDE DEF n, p, e
  <1>5. PageInv'
    <2> SUFFICES ASSUME NEW u \in Threads, pc'[u] \in {"push", "lock", "part", "giveBack"}
                 PROVE  page'[u] = pageId'[at'[u]]
      BY DEF PageInv
    <2>1. /\ u # t /\ pc[u] \in {"push", "lock", "part", "giveBack"}
          /\ at[u] \in Nodes /\ page[u] = pageId[at[u]] /\ page[u] # NoPage
      BY <1>2 DEF WhereInv, TypeOK, HandInv, PageInv
    <2> QED BY <1>1, <1>2, <2>1
  <1>6. CountInv'
    <2>1. Cardinality({e}) = 1
      BY FS_Singleton
    <2> SUFFICES ASSUME NEW m \in Nodes
                 PROVE  /\ pageId'[m] # NoPage => count'[m] = Cardinality(children'[pageId'[m]])
                        /\ pageId'[m] = NoPage => count'[m] = 0
                        /\ fileNodes'[m].pageId = NoPage => fileNodes'[m].count = 0
      BY DEF CountInv
    <2>2. CASE m = n
      BY <1>1, <1>2, <2>1, <2>2 DEF CountInv
    <2>3. CASE m # n
      BY <1>2, <1>3, <2>3 DEF CountInv
    <2> QED BY <2>2, <2>3
  <1>7. FullInv'
    <2>1. ASSUME NEW m \in Nodes, 2 * m < MaxNode, split[m] # "split"
          PROVE  count'[m] + Cardinality(Pending(m)') <= Bound
      <3>1. Pending(m)' \in SUBSET (Pending(m) \ {t}) /\ Pending(m) \in SUBSET Threads
        BY <1>2 DEF Pending
      <3>2. /\ Cardinality(Pending(m)') \in Nat /\ Cardinality(Pending(m)) \in Nat
            /\ Cardinality(Pending(m)') <= Cardinality(Pending(m))
            /\ t \in Pending(m) => Cardinality(Pending(m)') + 1 <= Cardinality(Pending(m))
        BY <3>1, ThreadsCounted
      <3>3. count[m] + Cardinality(Pending(m)) <= Bound /\ count[m] \in Nat /\ Bound \in Nat
        BY <2>1, BoundsCounted DEF FullInv
      <3> QED BY <1>1, <1>2, <1>4, <3>2, <3>3
    <2>2. Bound' = Bound
      BY DEF Bound
    <2> QED BY <1>2, <2>1, <2>2 DEF FullInv
  <1>8. ASSUME KeptInv PROVE KeptInv'
    <2>1. \A u \in Threads : u # t => Held(u)' = Held(u)
      BY <1>2 DEF Held
    <2>2. Held(t) = {e}
      BY <1>1 DEF Held, e
    <2>3. \E m \in Nodes : e \in At(m)'
      <3>1. PICK m \in Nodes : m = n
        BY <1>1
      <3>2. pageId'[m] # NoPage /\ e \in children'[pageId'[m]]
        BY <1>1, <1>2, <3>1
      <3> QED BY <3>2 DEF At
    <2>4. \A f \in Entries : InHands(f) => InHands(f)' \/ f = e
      BY <2>1, <2>2 DEF InHands
    <2>5. \A m \in Nodes : At(m) \subseteq At(m)'
      BY <1>1, <1>2, <1>3 DEF At
    <2>6. \A m \in Nodes : pageId'[m] # NoPage /\ pageId'[m] \notin pagesDirty' =>
                             children'[pageId'[m]] = filePages'[pageId'[m]]
      BY <1>1, <1>2, <1>3, <1>8 DEF KeptInv
    <2>7. \A f \in Entries : \/ f \in waiting' \/ InHands(f)'
                             \/ \E m \in Nodes : f \in At(m)'
      <3> SUFFICES ASSUME NEW f \in Entries, f \notin waiting', ~ InHands(f)'
                   PROVE  \E m \in Nodes : f \in At(m)'
        OBVIOUS
      <3>1. f = e \/ \E m \in Nodes : f \in At(m)
        BY <1>2, <1>8, <2>4 DEF KeptInv
      <3> QED BY <2>3, <2>5, <3>1
    <2> QED BY <2>6, <2>7 DEF KeptInv
  <1> QED BY <1>5, <1>6, <1>7, <1>8

LeftPage(t) == HalfPage(moving[t].left, pages + 1)
RightPage(t) == HalfPage(moving[t].right,
                         IF moving[t].left = {} THEN pages + 1 ELSE pages + 2)

(* What a split leaves behind: two halves that had no page, with new pages *)
(* for what they get.                                                      *)
LEMMA Published ==
    ASSUME WhereInv, LockInv, NEW t \in Threads, Publish(t)
    PROVE  LET n == at[t]  left == moving[t].left  right == moving[t].right
               l == LeftPage(t)  r == RightPage(t)
           IN /\ n \in Nodes /\ 2 * n \in Nodes /\ 2 * n + 1 \in Nodes /\ 2 * n # 2 * n + 1
              /\ n # 2 * n /\ n # 2 * n + 1
              /\ left \in SUBSET Entries /\ right \in SUBSET Entries
              /\ split[n] = "splitting" /\ ~ Reachable(2 * n) /\ ~ Reachable(2 * n + 1)
              /\ pageId[2 * n] = NoPage /\ pageId[2 * n + 1] = NoPage
              /\ l \in PageIds \cup {NoPage} /\ (l = NoPage <=> left = {})
              /\ r \in PageIds \cup {NoPage} /\ (r = NoPage <=> right = {})
              /\ l = r => l = NoPage
              /\ \A m \in Nodes : pageId[m] # NoPage =>
                    pageId[m] \in PageIds /\ pageId[m] # l /\ pageId[m] # r
              /\ \A m \in Nodes :
                    /\ pageId'[m] = IF m = 2 * n THEN l
                                    ELSE IF m = 2 * n + 1 THEN r ELSE pageId[m]
                    /\ count'[m] = IF m = 2 * n THEN Cardinality(left)
                                   ELSE IF m = 2 * n + 1 THEN Cardinality(right)
                                   ELSE count[m]
                    /\ split'[m] = IF m = n THEN "split" ELSE split[m]
              /\ \A p \in PageIds : children'[p] = IF p = l THEN left
                                                   ELSE IF p = r THEN right
                                                   ELSE children[p]
              /\ pagesDirty' = pagesDirty \cup ({l, r} \ {NoPage})
              /\ pc[t] = "publish" /\ pc'[t] = "descend"
              /\ moving'[t] = [left |-> {}, right |-> {}]
              /\ \A u \in Threads : u # t => /\ pc'[u] = pc[u] /\ page'[u] = page[u]
                                             /\ moving'[u] = moving[u]
              /\ UNCHANGED <<at, entry, waiting, fileNodes, filePages, overwrote, stale>>
  <1> DEFINE n == at[t]
             left == moving[t].left
             right == moving[t].right
             l == LeftPage(t)
             r == RightPage(t)
  <1>1. /\ pc[t] = "publish" /\ n \in Nodes /\ 2 * n < MaxNode
        /\ left \in SUBSET Entries /\ right \in SUBSET Entries
        /\ pages \in Nat
    BY DEF Publish, WhereInv, TypeOK, HandInv, DepthInv
  <1>2. /\ 2 * n \in Nodes /\ 2 * n + 1 \in Nodes /\ 2 * n # 2 * n + 1
        /\ n # 2 * n /\ n # 2 * n + 1 /\ 2 * n # 1 /\ 2 * n + 1 # 1
    BY <1>1, HalvesInside DEF Nodes
  <1>3. split[n] = "splitting"
    BY <1>1 DEF LockInv, SplitterInv, Splitting
  <1>4. ~ Reachable(2 * n) /\ ~ Reachable(2 * n + 1)
    BY <1>1, <1>2, <1>3, HalfOf DEF Reachable
  <1>5. pageId[2 * n] = NoPage /\ pageId[2 * n + 1] = NoPage
    BY <1>2, <1>4 DEF LockInv, ReachInv
  <1>6. /\ l = (IF left = {} THEN NoPage ELSE pages + 1)
        /\ r = (IF right = {} THEN NoPage
                ELSE IF left = {} THEN pages + 1 ELSE pages + 2)
    BY DEF LeftPage, RightPage, HalfPage
  <1>7. {l, r} \ {NoPage} \subseteq PageIds
    BY DEF Publish, LeftPage, RightPage
  <1>8. /\ l \in PageIds \cup {NoPage} /\ (l = NoPage <=> left = {})
        /\ r \in PageIds \cup {NoPage} /\ (r = NoPage <=> right = {})
        /\ l = r => l = NoPage
    BY <1>1, <1>6, <1>7 DEF NoPage
  <1>9. ASSUME NEW m \in Nodes, pageId[m] # NoPage
        PROVE  pageId[m] \in PageIds /\ pageId[m] # l /\ pageId[m] # r
    <2>1. pageId[m] \in PageIds /\ pageId[m] <= pages
      BY <1>9, OwnedIsOld
    <2>2. pageId[m] \in Nat \ {0}
      BY <2>1 DEF PageIds
    <2> QED BY <1>1, <1>6, <2>1, <2>2 DEF NoPage
  <1>10. /\ pageId' = [pageId EXCEPT ![2 * n] = l, ![2 * n + 1] = r]
         /\ count' = [count EXCEPT ![2 * n] = Cardinality(left),
                                   ![2 * n + 1] = Cardinality(right)]
         /\ children' = [p \in PageIds |-> IF p = l THEN left
                                           ELSE IF p = r THEN right
                                           ELSE children[p]]
         /\ pagesDirty' = pagesDirty \cup ({l, r} \ {NoPage})
         /\ split' = [split EXCEPT ![n] = "split"]
         /\ moving' = [moving EXCEPT ![t] = [left |-> {}, right |-> {}]]
         /\ page' = [page EXCEPT ![t] = NoPage]
         /\ pc' = [pc EXCEPT ![t] = "descend"]
         /\ UNCHANGED <<at, entry, waiting, fileNodes, filePages, overwrote, stale>>
    BY DEF Publish, Goto, LeftPage, RightPage, fileVars, ghostVars
  <1> HIDE DEF n, left, right, l, r
  <1>11. \A m \in Nodes :
            /\ pageId'[m] = IF m = 2 * n THEN l
                            ELSE IF m = 2 * n + 1 THEN r ELSE pageId[m]
            /\ count'[m] = IF m = 2 * n THEN Cardinality(left)
                           ELSE IF m = 2 * n + 1 THEN Cardinality(right)
                           ELSE count[m]
            /\ split'[m] = IF m = n THEN "split" ELSE split[m]
    BY <1>2, <1>10 DEF WhereInv, TypeOK
  <1>12. /\ pc'[t] = "descend" /\ moving'[t] = [left |-> {}, right |-> {}]
         /\ \A u \in Threads : u # t => /\ pc'[u] = pc[u] /\ page'[u] = page[u]
                                        /\ moving'[u] = moving[u]
    BY <1>10 DEF WhereInv, TypeOK
  <1> QED BY <1>1, <1>2, <1>3, <1>4, <1>5, <1>8, <1>9, <1>10, <1>11, <1>12
          DEF n, left, right, l, r

(* The halves are made, of what the split has taken out. *)
LEMMA PublishLive ==
    ASSUME WhereInv, LockInv, LimitInv, NEW t \in Threads, Publish(t)
    PROVE  LimitInv' /\ (KeptInv => KeptInv')
  <1> USE DEF LimitInv
  <1>0. PICK n \in Nodes : n = at[t]
    BY DEF WhereInv, TypeOK
  <1>1. PICK left \in SUBSET Entries, right \in SUBSET Entries :
           left = moving[t].left /\ right = moving[t].right
    BY Published
  <1>2. PICK l \in PageIds \cup {NoPage}, r \in PageIds \cup {NoPage} :
           l = LeftPage(t) /\ r = RightPage(t)
    BY Published
  <1>3. /\ 2 * n \in Nodes /\ 2 * n + 1 \in Nodes /\ 2 * n # 2 * n + 1
        /\ n # 2 * n /\ n # 2 * n + 1
        /\ split[n] = "splitting" /\ ~ Reachable(2 * n) /\ ~ Reachable(2 * n + 1)
        /\ pageId[2 * n] = NoPage /\ pageId[2 * n + 1] = NoPage
        /\ (l = NoPage <=> left = {}) /\ (r = NoPage <=> right = {})
        /\ l = r => l = NoPage
    BY <1>0, <1>1, <1>2, Published
  <1>4. /\ \A m \in Nodes : pageId[m] # NoPage =>
              pageId[m] \in PageIds /\ pageId[m] # l /\ pageId[m] # r
        /\ \A m \in Nodes :
              /\ pageId'[m] = IF m = 2 * n THEN l
                              ELSE IF m = 2 * n + 1 THEN r ELSE pageId[m]
              /\ count'[m] = IF m = 2 * n THEN Cardinality(left)
                             ELSE IF m = 2 * n + 1 THEN Cardinality(right)
                             ELSE count[m]
              /\ split'[m] = IF m = n THEN "split" ELSE split[m]
        /\ \A p \in PageIds : children'[p] = IF p = l THEN left
                                             ELSE IF p = r THEN right
                                             ELSE children[p]
        /\ pagesDirty' = pagesDirty \cup ({l, r} \ {NoPage})
    BY <1>0, <1>1, <1>2, Published
  <1>5. /\ pc[t] = "publish" /\ pc'[t] = "descend"
        /\ moving'[t] = [left |-> {}, right |-> {}]
        /\ \A u \in Threads : u # t => /\ pc'[u] = pc[u] /\ page'[u] = page[u]
                                       /\ moving'[u] = moving[u]
        /\ UNCHANGED <<at, entry, waiting, fileNodes, filePages, overwrote, stale>>
    BY Published
  <1>6. PageInv'
    <2> SUFFICES ASSUME NEW u \in Threads, pc'[u] \in {"push", "lock", "part", "giveBack"}
                 PROVE  page'[u] = pageId'[at'[u]]
      BY DEF PageInv
    <2>1. /\ u # t /\ pc[u] \in {"push", "lock", "part", "giveBack"}
          /\ at[u] \in Nodes /\ page[u] = pageId[at[u]] /\ Reachable(at[u])
      BY <1>5 DEF WhereInv, TypeOK, PageInv, LockInv, ReachInv
    <2>2. at[u] # 2 * n /\ at[u] # 2 * n + 1
      BY <1>3, <2>1
    <2> QED BY <1>4, <1>5, <2>1, <2>2
  <1>7. CountInv'
    <2> SUFFICES ASSUME NEW m \in Nodes
                 PROVE  /\ pageId'[m] # NoPage => count'[m] = Cardinality(children'[pageId'[m]])
                        /\ pageId'[m] = NoPage => count'[m] = 0
                        /\ fileNodes'[m].pageId = NoPage => fileNodes'[m].count = 0
      BY DEF CountInv
    <2>0. Cardinality({}) = 0 /\ NoPage \notin PageIds
      BY FS_EmptySet DEF NoPage, PageIds
    <2>1. CASE m = 2 * n
      <3>1. pageId'[m] = l /\ count'[m] = Cardinality(left)
        BY <1>4, <2>1
      <3>2. l # NoPage => children'[l] = left
        BY <1>4
      <3> QED BY <1>3, <1>5, <2>0, <3>1, <3>2 DEF CountInv
    <2>2. CASE m = 2 * n + 1
      <3>1. pageId'[m] = r /\ count'[m] = Cardinality(right)
        BY <1>3, <1>4, <2>2
      <3>2. r # NoPage => children'[r] = right
        BY <1>3, <1>4
      <3> QED BY <1>3, <1>5, <2>0, <3>1, <3>2 DEF CountInv
    <2>3. CASE m # 2 * n /\ m # 2 * n + 1
      BY <1>4, <1>5, <2>3 DEF CountInv
    <2> QED BY <2>1, <2>2, <2>3
  <1>8. FullInv'
    <2>1. \A m \in Nodes : Pending(m)' \in SUBSET Pending(m) /\ Pending(m) \in SUBSET Threads
      BY <1>5 DEF Pending
    <2>2. /\ Pending(2 * n)' = {} /\ Pending(2 * n + 1)' = {}
          /\ Cardinality({}) = 0 /\ 0 <= Bound
      <3>1. Pending(2 * n) = {} /\ Pending(2 * n + 1) = {}
        BY <1>3 DEF Pending, LockInv, ReachInv
      <3> QED BY <1>3, <2>1, <3>1, FS_EmptySet, BoundsCounted
    <2>3. /\ Cardinality(left) <= Bound /\ Cardinality(right) <= Bound
          /\ Cardinality(left) \in Nat /\ Cardinality(right) \in Nat
      BY <1>1, EntriesCounted DEF FullInv
    <2>4. ASSUME NEW m \in Nodes, 2 * m < MaxNode, split'[m] # "split"
          PROVE  count'[m] + Cardinality(Pending(m)') <= Bound
      <3>1. CASE m = 2 * n \/ m = 2 * n + 1
        <4>1. count'[m] = Cardinality(left) \/ count'[m] = Cardinality(right)
          BY <1>4, <3>1
        <4>2. Cardinality(Pending(m)') = 0
          BY <2>2, <3>1
        <4> QED BY <2>3, <4>1, <4>2
      <3>2. CASE m # 2 * n /\ m # 2 * n + 1
        <4>1. m # n /\ count'[m] = count[m] /\ split[m] # "split"
          BY <1>4, <2>4, <3>2
        <4>2. /\ Cardinality(Pending(m)') <= Cardinality(Pending(m))
              /\ Cardinality(Pending(m)') \in Nat
          BY <2>1, ThreadsCounted
        <4>3. count[m] + Cardinality(Pending(m)) <= Bound
          BY <2>4, <4>1 DEF FullInv
        <4> QED BY <4>1, <4>2, <4>3, BoundsCounted
      <3> QED BY <3>1, <3>2
    <2>5. \A u \in Threads : /\ Cardinality(moving'[u].left) <= Bound
                             /\ Cardinality(moving'[u].right) <= Bound
      <3>1. moving'[t].left = {} /\ moving'[t].right = {}
        BY <1>5
      <3>2. ASSUME NEW u \in Threads, u # t
            PROVE  /\ Cardinality(moving'[u].left) <= Bound
                   /\ Cardinality(moving'[u].right) <= Bound
        BY <1>5, <3>2 DEF FullInv
      <3> QED BY <2>2, <3>1, <3>2
    <2>6. Bound' = Bound
      BY DEF Bound
    <2> QED BY <1>5, <2>4, <2>5, <2>6 DEF FullInv
  <1>9. ASSUME KeptInv PROVE KeptInv'
    <2>1. \A u \in Threads : u # t => Held(u)' = Held(u)
      BY <1>5 DEF Held
    <2>2. Held(t) = {entry[t]} \cup left \cup right /\ entry[t] \in Held(t)'
      BY <1>1, <1>5 DEF Held
    <2>3. \A e \in left : e \in At(2 * n)'
      BY <1>3, <1>4 DEF At, NoPage, PageIds
    <2>4. \A e \in right : e \in At(2 * n + 1)'
      BY <1>3, <1>4 DEF At, NoPage, PageIds
    <2>5. \A m \in Nodes : m # 2 * n /\ m # 2 * n + 1 => At(m)' = At(m)
      BY <1>4 DEF At
    <2>6. At(2 * n) = {} /\ At(2 * n + 1) = {}
      BY <1>3 DEF At
    <2>7. ASSUME NEW e \in Entries, ~ InHands(e)', e \notin waiting'
          PROVE  \E m \in Nodes : e \in At(m)'
      <3>1. e \in left \cup right \/ ~ InHands(e)
        BY <2>1, <2>2, <2>7 DEF InHands
      <3>2. e \in left \cup right \/ \E m \in Nodes : e \in At(m)
        BY <1>5, <1>9, <2>7, <3>1 DEF KeptInv
      <3> QED BY <1>3, <2>3, <2>4, <2>5, <2>6, <3>2
    <2>8. ASSUME NEW m \in Nodes, pageId'[m] # NoPage, pageId'[m] \notin pagesDirty'
          PROVE  children'[pageId'[m]] = filePages'[pageId'[m]]
      <3>1. m # 2 * n /\ m # 2 * n + 1
        BY <1>4, <2>8
      <3>2. pageId'[m] = pageId[m] /\ pageId[m] \notin pagesDirty /\ pageId[m] # NoPage
        BY <1>4, <2>8, <3>1
      <3> QED BY <1>4, <1>5, <1>9, <3>2 DEF KeptInv
    <2> QED BY <2>7, <2>8 DEF KeptInv
  <1> QED BY <1>6, <1>7, <1>8, <1>9

(* The files are written: a page that is not marked stays as it is there. *)
LEMMA FlushLive ==
    ASSUME WhereInv, LockInv, LimitInv, Flush
    PROVE  LimitInv' /\ (KeptInv => KeptInv')
  <1> USE DEF LimitInv
  <1>1. /\ UNCHANGED <<pageId, count, split, reading, children, pc, at, entry, page,
                       moving, waiting>>
        /\ \A n \in Nodes : fileNodes'[n] = fileNodes[n] \/ fileNodes'[n] = NodesNow[n]
        /\ \A p \in PageIds : filePages'[p] = WrittenBack(p)
        /\ pagesDirty' = {}
    BY DEF Flush, nodeVars, threadVars
  <1>2. \A n \in Nodes : /\ NodesNow[n].pageId = pageId[n] /\ NodesNow[n].split = split[n]
                         /\ NodesNow[n].count = IF pageId[n] = NoPage THEN 0 ELSE count[n]
    BY DEF NodesNow
  <1>3. PageInv'
    BY <1>1 DEF PageInv
  <1>4. CountInv'
    BY <1>1, <1>2 DEF CountInv
  <1>5. FullInv'
    <2>1. \A n : Pending(n)' = Pending(n)
      BY <1>1 DEF Pending
    <2>2. Bound' = Bound
      BY DEF Bound
    <2>3. ASSUME NEW n \in Nodes, 2 * n < MaxNode, fileNodes'[n].split # "split"
          PROVE  fileNodes'[n].count <= Bound
      <3>1. CASE fileNodes'[n] = fileNodes[n]
        BY <2>3, <3>1 DEF FullInv
      <3>2. CASE fileNodes'[n] = NodesNow[n]
        <4>1. count[n] + Cardinality(Pending(n)) <= Bound
          BY <1>2, <2>3, <3>2 DEF FullInv
        <4> QED BY <1>2, <3>2, <4>1, BoundsCounted
      <3> QED BY <1>1, <3>1, <3>2
    <2> QED BY <1>1, <2>1, <2>2, <2>3 DEF FullInv
  <1>6. ASSUME KeptInv PROVE KeptInv'
    <2>1. \A e : InHands(e)' <=> InHands(e)
      BY <1>1 DEF InHands, Held
    <2>2. \A n \in Nodes : At(n)' = At(n)
      BY <1>1 DEF At
    <2>3. \A n \in Nodes : pageId[n] # NoPage => children[pageId[n]] = WrittenBack(pageId[n])
      BY <1>6 DEF KeptInv, WrittenBack
    <2>4. \A n \in Nodes : pageId[n] # NoPage => pageId[n] \in PageIds
      BY DEF WhereInv, TypeOK
    <2> QED BY <1>1, <1>6, <2>1, <2>2, <2>3, <2>4 DEF KeptInv
  <1> QED BY <1>3, <1>4, <1>5, <1>6

(* The tree is read again: each page for as many entries as its node has   *)
(* in the structure file.                                                  *)
LEMMA Reread ==
    ASSUME WhereInv, Reopen, NEW n \in Nodes, fileNodes[n].pageId # NoPage
    PROVE  LET p == fileNodes[n].pageId
           IN /\ p \in PageIds /\ fileNodes[n].count \in Nat
              /\ filePages[p] \in SUBSET Entries
              /\ fileNodes[n].count <= Cardinality(filePages[p])
              /\ children'[p] = FirstOf(filePages[p], fileNodes[n].count)
  <1> DEFINE p == fileNodes[n].pageId
             owners == {m \in Nodes : fileNodes[m].pageId = p}
  <1>1. p \in PageIds /\ fileNodes[n].count \in Nat /\ filePages[p] \in SUBSET Entries
    BY DEF WhereInv, TypeOK
  <1>2. owners = {n}
    BY <1>1 DEF WhereInv, PlaceInv, OwnInv, Uses
  <1>3. (CHOOSE m \in owners : TRUE) = n
    BY <1>2
  <1>4. ReadCount(p) = fileNodes[n].count
    BY <1>2, <1>3 DEF ReadCount
  <1> QED BY <1>1, <1>4 DEF Reopen

LEMMA ReopenLive ==
    ASSUME WhereInv, LockInv, LimitInv, Reopen
    PROVE  LimitInv' /\ (KeptInv /\ fileNodes = NodesNow => KeptInv')
  <1> USE DEF LimitInv
  <1>1. /\ \A n \in Nodes : /\ pageId'[n] = fileNodes[n].pageId
                            /\ count'[n] = fileNodes[n].count
                            /\ split'[n] = fileNodes[n].split
        /\ \A t \in Threads : pc[t] = "idle"
        /\ UNCHANGED <<fileNodes, filePages, pc, at, entry, page, moving, waiting, pagesDirty>>
        /\ pagesDirty = {}
    BY DEF Reopen, AllIdle, threadVars
  <1>2. PageInv'
    BY <1>1 DEF PageInv
  <1>3. CountInv'
    BY <1>1, Reread, FirstOfCount DEF CountInv
  <1>4. FullInv'
    <2>1. \A n : Pending(n)' = {}
      BY <1>1 DEF Pending
    <2>2. Cardinality({}) = 0 /\ \A n \in Nodes : fileNodes[n].count \in Nat
      BY FS_EmptySet DEF WhereInv, TypeOK
    <2>3. Bound' = Bound
      BY DEF Bound
    <2>4. ASSUME NEW n \in Nodes, 2 * n < MaxNode, split'[n] # "split"
          PROVE  count'[n] + Cardinality(Pending(n)') <= Bound
      <3>1. fileNodes[n].count <= Bound
        BY <1>1, <2>4 DEF FullInv
      <3>2. Cardinality(Pending(n)') = 0 /\ count'[n] = fileNodes[n].count
        BY <1>1, <2>1, <2>2
      <3> QED BY <2>2, <3>1, <3>2, BoundsCounted
    <2> QED BY <1>1, <2>3, <2>4 DEF FullInv
  <1>5. ASSUME KeptInv, fileNodes = NodesNow PROVE KeptInv'
    <2>1. \A e : InHands(e)' <=> InHands(e)
      BY <1>1 DEF InHands, Held
    <2>2. \A n \in Nodes :
             /\ fileNodes[n].pageId = pageId[n]
             /\ fileNodes[n].count = IF pageId[n] = NoPage THEN 0 ELSE count[n]
      BY <1>5 DEF NodesNow
    <2>3. ASSUME NEW n \in Nodes, pageId[n] # NoPage
          PROVE  /\ pageId'[n] = pageId[n] /\ filePages[pageId[n]] = children[pageId[n]]
                 /\ children'[pageId[n]] = children[pageId[n]]
      <3>1. /\ pageId'[n] = pageId[n] /\ fileNodes[n].count = Cardinality(children[pageId[n]])
            /\ filePages[pageId[n]] = children[pageId[n]]
        BY <1>1, <1>5, <2>2, <2>3 DEF KeptInv, CountInv
      <3>2. /\ children'[pageId[n]] = FirstOf(filePages[pageId[n]], fileNodes[n].count)
            /\ filePages[pageId[n]] \in SUBSET Entries
        BY <2>2, <2>3, Reread
      <3> QED BY <3>1, <3>2, FirstOfAll
    <2>4. \A n \in Nodes : At(n)' = At(n)
      BY <1>1, <2>2, <2>3 DEF At
    <2>5. \A n \in Nodes : pageId'[n] # NoPage => pageId[n] # NoPage
      BY <1>1, <2>2
    <2> QED BY <1>1, <1>5, <2>1, <2>3, <2>4, <2>5 DEF KeptInv
  <1> QED BY <1>2, <1>3, <1>4, <1>5

LEMMA InitLive == Init => LiveInv
  <1> SUFFICES ASSUME Init PROVE LimitInv /\ KeptInv
    BY DEF LiveInv
  <1> USE DEF Init
  <1>1. PageInv /\ CountInv /\ KeptInv
    BY DEF PageInv, CountInv, KeptInv, NoPage
  <1>2. FullInv
    <2>1. Cardinality({}) = 0
      BY FS_EmptySet
    <2>2. \A n : Pending(n) = {}
      BY DEF Pending
    <2>3. Bound \in Nat
      BY ThreadsCounted, DenseConstants DEF Bound
    <2>4. \A n \in Nodes : /\ count[n] + Cardinality(Pending(n)) <= Bound
                           /\ fileNodes[n].count <= Bound
      <3>1. \A n \in Nodes : count[n] = 0 /\ fileNodes[n].count = 0
        OBVIOUS
      <3>2. \A n : Cardinality(Pending(n)) = 0
        BY <2>1, <2>2
      <3>3. 0 + 0 <= Bound /\ 0 <= Bound
        BY <2>3
      <3> QED BY <3>1, <3>2, <3>3
    <2>5. \A t \in Threads : /\ Cardinality(moving[t].left) <= Bound
                             /\ Cardinality(moving[t].right) <= Bound
      <3>1. \A t \in Threads : moving[t].left = {} /\ moving[t].right = {}
        OBVIOUS
      <3>2. 0 <= Bound
        BY <2>3
      <3> QED BY <2>1, <3>1, <3>2
    <2> QED BY <2>4, <2>5 DEF FullInv
  <1> QED BY <1>1, <1>2 DEF LimitInv

LEMMA NextLive == WhereInv /\ OnceInv /\ LockInv /\ LiveInv /\ [Next]_vars => LiveInv'
  <1> SUFFICES ASSUME WhereInv, OnceInv, LockInv, LiveInv, [Next]_vars, ~ overwrote'
               PROVE  LimitInv' /\ (~ stale' => KeptInv')
    BY DEF LiveInv
  <1>1. ASSUME NEW t \in Threads, Step(t)
        PROVE  LimitInv' /\ (~ stale' => KeptInv')
    <2>1. CASE PushToNewPage(t)
      <3>1. ~ overwrote /\ pageId[at[t]] = NoPage /\ (stale' <=> stale)
        BY <2>1 DEF PushToNewPage
      <3>2. LimitInv /\ (~ stale => KeptInv)
        BY <3>1 DEF LiveInv
      <3> QED BY <2>1, <3>1, <3>2, PushToNewPageLive
    <2>2. CASE ~ PushToNewPage(t)
      <3>1. UNCHANGED <<overwrote, stale>>
        BY <1>1, <2>2 DEF Step, Split, Descend, TrySplit, AlreadySplit, BeginSplit, LockPage,
           Partition, GiveBack, Publish, Store, Push, ghostVars
      <3>2. LimitInv /\ (~ stale => KeptInv)
        BY <3>1 DEF LiveInv
      <3>3. CASE Descend(t) \/ TrySplit(t) \/ Store(t) \/ Push(t)
        BY <3>1, <3>2, <3>3, DescendLive, TrySplitLive, StoreLive, PushLive
      <3>4. CASE Split(t)
        BY <3>1, <3>2, <3>4, AlreadySplitLive, BeginSplitLive, LockPageLive, PartitionLive,
           GiveBackLive, PublishLive DEF Split
      <3> QED BY <1>1, <2>2, <3>3, <3>4 DEF Step
    <2> QED BY <2>1, <2>2
  <1>2. ASSUME NEW t \in Threads, NEW e \in Entries, Begin(t, e)
        PROVE  LimitInv' /\ (~ stale' => KeptInv')
    <2>1. UNCHANGED <<overwrote, stale>>
      BY <1>2 DEF Begin, ghostVars
    <2> QED BY <1>2, <2>1, BeginLive DEF LiveInv
  <1>3. CASE Flush
    <2>1. UNCHANGED <<overwrote, stale>>
      BY <1>3 DEF Flush, ghostVars
    <2> QED BY <1>3, <2>1, FlushLive DEF LiveInv
  <1>4. CASE Reopen
    <2>1. overwrote' = overwrote /\ (~ stale' => ~ stale /\ fileNodes = NodesNow)
      BY <1>4 DEF Reopen
    <2> QED BY <1>4, <2>1, ReopenLive DEF LiveInv
  <1>5. CASE UNCHANGED vars
    <2> USE <1>5 DEF vars, nodeVars, pageVars, fileVars, threadVars, ghostVars
    <2>1. LimitInv => LimitInv'
      BY DEF LimitInv, PageInv, CountInv, FullInv, Pending, Bound
    <2>2. KeptInv => KeptInv'
      BY DEF KeptInv, At, InHands, Held
    <2>3. UNCHANGED <<overwrote, stale>>
      OBVIOUS
    <2> QED BY <2>1, <2>2, <2>3 DEF LiveInv
  <1> QED BY <1>1, <1>2, <1>3, <1>4, <1>5 DEF Next

(* All of it. *)
DenseInv == WhereInv /\ OnceInv /\ LockInv /\ LiveInv

(* What the inserts, the splits and the files agree on, for every number   *)
(* of threads: who holds which lock, which page a node has, where an entry *)
(* is, and how much room is left in a leaf.                                *)
THEOREM DenseInvariant == Spec => []DenseInv
  <1>1. Init => DenseInv
    BY InitWhere, InitLocks, InitLive DEF DenseInv
  <1>2. DenseInv /\ [Next]_vars => DenseInv'
    BY NextWhere, NextOnce, NextLocks, NextLive DEF DenseInv
  <1> QED BY <1>1, <1>2, PTL DEF Spec

(* Unless a page was replaced or an old structure file was read, a search  *)
(* finds every entry whose insert has returned, or a split has it in its   *)
(* hands: no race of inserts with a split loses one.                       *)
THEOREM NoEntryLost == Spec => []NoneLost
  <1>1. DenseInv => NoneLost
    <2> SUFFICES ASSUME DenseInv, ~ overwrote, ~ stale, NEW e \in Inserted
                 PROVE  FoundBySearch(e) \/ \E t \in Threads : e \in Held(t)
      BY DEF NoneLost
    <2>1. e \in Entries /\ e \notin waiting /\ KeptInv
      BY DEF Inserted, DenseInv, LiveInv
    <2>2. CASE InHands(e)
      BY <2>2 DEF InHands
    <2>3. CASE \E n \in Nodes : e \in At(n)
      <3>1. PICK n \in Nodes : e \in At(n)
        BY <2>3
      <3>2. pageId[n] # NoPage /\ pageId[n] \in PageIds /\ e \in children[pageId[n]]
        BY <3>1 DEF At, DenseInv, WhereInv, TypeOK
      <3>3. Reachable(n)
        BY <3>2 DEF DenseInv, LockInv, ReachInv
      <3>4. e \in Within[n]
        BY <3>2 DEF DenseInv, WhereInv, PlaceInv, BoxInv, Uses
      <3> QED BY <3>1, <3>3, <3>4 DEF FoundBySearch
    <2> QED BY <2>1, <2>2, <2>3 DEF KeptInv
  <1> QED BY <1>1, DenseInvariant, PTL

(* The count that decides on a split is the number of entries in the page, *)
(* also after the files were read with an older structure.                 *)
THEOREM DenseCountsMatch == Spec => []CountsMatch
  <1>1. DenseInv => CountsMatch
    BY DEF DenseInv, LiveInv, LimitInv, CountInv, CountsMatch, At
  <1> QED BY <1>1, DenseInvariant, PTL

(* However many threads have read a count that is out of date, a leaf      *)
(* never holds more than the limit and one entry for each of them.         *)
THEOREM LeavesAreBounded == Spec => []LeafBound
  <1>1. DenseInv => LeafBound
    <2> SUFFICES ASSUME DenseInv, ~ overwrote, NEW n \in Nodes, split[n] = "leaf",
                        2 * n < MaxNode
                 PROVE  Cardinality(At(n)) <= Saturation + Cardinality(Threads)
      BY DEF LeafBound
    <2>1. CountInv /\ FullInv /\ WhereInv
      BY DEF DenseInv, LiveInv, LimitInv
    <2>2. Cardinality(At(n)) = count[n]
      BY <2>1, FS_EmptySet DEF CountInv, At
    <2>3. count[n] + Cardinality(Pending(n)) <= Bound
      BY <2>1 DEF FullInv
    <2> QED BY <2>1, <2>2, <2>3, BoundsCounted DEF Bound
  <1> QED BY <1>1, DenseInvariant, PTL

-----------------------------------------------------------------------------
(* What get finds, if there is one thread.  With more of them an entry may *)
(* be stored at a node that is being split, and a get goes past it.        *)

OneThread == \A t, u \in Threads : t = u

(* The way of an entry has the root, and the half it belongs to of each    *)
(* node on it, split or not.                                               *)
OnWay(n, e) ==
    \A S \in SUBSET Nodes :
       /\ 1 \in S
       /\ \A a \in S : 2 * a < MaxNode /\ Side(a, e) # 0 => Side(a, e) \in S
       => n \in S

(* A thread goes the way of its entry, and stores where it ends. *)
WalkInv == \A t \in Threads :
    /\ pc[t] # "idle" => OnWay(at[t], entry[t])
    /\ pc[t] \in {"len", "split"} => split[at[t]] # "split"
    /\ pc[t] \in {"store", "push", "new"} /\ split[at[t]] = "split" =>
         Side(at[t], entry[t]) = 0
    /\ pc[t] = "new" => pageId[at[t]] = NoPage
    /\ pc[t] \in {"push", "lock", "part"} => page[t] = pageId[at[t]]

(* What a page has, or had when it was written, was stored where its way   *)
(* ends.                                                                   *)
EndInv == \A p \in PageIds, n \in Nodes : Uses(p, n) =>
    \A e \in WrittenBack(p) : OnWay(n, e) /\ (split[n] = "split" => Side(n, e) = 0)

(* A split takes out what goes on, and leaves what does not. *)
MoveInv == \A t \in Threads : pc[t] \in {"giveBack", "publish"} =>
    /\ \A e \in moving[t].left : OnWay(2 * at[t], e)
    /\ \A e \in moving[t].right : OnWay(2 * at[t] + 1, e)
    /\ \A p \in PageIds : Uses(p, at[t]) => \A e \in WrittenBack(p) : Side(at[t], e) = 0

(* The structure in the file is older than the tree: a node that is split  *)
(* there is split, and a leaf has the page it has there.                   *)
OldInv == \A n \in Nodes :
    /\ split[n] = "leaf" \/ (\E t \in Threads : at[t] = n /\ pc[t] \in {"lock", "part"}) =>
         fileNodes[n].pageId \in {NoPage, pageId[n]}
    /\ fileNodes[n].split = "split" => split[n] = "split"

GetInv == WalkInv /\ EndInv /\ MoveInv /\ OldInv

(* The root is on every way, and so is the next half. *)
LEMMA WayGoesOn ==
    ASSUME NEW e
    PROVE  /\ OnWay(1, e)
           /\ \A n \in Nodes : OnWay(n, e) /\ 2 * n < MaxNode /\ Side(n, e) # 0 =>
                                 OnWay(Side(n, e), e)
  BY DEF OnWay

(* A step that brings no new use of a page, and splits no node. *)
LEMMA EndsStay ==
    ASSUME EndInv,
           \A p \in PageIds, n \in Nodes : Uses(p, n)' => Uses(p, n),
           \A p \in PageIds : WrittenBack(p)' \subseteq WrittenBack(p),
           \A n \in Nodes : split'[n] = "split" => split[n] = "split"
    PROVE  EndInv'
  BY DEF EndInv

(* No page is used in another place, if nothing has changed about them. *)
LEMMA UsesStay ==
    ASSUME UNCHANGED <<pageId, fileNodes, page, at>>
    PROVE  \A p, n : Uses(p, n)' <=> Uses(p, n)
  BY DEF Uses

(* And what they have stays the same. *)
LEMMA BackStays ==
    ASSUME UNCHANGED <<children, pagesDirty, filePages>>
    PROVE  \A p : WrittenBack(p)' = WrittenBack(p)
  BY DEF WrittenBack


LEMMA BeginGet ==
    ASSUME WhereInv, LockInv, OneThread, GetInv, NEW t \in Threads, NEW e \in Entries, Begin(t, e)
    PROVE  GetInv'
  <1> USE DEF GetInv, Begin, Goto, nodeVars, pageVars, fileVars, ghostVars
  <1>1. at[t] \in Nodes /\ \A u \in Threads : u = t
    BY DEF OneThread, WhereInv, TypeOK
  <1>2. \A p \in PageIds, n \in Nodes : Uses(p, n)' => Uses(p, n)
    BY UsesStay
  <1>3. \A p : WrittenBack(p)' = WrittenBack(p)
    BY BackStays
  <1>4. WalkInv'
    <2>1. at[t] = 1 /\ at' = at /\ page' = page /\ split' = split
      BY DEF WhereInv, HandInv
    <2>2. entry'[t] = e /\ pc'[t] = "descend"
      BY DEF WhereInv, TypeOK
    <2>3. OnWay(1, e)
      BY WayGoesOn
    <2> QED BY <1>1, <2>1, <2>2, <2>3 DEF WalkInv
  <1>5. EndInv'
    BY <1>2, <1>3, EndsStay
  <1>6. MoveInv'
    BY <1>1, <1>2, <1>3 DEF WhereInv, TypeOK, HandInv, MoveInv
  <1>7. OldInv'
    BY <1>1 DEF WhereInv, TypeOK, OldInv
  <1> QED BY <1>4, <1>5, <1>6, <1>7

LEMMA DescendGet ==
    ASSUME WhereInv, LockInv, OneThread, GetInv, NEW t \in Threads, Descend(t)
    PROVE  GetInv'
  <1> USE DEF GetInv, Descend, Goto, nodeVars, pageVars, fileVars, ghostVars
  <1>1. at[t] \in Nodes /\ \A u \in Threads : u = t
    BY DEF OneThread, WhereInv, TypeOK
  <1>2. \A p \in PageIds, n \in Nodes : Uses(p, n)' => Uses(p, n)
    <2>1. page[t] = NoPage
      BY DEF WhereInv, HandInv
    <2>2. page' = page /\ pageId' = pageId /\ fileNodes' = fileNodes
      OBVIOUS
    <2> QED BY <1>1, <2>1, <2>2 DEF Uses, NoPage, PageIds
  <1>3. \A p : WrittenBack(p)' = WrittenBack(p)
    BY BackStays
  <1>4. WalkInv'
    <2>1. /\ pageId' = pageId /\ split' = split /\ entry' = entry
          /\ page' = page /\ pc \in [Threads -> Labels] /\ at \in [Threads -> Nodes]
          /\ pc[t] = "descend" /\ OnWay(at[t], entry[t])
      BY DEF WhereInv, TypeOK, WalkInv
    <2>2. CASE split[at[t]] = "split" /\ Side(at[t], entry[t]) # 0
      <3>1. OnWay(Side(at[t], entry[t]), entry[t])
        <4>1. 2 * at[t] < MaxNode
          BY <1>1, <2>2 DEF WhereInv, DepthInv
        <4> QED BY <1>1, <2>1, <2>2, <4>1, WayGoesOn
      <3>2. at'[t] = Side(at[t], entry[t]) /\ pc' = pc
        BY <2>1, <2>2
      <3> QED BY <1>1, <2>1, <3>1, <3>2 DEF WalkInv
    <2>3. CASE split[at[t]] = "split" /\ Side(at[t], entry[t]) = 0
      <3>1. at' = at /\ pc'[t] = "store"
        BY <2>1, <2>3
      <3> QED BY <1>1, <2>1, <2>3, <3>1 DEF WalkInv
    <2>4. CASE split[at[t]] # "split"
      <3>1. at' = at /\ pc'[t] = "len"
        BY <2>1, <2>4
      <3> QED BY <1>1, <2>1, <2>4, <3>1 DEF WalkInv
    <2> QED BY <2>2, <2>3, <2>4
  <1>5. EndInv'
    BY <1>2, <1>3, EndsStay
  <1>6. MoveInv'
    BY <1>1, <1>2, <1>3 DEF WhereInv, TypeOK, HandInv, MoveInv
  <1>7. OldInv'
    BY <1>1 DEF WhereInv, TypeOK, OldInv
  <1> QED BY <1>4, <1>5, <1>6, <1>7

LEMMA TrySplitGet ==
    ASSUME WhereInv, LockInv, OneThread, GetInv, NEW t \in Threads, TrySplit(t)
    PROVE  GetInv'
  <1> USE DEF GetInv, TrySplit, Goto, nodeVars, pageVars, fileVars, ghostVars
  <1>1. at[t] \in Nodes /\ \A u \in Threads : u = t
    BY DEF OneThread, WhereInv, TypeOK
  <1>2. \A p \in PageIds, n \in Nodes : Uses(p, n)' => Uses(p, n)
    BY UsesStay
  <1>3. \A p : WrittenBack(p)' = WrittenBack(p)
    BY BackStays
  <1>4. WalkInv'
    BY <1>1, WayGoesOn DEF WhereInv, TypeOK, WalkInv
  <1>5. EndInv'
    BY <1>2, <1>3, EndsStay
  <1>6. MoveInv'
    BY <1>1, <1>2, <1>3 DEF WhereInv, TypeOK, HandInv, MoveInv
  <1>7. OldInv'
    BY <1>1 DEF WhereInv, TypeOK, OldInv
  <1> QED BY <1>4, <1>5, <1>6, <1>7

LEMMA AlreadySplitGet ==
    ASSUME WhereInv, LockInv, OneThread, GetInv, NEW t \in Threads, AlreadySplit(t)
    PROVE  GetInv'
  <1> USE DEF GetInv, AlreadySplit, Goto, nodeVars, pageVars, fileVars, ghostVars
  <1>1. at[t] \in Nodes /\ \A u \in Threads : u = t
    BY DEF OneThread, WhereInv, TypeOK
  <1>2. \A p \in PageIds, n \in Nodes : Uses(p, n)' => Uses(p, n)
    BY UsesStay
  <1>3. \A p : WrittenBack(p)' = WrittenBack(p)
    BY BackStays
  <1>4. WalkInv'
    BY <1>1, WayGoesOn DEF WhereInv, TypeOK, WalkInv
  <1>5. EndInv'
    BY <1>2, <1>3, EndsStay
  <1>6. MoveInv'
    BY <1>1, <1>2, <1>3 DEF WhereInv, TypeOK, HandInv, MoveInv
  <1>7. OldInv'
    BY <1>1 DEF WhereInv, TypeOK, OldInv
  <1> QED BY <1>4, <1>5, <1>6, <1>7

LEMMA BeginSplitGet ==
    ASSUME WhereInv, LockInv, OneThread, GetInv, NEW t \in Threads, BeginSplit(t)
    PROVE  GetInv'
  <1> USE DEF GetInv, BeginSplit, Goto, nodeVars, pageVars, fileVars, ghostVars
  <1>1. at[t] \in Nodes /\ \A u \in Threads : u = t
    BY DEF OneThread, WhereInv, TypeOK
  <1>2. \A p \in PageIds, n \in Nodes : Uses(p, n)' => Uses(p, n)
    BY DEF WhereInv, TypeOK, HandInv, Uses, NoPage, PageIds
  <1>3. \A p : WrittenBack(p)' = WrittenBack(p)
    BY BackStays
  <1>4. WalkInv'
    BY <1>1, WayGoesOn DEF WhereInv, TypeOK, WalkInv
  <1>5. EndInv'
    <2>1. CASE pageId[at[t]] = NoPage
      <3>1. \A p \in PageIds : ~Uses(p, at[t])
        <4>1. page[t] = NoPage
          BY DEF WhereInv, HandInv
        <4>2. fileNodes[at[t]].pageId = NoPage
          BY <1>1, <2>1 DEF OldInv
        <4> QED BY <1>1, <2>1, <4>1, <4>2 DEF Uses, NoPage, PageIds
      <3>2. \A n \in Nodes : n # at[t] => split'[n] = split[n]
        BY DEF WhereInv, TypeOK
      <3> QED BY <1>2, <1>3, <3>1, <3>2 DEF EndInv
    <2>2. CASE pageId[at[t]] # NoPage
      <3>1. \A n \in Nodes : split'[n] = "split" => split[n] = "split"
        BY <2>2 DEF WhereInv, TypeOK
      <3> QED BY <1>2, <1>3, <3>1, EndsStay
    <2> QED BY <2>1, <2>2
  <1>6. MoveInv'
    BY <1>1, <1>2, <1>3 DEF WhereInv, TypeOK, HandInv, MoveInv
  <1>7. OldInv'
    BY <1>1 DEF WhereInv, TypeOK, OldInv
  <1> QED BY <1>4, <1>5, <1>6, <1>7

LEMMA LockPageGet ==
    ASSUME WhereInv, LockInv, OneThread, GetInv, NEW t \in Threads, LockPage(t)
    PROVE  GetInv'
  <1> USE DEF GetInv, LockPage, Goto, nodeVars, pageVars, fileVars, ghostVars
  <1>1. at[t] \in Nodes /\ \A u \in Threads : u = t
    BY DEF OneThread, WhereInv, TypeOK
  <1>2. \A p \in PageIds, n \in Nodes : Uses(p, n)' => Uses(p, n)
    BY UsesStay
  <1>3. \A p : WrittenBack(p)' = WrittenBack(p)
    BY BackStays
  <1>4. WalkInv'
    BY <1>1, WayGoesOn DEF WhereInv, TypeOK, WalkInv
  <1>5. EndInv'
    BY <1>2, <1>3, EndsStay
  <1>6. MoveInv'
    BY <1>1, <1>2, <1>3 DEF WhereInv, TypeOK, HandInv, MoveInv
  <1>7. OldInv'
    BY <1>1 DEF WhereInv, TypeOK, OldInv
  <1> QED BY <1>4, <1>5, <1>6, <1>7

LEMMA GiveBackGet ==
    ASSUME WhereInv, LockInv, OneThread, GetInv, NEW t \in Threads, GiveBack(t)
    PROVE  GetInv'
  <1> USE DEF GetInv, GiveBack, Goto, nodeVars, pageVars, fileVars, ghostVars
  <1>1. at[t] \in Nodes /\ \A u \in Threads : u = t
    BY DEF OneThread, WhereInv, TypeOK
  <1>2. \A p \in PageIds, n \in Nodes : Uses(p, n)' => Uses(p, n)
    BY DEF WhereInv, TypeOK, HandInv, Uses, NoPage, PageIds
  <1>3. \A p : WrittenBack(p)' = WrittenBack(p)
    BY BackStays
  <1>4. WalkInv'
    BY <1>1, WayGoesOn DEF WhereInv, TypeOK, WalkInv
  <1>5. EndInv'
    BY <1>2, <1>3, EndsStay
  <1>6. MoveInv'
    BY <1>1, <1>2, <1>3 DEF WhereInv, TypeOK, HandInv, MoveInv
  <1>7. OldInv'
    <2>1. split[at[t]] = "splitting" /\ pc'[t] = "publish"
      BY <1>1 DEF WhereInv, TypeOK, LockInv, SplitterInv, Splitting
    <2>2. \A n \in Nodes : n # at[t] => pageId'[n] = pageId[n]
      BY DEF WhereInv, TypeOK
    <2>3. split' = split /\ at' = at /\ fileNodes' = fileNodes
      OBVIOUS
    <2> QED BY <1>1, <2>1, <2>2, <2>3 DEF OldInv
  <1> QED BY <1>4, <1>5, <1>6, <1>7

LEMMA StoreGet ==
    ASSUME WhereInv, LockInv, OneThread, GetInv, NEW t \in Threads, Store(t)
    PROVE  GetInv'
  <1> USE DEF GetInv, Store, Goto, nodeVars, pageVars, fileVars, ghostVars
  <1>1. at[t] \in Nodes /\ \A u \in Threads : u = t
    BY DEF OneThread, WhereInv, TypeOK
  <1>2. \A p \in PageIds, n \in Nodes : Uses(p, n)' => Uses(p, n)
    BY DEF WhereInv, TypeOK, HandInv, Uses, NoPage, PageIds
  <1>3. \A p : WrittenBack(p)' = WrittenBack(p)
    BY BackStays
  <1>4. WalkInv'
    BY <1>1, WayGoesOn DEF WhereInv, TypeOK, WalkInv
  <1>5. EndInv'
    BY <1>2, <1>3, EndsStay
  <1>6. MoveInv'
    BY <1>1, <1>2, <1>3 DEF WhereInv, TypeOK, HandInv, MoveInv
  <1>7. OldInv'
    BY <1>1 DEF WhereInv, TypeOK, OldInv
  <1> QED BY <1>4, <1>5, <1>6, <1>7

(* Entries that went on are taken out; what stays fits in neither half. *)
LEMMA PartitionGet ==
    ASSUME WhereInv, OnceInv, LockInv, OneThread, GetInv, NEW t \in Threads, Partition(t)
    PROVE  GetInv'
  <1> USE DEF GetInv
  <1>1. PICK n \in Nodes, p \in PageIds : n = at[t] /\ p = page[t]
    BY DEF Partition, WhereInv, TypeOK, HandInv
  <1> DEFINE left == children[p] \cap Within[2 * n]
             right == (children[p] \cap Within[2 * n + 1]) \ left
             stay == children[p] \ (left \cup Within[2 * n + 1])
  <1>2. /\ children' = [children EXCEPT ![p] = stay]
        /\ pagesDirty' = pagesDirty \cup {p}
        /\ moving' = [moving EXCEPT ![t] = [left |-> left, right |-> right]]
        /\ UNCHANGED <<pageId, split, fileNodes, filePages, at, entry, page>>
    BY <1>1 DEF Partition, Share, fileVars
  <1>3. /\ pc[t] = "part" /\ pc'[t] \in {"giveBack", "publish"}
        /\ \A u \in Threads : u = t
    BY DEF Partition, Goto, WhereInv, TypeOK, OneThread
  <1>4. /\ 2 * n < MaxNode /\ split[n] = "splitting" /\ pageId[n] = p
        /\ OnWay(n, entry[t]) /\ 2 * n # 0 /\ 2 * n + 1 # 0
    <2>1. 2 * n < MaxNode /\ 2 * n # 0 /\ 2 * n + 1 # 0
      BY <1>1, <1>3 DEF WhereInv, DepthInv, Nodes
    <2>2. split[n] = "splitting"
      BY <1>1, <1>3 DEF LockInv, SplitterInv, Splitting
    <2>3. pageId[n] = p /\ OnWay(n, entry[t])
      BY <1>1, <1>3 DEF WalkInv
    <2> QED BY <2>1, <2>2, <2>3
  <1>5. \A q \in PageIds, m \in Nodes : Uses(q, m)' <=> Uses(q, m)
    BY <1>2, UsesStay
  <1>6. \A q \in PageIds : WrittenBack(q)' = IF q = p THEN stay ELSE WrittenBack(q)
    BY <1>1, <1>2 DEF WrittenBack, WhereInv, TypeOK
  <1>7. children[p] \subseteq WrittenBack(p)
    BY <1>1 DEF OnceInv
  <1>8. Uses(p, n)
    BY <1>4 DEF Uses
  <1>9. WalkInv'
    BY <1>2, <1>3 DEF WalkInv
  <1>10. EndInv'
    <2>1. \A q \in PageIds : WrittenBack(q)' \subseteq WrittenBack(q)
      BY <1>6, <1>7
    <2> QED BY <1>2, <1>5, <2>1, EndsStay
  <1>11. MoveInv'
    <2>1. moving'[t].left = left /\ moving'[t].right = right /\ at'[t] = n
      BY <1>1, <1>2 DEF WhereInv, TypeOK
    <2>2. \A e \in children[p] : OnWay(n, e)
      BY <1>7, <1>8 DEF EndInv
    <2>3. \A e \in left : OnWay(2 * n, e)
      <3>1. \A e \in left : Side(n, e) = 2 * n
        BY DEF Side
      <3> QED BY <1>4, <2>2, <3>1, WayGoesOn
    <2>4. \A e \in right : OnWay(2 * n + 1, e)
      <3>1. \A e \in right : Side(n, e) = 2 * n + 1
        BY DEF Side
      <3> QED BY <1>4, <2>2, <3>1, WayGoesOn
    <2>5. ASSUME NEW q \in PageIds, Uses(q, n)' PROVE \A e \in WrittenBack(q)' : Side(n, e) = 0
      <3>1. Uses(q, n)
        BY <1>5, <2>5
      <3>2. fileNodes[n].pageId \in {NoPage, p}
        BY <1>1, <1>3, <1>4 DEF OldInv
      <3>3. q = p
        BY <1>1, <1>3, <1>4, <3>1, <3>2 DEF Uses, NoPage, PageIds
      <3>4. WrittenBack(q)' = stay
        BY <1>6, <3>3
      <3>5. \A e \in stay : Side(n, e) = 0
        BY DEF Side
      <3> QED BY <3>4, <3>5
    <2> HIDE DEF left, right
    <2> QED BY <1>3, <2>1, <2>3, <2>4, <2>5 DEF MoveInv
  <1>12. OldInv'
    BY <1>1, <1>2, <1>3, <1>4 DEF OldInv
  <1> QED BY <1>9, <1>10, <1>11, <1>12

(* What was taken out is on its way at the halves, and nothing else is     *)
(* there.                                                                  *)
LEMMA PublishGet ==
    ASSUME WhereInv, LockInv, OneThread, GetInv, NEW t \in Threads, Publish(t)
    PROVE  GetInv'
  <1> USE DEF GetInv
  <1>0. PICK n \in Nodes : n = at[t]
    BY DEF WhereInv, TypeOK
  <1> DEFINE left == moving[t].left
             right == moving[t].right
             l == LeftPage(t)
             r == RightPage(t)
  <1>1. /\ 2 * n \in Nodes /\ 2 * n + 1 \in Nodes /\ 2 * n # 2 * n + 1
        /\ n # 2 * n /\ n # 2 * n + 1
        /\ split[n] = "splitting" /\ ~ Reachable(2 * n) /\ ~ Reachable(2 * n + 1)
        /\ pageId[2 * n] = NoPage /\ pageId[2 * n + 1] = NoPage
        /\ l = r => l = NoPage
    BY <1>0, Published
  <1>2. /\ \A m \in Nodes :
              /\ pageId'[m] = IF m = 2 * n THEN l
                              ELSE IF m = 2 * n + 1 THEN r ELSE pageId[m]
              /\ split'[m] = IF m = n THEN "split" ELSE split[m]
        /\ \A p \in PageIds : children'[p] = IF p = l THEN left
                                             ELSE IF p = r THEN right
                                             ELSE children[p]
        /\ pagesDirty' = pagesDirty \cup ({l, r} \ {NoPage})
        /\ UNCHANGED <<at, entry, fileNodes, filePages>>
    BY <1>0, Published
  <1>3. /\ pc[t] = "publish" /\ pc'[t] = "descend" /\ page'[t] = NoPage
        /\ \A u \in Threads : u = t
    BY DEF Publish, Goto, WhereInv, TypeOK, OneThread
  <1>4. /\ l # NoPage => l > pages
        /\ r # NoPage => r > pages
    <2>1. pages \in Nat
      BY DEF WhereInv, TypeOK
    <2> QED BY <2>1 DEF LeftPage, RightPage, HalfPage
  <1> HIDE DEF l, r, left, right
  <1>5. \A p \in PageIds, m \in Nodes : Uses(p, m)' =>
           Uses(p, m) \/ (p = l /\ m = 2 * n) \/ (p = r /\ m = 2 * n + 1)
    BY <1>2, <1>3 DEF Uses, NoPage, PageIds
  <1>6. \A p \in PageIds : WrittenBack(p)' = IF p = l THEN left
                                             ELSE IF p = r THEN right ELSE WrittenBack(p)
    <2>1. \A p \in PageIds : p # NoPage
      BY DEF PageIds, NoPage
    <2> QED BY <1>2, <2>1 DEF WrittenBack
  <1>7. \A p \in PageIds, m \in Nodes : Uses(p, m) => p # l /\ p # r
    <2>1. \A p \in PageIds : p # NoPage
      BY DEF PageIds, NoPage
    <2> QED BY <1>4, <2>1 DEF WhereInv, PlaceInv, FreshInv
  <1>8. split[2 * n] = "leaf" /\ split[2 * n + 1] = "leaf"
    BY <1>1 DEF LockInv, ReachInv
  <1>9. WalkInv'
    BY <1>2, <1>3 DEF WalkInv
  <1>10. EndInv'
    <2>1. ASSUME NEW p \in PageIds, NEW m \in Nodes, Uses(p, m)', NEW e \in WrittenBack(p)'
          PROVE  OnWay(m, e) /\ (split'[m] = "split" => Side(m, e) = 0)
      <3>1. CASE Uses(p, m)
        <4>1. e \in WrittenBack(p)
          BY <1>6, <1>7, <2>1, <3>1
        <4>2. OnWay(m, e) /\ (split[m] = "split" => Side(m, e) = 0)
          BY <3>1, <4>1 DEF EndInv
        <4>3. m = n => Side(m, e) = 0
          BY <1>0, <1>3, <3>1, <4>1 DEF MoveInv
        <4> QED BY <1>2, <4>2, <4>3
      <3>2. CASE p = l /\ m = 2 * n
        <4>1. e \in left
          BY <1>6, <2>1, <3>2
        <4>2. OnWay(m, e)
          BY <1>0, <1>3, <3>2, <4>1 DEF MoveInv, left
        <4>3. split'[m] = "leaf"
          BY <1>1, <1>2, <1>8, <3>2
        <4> QED BY <4>2, <4>3
      <3>3. CASE p = r /\ m = 2 * n + 1
        <4>1. e \in right
          <5>1. p # l
            BY <1>1, <3>3 DEF PageIds, NoPage
          <5> QED BY <1>6, <2>1, <3>3, <5>1
        <4>2. OnWay(m, e)
          BY <1>0, <1>3, <3>3, <4>1 DEF MoveInv, right
        <4>3. split'[m] = "leaf"
          BY <1>1, <1>2, <1>8, <3>3
        <4> QED BY <4>2, <4>3
      <3> QED BY <1>5, <2>1, <3>1, <3>2, <3>3
    <2> QED BY <2>1 DEF EndInv
  <1>11. MoveInv'
    BY <1>3 DEF MoveInv
  <1>12. OldInv'
    <2>1. ASSUME NEW m \in Nodes, split'[m] = "leaf"
          PROVE  fileNodes[m].pageId \in {NoPage, pageId'[m]}
      <3>1. split[m] = "leaf"
        BY <1>2, <2>1
      <3>2. fileNodes[m].pageId \in {NoPage, pageId[m]}
        BY <3>1 DEF OldInv
      <3> QED BY <1>1, <1>2, <3>2
    <2>2. \A m \in Nodes : fileNodes[m].split = "split" => split'[m] = "split"
      BY <1>2 DEF OldInv
    <2> QED BY <1>2, <1>3, <2>1, <2>2 DEF OldInv
  <1> QED BY <1>9, <1>10, <1>11, <1>12

(* An entry is stored where its way ends. *)
LEMMA PushGet ==
    ASSUME WhereInv, OnceInv, LockInv, OneThread, GetInv, NEW t \in Threads, Push(t)
    PROVE  GetInv'
  <1> USE DEF GetInv
  <1>1. PICK n \in Nodes, p \in PageIds : n = at[t] /\ p = page[t]
    BY DEF Push, WhereInv, TypeOK, HandInv
  <1>2. /\ children' = [children EXCEPT ![p] = @ \cup {entry[t]}]
        /\ pagesDirty' = pagesDirty \cup {p}
        /\ UNCHANGED <<pageId, split, fileNodes, filePages>>
    BY <1>1 DEF Push, fileVars
  <1>3. /\ pc[t] = "push" /\ pc'[t] = "idle" /\ page'[t] = NoPage
        /\ \A u \in Threads : u = t
    BY DEF Push, Return, Goto, WhereInv, TypeOK, OneThread
  <1>4. /\ pageId[n] = p /\ OnWay(n, entry[t])
        /\ split[n] = "split" => Side(n, entry[t]) = 0
    BY <1>1, <1>3 DEF WalkInv
  <1>5. \A q \in PageIds, m \in Nodes : Uses(q, m)' => Uses(q, m)
    BY <1>2, <1>3 DEF Uses, NoPage, PageIds
  <1>6. \A q \in PageIds : WrittenBack(q)' = IF q = p THEN children[p] \cup {entry[t]}
                                             ELSE WrittenBack(q)
    BY <1>1, <1>2 DEF WrittenBack, WhereInv, TypeOK
  <1>7. children[p] \subseteq WrittenBack(p)
    BY <1>1 DEF OnceInv
  <1>8. \A m \in Nodes : Uses(p, m) => m = n
    BY <1>4 DEF Uses, WhereInv, PlaceInv, OwnInv
  <1>9. WalkInv'
    BY <1>3 DEF WalkInv
  <1>10. EndInv'
    <2>1. ASSUME NEW q \in PageIds, NEW m \in Nodes, Uses(q, m)', NEW e \in WrittenBack(q)'
          PROVE  OnWay(m, e) /\ (split'[m] = "split" => Side(m, e) = 0)
      <3>1. Uses(q, m) /\ split' = split
        BY <1>2, <1>5, <2>1
      <3>2. CASE e \in WrittenBack(q)
        BY <3>1, <3>2 DEF EndInv
      <3>3. CASE e \notin WrittenBack(q)
        <4>1. q = p /\ e = entry[t]
          BY <1>6, <1>7, <2>1, <3>3
        <4>2. m = n
          BY <1>8, <3>1, <4>1
        <4> QED BY <1>4, <3>1, <4>1, <4>2
      <3> QED BY <3>2, <3>3
    <2> QED BY <2>1 DEF EndInv
  <1>11. MoveInv'
    BY <1>3 DEF MoveInv
  <1>12. OldInv'
    BY <1>2, <1>3 DEF OldInv
  <1> QED BY <1>9, <1>10, <1>11, <1>12

LEMMA PushToNewPageGet ==
    ASSUME WhereInv, LockInv, OneThread, GetInv, NEW t \in Threads, PushToNewPage(t)
    PROVE  GetInv'
  <1> USE DEF GetInv
  <1>1. PICK n \in Nodes, q \in PageIds : n = at[t] /\ q = pages + 1
    BY DEF PushToNewPage, WhereInv, TypeOK
  <1>2. /\ children' = [children EXCEPT ![q] = {entry[t]}]
        /\ pagesDirty' = pagesDirty \cup {q}
        /\ pageId' = [pageId EXCEPT ![n] = q]
        /\ UNCHANGED <<split, fileNodes, filePages>>
    BY <1>1 DEF PushToNewPage
  <1>3. /\ pc[t] = "new" /\ pc'[t] = "idle" /\ page'[t] = NoPage
        /\ \A u \in Threads : u = t
    BY DEF PushToNewPage, Return, Goto, WhereInv, TypeOK, OneThread
  <1>4. /\ pageId[n] = NoPage /\ OnWay(n, entry[t])
        /\ split[n] = "split" => Side(n, entry[t]) = 0
    BY <1>1, <1>3 DEF WalkInv
  <1>5. \A m \in Nodes : pageId'[m] = IF m = n THEN q ELSE pageId[m]
    BY <1>1, <1>2 DEF WhereInv, TypeOK
  <1>6. \A m \in Nodes : ~ Uses(q, m)
    <2>1. q > pages
      BY <1>1 DEF WhereInv, TypeOK
    <2> QED BY <2>1 DEF WhereInv, PlaceInv, FreshInv
  <1>7. \A p \in PageIds, m \in Nodes : Uses(p, m)' => IF p = q THEN m = n ELSE Uses(p, m)
    <2>1. \A p \in PageIds, m \in Nodes : Uses(p, m)' => Uses(p, m) \/ (p = q /\ m = n)
      BY <1>2, <1>3, <1>5 DEF Uses, NoPage, PageIds
    <2> QED BY <1>6, <2>1
  <1>8. \A p \in PageIds : WrittenBack(p)' = IF p = q THEN {entry[t]} ELSE WrittenBack(p)
    BY <1>1, <1>2 DEF WrittenBack, WhereInv, TypeOK
  <1>9. WalkInv'
    BY <1>3 DEF WalkInv
  <1>10. EndInv'
    <2>1. ASSUME NEW p \in PageIds, NEW m \in Nodes, Uses(p, m)', NEW e \in WrittenBack(p)'
          PROVE  OnWay(m, e) /\ (split'[m] = "split" => Side(m, e) = 0)
      <3>1. split' = split
        BY <1>2
      <3>2. CASE p = q
        <4>1. m = n /\ e = entry[t]
          BY <1>7, <1>8, <2>1, <3>2
        <4> QED BY <1>4, <3>1, <4>1
      <3>3. CASE p # q
        <4>1. Uses(p, m) /\ e \in WrittenBack(p)
          BY <1>7, <1>8, <2>1, <3>3
        <4> QED BY <3>1, <4>1 DEF EndInv
      <3> QED BY <3>2, <3>3
    <2> QED BY <2>1 DEF EndInv
  <1>11. MoveInv'
    BY <1>3 DEF MoveInv
  <1>12. OldInv'
    BY <1>2, <1>3, <1>4, <1>5 DEF OldInv
  <1> QED BY <1>9, <1>10, <1>11, <1>12

(* The files get what the tree has. *)
LEMMA FlushGet ==
    ASSUME WhereInv, OneThread, GetInv, Flush
    PROVE  GetInv'
  <1> USE DEF GetInv
  <1>1. /\ UNCHANGED <<pageId, split, at, entry, page, pc, moving>>
        /\ \A u \in Threads : pc[u] = "idle"
        /\ pagesDirty' = {} /\ filePages' = [p \in PageIds |-> WrittenBack(p)]
    BY DEF Flush, AllIdle, nodeVars, threadVars
  <1>2. \/ fileNodes' = fileNodes
        \/ \A n \in Nodes : /\ fileNodes'[n].pageId = pageId[n]
                            /\ fileNodes'[n].split = split[n]
    BY DEF Flush, NodesNow
  <1>3. \A p \in PageIds, n \in Nodes : Uses(p, n)' => Uses(p, n)
    BY <1>1, <1>2 DEF Uses
  <1>4. \A p \in PageIds : WrittenBack(p)' = WrittenBack(p)
    <2>1. \A p \in PageIds : WrittenBack(p)' = filePages'[p]
      BY <1>1 DEF WrittenBack
    <2> QED BY <1>1, <2>1
  <1>5. WalkInv'
    BY <1>1 DEF WalkInv
  <1>6. EndInv'
    BY <1>1, <1>3, <1>4, EndsStay
  <1>7. MoveInv'
    BY <1>1 DEF MoveInv
  <1>8. OldInv'
    BY <1>1, <1>2 DEF OldInv
  <1> QED BY <1>5, <1>6, <1>7, <1>8

(* The tree is an older one: what is split in it was split, and a page has *)
(* what it had.                                                            *)
LEMMA ReopenGet ==
    ASSUME WhereInv, OneThread, GetInv, Reopen
    PROVE  GetInv'
  <1> USE DEF GetInv
  <1>1. /\ UNCHANGED <<fileNodes, filePages, pagesDirty, at, entry, page, pc, moving>>
        /\ \A u \in Threads : pc[u] = "idle"
        /\ pagesDirty = {}
        /\ \A n \in Nodes : /\ pageId'[n] = fileNodes[n].pageId
                            /\ split'[n] = fileNodes[n].split
    BY DEF Reopen, AllIdle, threadVars
  <1>2. \A p \in PageIds, n \in Nodes : Uses(p, n)' => Uses(p, n)
    BY <1>1 DEF Uses
  <1>3. \A p \in PageIds : WrittenBack(p)' = WrittenBack(p)
    BY <1>1 DEF WrittenBack
  <1>4. WalkInv'
    BY <1>1 DEF WalkInv
  <1>5. EndInv'
    <2>1. \A n \in Nodes : split'[n] = "split" => split[n] = "split"
      BY <1>1 DEF OldInv
    <2> QED BY <1>2, <1>3, <2>1, EndsStay
  <1>6. MoveInv'
    BY <1>1 DEF MoveInv
  <1>7. OldInv'
    BY <1>1 DEF OldInv
  <1> QED BY <1>4, <1>5, <1>6, <1>7

LEMMA InitGet == Init => GetInv
  <1> SUFFICES ASSUME Init PROVE GetInv
    OBVIOUS
  <1>1. WalkInv /\ MoveInv /\ OldInv
    BY DEF Init, WalkInv, MoveInv, OldInv
  <1>2. \A p \in PageIds : WrittenBack(p) = {}
    BY DEF Init, WrittenBack
  <1>3. EndInv
    BY <1>2 DEF EndInv
  <1> QED BY <1>1, <1>3 DEF GetInv

LEMMA NextGet ==
    ASSUME WhereInv, OnceInv, LockInv, OneThread, GetInv, [Next]_vars
    PROVE  GetInv'
  <1>1. ASSUME NEW t \in Threads, Step(t) PROVE GetInv'
    BY <1>1, DescendGet, TrySplitGet, AlreadySplitGet, BeginSplitGet, LockPageGet, PartitionGet,
       GiveBackGet, PublishGet, StoreGet, PushGet, PushToNewPageGet DEF Step, Split
  <1>2. ASSUME NEW t \in Threads, NEW e \in Entries, Begin(t, e) PROVE GetInv'
    BY <1>2, BeginGet
  <1>3. CASE Flush
    BY <1>3, FlushGet
  <1>4. CASE Reopen
    BY <1>4, ReopenGet
  <1>5. CASE UNCHANGED vars
    <2> USE <1>5 DEF vars, nodeVars, pageVars, fileVars, threadVars
    <2>1. \A p, n : (Uses(p, n)' <=> Uses(p, n)) /\ WrittenBack(p)' = WrittenBack(p)
      BY UsesStay, BackStays
    <2>2. WalkInv' /\ OldInv'
      BY DEF GetInv, WalkInv, OldInv
    <2>3. EndInv' /\ MoveInv'
      BY <2>1 DEF GetInv, EndInv, MoveInv
    <2> QED BY <2>2, <2>3 DEF GetInv
  <1> QED BY <1>1, <1>2, <1>3, <1>4, <1>5 DEF Next

(* The equation of the way down in search_leaf_for_key, at one node. *)
Downward(f, e, n) ==
    f[n] = IF split[n] = "split" /\ Side(n, e) # 0 THEN f[Side(n, e)] ELSE n

(* It has a solution: a half comes after its node. *)
LEMMA WayExists ==
    ASSUME WhereInv, NEW e
    PROVE  \E f \in [Nodes -> Nodes] : \A n \in Nodes : Downward(f, e, n)
  <1> DEFINE Goes(n) == split[n] = "split" /\ Side(n, e) # 0
             Solves(f, j) == \A n \in Nodes : n + j > MaxNode => Downward(f, e, n)
             Bad == {j \in Nat : ~ \E f \in [Nodes -> Nodes] : Solves(f, j)}
  <1>1. MaxNode \in Nat /\ \A n \in Nodes : n \in Nat /\ 1 <= n /\ n <= MaxNode
    BY DenseConstants DEF Nodes
  <1>2. \A n \in Nodes : Goes(n) => Side(n, e) \in Nodes /\ Side(n, e) > n
    <2>1. ASSUME NEW n \in Nodes, Goes(n) PROVE Side(n, e) \in Nodes /\ Side(n, e) > n
      <3>1. 2 * n < MaxNode
        BY <2>1 DEF WhereInv, DepthInv
      <3>2. 2 * n \in Nodes /\ 2 * n + 1 \in Nodes
        BY <3>1, HalvesInside
      <3>3. Side(n, e) \in {2 * n, 2 * n + 1}
        BY <2>1 DEF Side
      <3> QED BY <1>1, <3>2, <3>3
    <2> QED BY <2>1
  <1>3. Bad = {}
    <2>1. SUFFICES ASSUME Bad # {} PROVE FALSE
      OBVIOUS
    <2>2. PICK j \in Bad : \A i \in Bad : j <= i
      <3>1. Bad \subseteq Nat
        OBVIOUS
      <3> HIDE DEF Bad
      <3> QED BY <2>1, <3>1, LeastNat
    <2>3. j \in Nat /\ ~ \E f \in [Nodes -> Nodes] : Solves(f, j)
      BY <2>2
    <2>4. j # 0
      <3>1. SUFFICES ASSUME j = 0 PROVE FALSE
        OBVIOUS
      <3>2. \A n \in Nodes : ~ (n + j > MaxNode)
        BY <1>1, <3>1
      <3>3. [n \in Nodes |-> n] \in [Nodes -> Nodes] /\ Solves([n \in Nodes |-> n], j)
        BY <3>2
      <3> QED BY <2>3, <3>3
    <2>5. PICK f \in [Nodes -> Nodes] : Solves(f, j - 1)
      <3>1. j - 1 \in Nat /\ ~ (j <= j - 1)
        BY <2>3, <2>4
      <3>2. j - 1 \notin Bad
        BY <2>2, <3>1
      <3> QED BY <3>1, <3>2
    <2>6. CASE \A m \in Nodes : m + j # MaxNode + 1
      <3>1. \A n \in Nodes : n + j > MaxNode => n + (j - 1) > MaxNode
        BY <1>1, <2>3, <2>6
      <3>2. Solves(f, j)
        BY <2>5, <3>1
      <3> QED BY <2>3, <3>2
    <2>7. ASSUME NEW m \in Nodes, m + j = MaxNode + 1 PROVE FALSE
      <3> DEFINE v == IF Goes(m) THEN f[Side(m, e)] ELSE m
                 g == [f EXCEPT ![m] = v]
      <3>1. v \in Nodes
        BY <1>2
      <3> HIDE DEF v
      <3>2. g \in [Nodes -> Nodes] /\ g[m] = v /\ \A n \in Nodes \ {m} : g[n] = f[n]
        BY <3>1
      <3> HIDE DEF g
      <3>3. \A n \in Nodes : n + j > MaxNode => n = m \/ (n > m /\ n + (j - 1) > MaxNode)
        BY <1>1, <2>3, <2>7
      <3>4. \A n \in Nodes : n >= m /\ Goes(n) => g[Side(n, e)] = f[Side(n, e)]
        <4>1. \A n \in Nodes : n >= m /\ Goes(n) => Side(n, e) # m
          BY <1>1, <1>2
        <4> QED BY <1>2, <3>2, <4>1
      <3>5. Downward(g, e, m)
        <4>1. m >= m
          BY <1>1
        <4> QED BY <3>2, <3>4, <4>1 DEF Downward, v
      <3>6. ASSUME NEW n \in Nodes, n > m, n + (j - 1) > MaxNode PROVE Downward(g, e, n)
        <4>1. Downward(f, e, n)
          BY <2>5, <3>6
        <4>2. n # m /\ n >= m
          BY <1>1, <3>6
        <4> QED BY <3>2, <3>4, <4>1, <4>2 DEF Downward
      <3>7. Solves(g, j)
        BY <3>3, <3>5, <3>6
      <3> QED BY <2>3, <3>2, <3>7
    <2> QED BY <2>6, <2>7
  <1>4. PICK f \in [Nodes -> Nodes] : Solves(f, MaxNode)
    <2>1. MaxNode \notin Bad
      BY <1>3
    <2> QED BY <1>1, <2>1
  <1>5. \A n \in Nodes : n + MaxNode > MaxNode
    BY <1>1
  <1> QED BY <1>4, <1>5

(* LeafFor is where a solution has the way end. *)
LEMMA WayTaken ==
    ASSUME WhereInv, NEW e
    PROVE  \E f : (\A n \in Nodes : Downward(f, e, n)) /\ LeafFor(e) = f[1]
  <1> DEFINE Body(f, n) == IF split[n] = "split" /\ Side(n, e) # 0
                           THEN f[Side(n, e)] ELSE n
             d == CHOOSE f : f = [n \in Nodes |-> Body(f, n)]
  <1>1. PICK f \in [Nodes -> Nodes] : \A n \in Nodes : Downward(f, e, n)
    BY WayExists
  <1>2. f = [n \in Nodes |-> Body(f, n)]
    BY <1>1 DEF Downward
  <1>3. d = [n \in Nodes |-> Body(d, n)]
    BY <1>2
  <1>4. LeafFor(e) = d[1]
    BY DEF LeafFor
  <1> HIDE DEF d
  <1>5. \A n \in Nodes : Downward(d, e, n)
    BY <1>3 DEF Downward
  <1> QED BY <1>4, <1>5

(* It goes the way of the entry, as far as nodes are split. *)
LEMMA WayLeads ==
    ASSUME WhereInv, LockInv, NEW e, NEW n \in Nodes, Reachable(n), OnWay(n, e),
           split[n] = "split" => Side(n, e) = 0
    PROVE  LeafFor(e) = n
  <1>1. PICK f : (\A m \in Nodes : Downward(f, e, m)) /\ LeafFor(e) = f[1]
    BY WayTaken
  <1> DEFINE S == {m \in Nodes : Reachable(m) => f[m] = f[1]}
  <1>2. 1 \in S
    BY DenseConstants DEF Nodes
  <1>3. ASSUME NEW a \in S, 2 * a < MaxNode, Side(a, e) # 0
        PROVE  Side(a, e) \in S
    <2>1. a \in Nodes /\ 2 * a \in Nodes /\ 2 * a + 1 \in Nodes
      BY <1>3, HalvesInside
    <2>2. /\ Side(a, e) \in {2 * a, 2 * a + 1}
          /\ Side(a, e) \in Nodes /\ Side(a, e) \div 2 = a /\ Side(a, e) # 1
      <3>1. Side(a, e) \in {2 * a, 2 * a + 1}
        BY <1>3 DEF Side
      <3>2. 2 * a # 1 /\ 2 * a + 1 # 1
        BY <2>1 DEF Nodes
      <3> QED BY <2>1, <3>1, <3>2, HalfOf
    <2>3. ASSUME Reachable(Side(a, e)) PROVE f[Side(a, e)] = f[1]
      <3>1. split[a] = "split"
        BY <2>2, <2>3 DEF Reachable
      <3>2. Reachable(a)
        BY <2>1, <3>1 DEF LockInv, ReachInv
      <3>3. f[a] = f[1]
        BY <3>2
      <3>4. f[a] = f[Side(a, e)]
        BY <1>1, <1>3, <2>1, <3>1 DEF Downward
      <3> QED BY <3>3, <3>4
    <2> QED BY <2>2, <2>3
  <1>4. n \in S
    <2>1. S \in SUBSET Nodes
      OBVIOUS
    <2> HIDE DEF S
    <2> QED BY <1>2, <1>3, <2>1 DEF OnWay
  <1>5. f[n] = n
    BY <1>1 DEF Downward
  <1> QED BY <1>1, <1>4, <1>5

(* With one thread, get finds every entry that a search finds: an entry is *)
(* at the node where its way ends, however often the nodes on it were      *)
(* split since, and whichever structure file was read again.               *)
THEOREM OneThreadFindsAll == Spec => [](OneThread => GetFindsStored)
  <1> DEFINE Inv == DenseInv /\ (OneThread => GetInv)
  <1>1. Init => Inv
    BY InitWhere, InitLocks, InitLive, InitGet DEF DenseInv
  <1>2. Inv /\ [Next]_vars => Inv'
    <2>1. DenseInv /\ [Next]_vars => DenseInv'
      BY NextWhere, NextOnce, NextLocks, NextLive DEF DenseInv
    <2>2. DenseInv /\ OneThread /\ GetInv /\ [Next]_vars => GetInv'
      BY NextGet DEF DenseInv
    <2>3. OneThread' <=> OneThread
      BY DEF OneThread
    <2> QED BY <2>1, <2>2, <2>3
  <1>3. Inv => (OneThread => GetFindsStored)
    <2> SUFFICES ASSUME Inv, OneThread, NEW e \in Inserted, FoundBySearch(e)
                 PROVE  FoundByGet(e)
      BY DEF GetFindsStored
    <2>1. PICK n \in Nodes : Reachable(n) /\ e \in At(n)
      BY DEF FoundBySearch
    <2>2. pageId[n] \in PageIds /\ e \in children[pageId[n]]
      BY <2>1 DEF At, DenseInv, WhereInv, TypeOK
    <2>3. e \in WrittenBack(pageId[n])
      BY <2>2 DEF DenseInv, OnceInv
    <2>4. OnWay(n, e) /\ (split[n] = "split" => Side(n, e) = 0)
      BY <2>2, <2>3 DEF GetInv, EndInv, Uses
    <2>5. LeafFor(e) = n
      BY <2>1, <2>4, WayLeads DEF DenseInv
    <2> QED BY <2>1, <2>5 DEF FoundByGet
  <1> HIDE DEF Inv
  <1>4. Spec => []Inv
    BY <1>1, <1>2, PTL DEF Spec
  <1> QED BY <1>3, <1>4, PTL
=============================================================================
