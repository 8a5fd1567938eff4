--------------------------- MODULE PageFileProofs ---------------------------
(***************************************************************************)
(* Theorems about PageFile, for every number of pages, of crashes and      *)
(* every set of items: first its types, then PageFileInv!IInv, which is    *)
(* inductive, and the safety properties that follow from it: no page has   *)
(* two uses, links match the chains, what was saved is read whole; then    *)
(* what else follows: no page is lost without a crash, a page that is read *)
(* back gets the chain it had, and the paged file is a PageStore.          *)
(***************************************************************************)
EXTENDS PageFileInv, SequenceTheorems, WellFoundedInduction, TLAPS

(* What the assumption on the constants says of pages and items. *)
LEMMA ItemFacts ==
    /\ MaxPage \in Nat \ {0}
    /\ Nothing \in AnyItem /\ Nothing.blocks = 0
    /\ \A it \in AnyItem : it.blocks \in Nat /\ it.exact \in BOOLEAN
    /\ \A it \in Items : it \in AnyItem /\ it # Nothing /\ it.blocks > 0
  BY ConstantsOK DEF AnyItem

LEMMA PageFacts ==
    /\ 0 \in 0 .. MaxPage /\ 0 \in 0 .. MaxPage + 1 /\ 1 \in 1 .. MaxPage + 1
    /\ 0 \notin Pages
    /\ \A p \in Pages : /\ p \in 0 .. MaxPage /\ p \in Nat
                        /\ p + 1 \in 1 .. MaxPage + 1
                        /\ p + 1 \in 0 .. MaxPage + 1
  BY ConstantsOK DEF Pages

(* What alloc_new hands out is a page, and the allocator's state and the    *)
(* file keep their types.                                                  *)
LEMMA AllocType ==
  ASSUME TypeOK, NEW p, Alloc(p)
  PROVE  /\ p \in Pages
         /\ lowest' \in 1 .. MaxPage + 1
         /\ freed' \in [Pages -> Nat]
         /\ fileLowest' \in 0 .. MaxPage + 1
         /\ next' \in [Pages -> 0 .. MaxPage]
         /\ prev' \in [Pages -> 0 .. MaxPage]
  <1>1. CASE p \in FreePages
    <2>1. freed[p] \in Nat /\ freed[p] - 1 \in Nat
      BY <1>1 DEF FreePages, TypeOK
    <2>2. QED
      BY <1>1, <2>1 DEF Alloc, TypeOK, FreePages
  <1>2. CASE p \notin FreePages
    <2>1. p = lowest /\ p \in Pages
      BY <1>2 DEF Alloc, CanAlloc
    <2>2. 0 \in 0 .. MaxPage /\ p + 1 \in 1 .. MaxPage + 1 /\ p + 1 \in 0 .. MaxPage + 1
      BY <2>1, PageFacts
    <2>3. lowest' \in 1 .. MaxPage + 1 /\ fileLowest' \in 0 .. MaxPage + 1
      BY <1>2, <2>2 DEF Alloc
    <2>4. next' = [next EXCEPT ![p] = 0] /\ prev' = [prev EXCEPT ![p] = 0]
          /\ freed' = freed
      BY <1>2 DEF Alloc
    <2>5. /\ next' \in [Pages -> 0 .. MaxPage] /\ prev' \in [Pages -> 0 .. MaxPage]
          /\ freed' \in [Pages -> Nat]
      BY <2>2, <2>4 DEF TypeOK
    <2>6. QED
      BY <2>1, <2>3, <2>5
  <1>3. QED
    BY <1>1, <1>2

LEMMA InitType == Init => TypeOK /\ ShapeInv
  <1>1. SUFFICES ASSUME Init PROVE TypeOK /\ ShapeInv
    OBVIOUS
  <1>2. lowest = 1
    BY <1>1 DEF Init, LowestOnOpen
  <1>3. /\ item \in [Pages -> AnyItem] /\ saved \in [Pages -> AnyItem]
        /\ chain \in [Pages -> Seq(Pages)] /\ todo \in Seq(Pages)
        /\ data \in [Pages -> {<<>>} \cup (AnyItem \X Nat)]
    BY <1>1, ItemFacts DEF Init
  <1>4. /\ next \in [Pages -> 0 .. MaxPage] /\ prev \in [Pages -> 0 .. MaxPage]
        /\ freed \in [Pages -> Nat]
    BY <1>1, PageFacts DEF Init
  <1>5. wId \in 0 .. MaxPage /\ wItem \in AnyItem
    BY <1>1, PageFacts, ItemFacts DEF Init
  <1>6. lowest \in 1 .. MaxPage + 1 /\ fileLowest \in 0 .. MaxPage + 1
    BY <1>1, <1>2, PageFacts DEF Init
  <1>7. TypeOK
    BY <1>1, <1>3, <1>4, <1>5, <1>6 DEF Init, TypeOK, Steps
  <1>8. QED
    BY <1>1, <1>7 DEF Init, ShapeInv, Writing

(* new_page keeps the types. *)
LEMMA NewPageType ==
  ASSUME TypeOK, ShapeInv, NEW id \in Pages, NEW it \in Items, NewPage(id, it)
  PROVE  TypeOK' /\ ShapeInv'
  <1>1. Alloc(id)
    BY DEF NewPage
  <1>2. chain' \in [Pages -> Seq(Pages)] /\ Len(<<id>>) = 1
    BY DEF TypeOK, NewPage
  <1>3. item' \in [Pages -> AnyItem] /\ saved' \in [Pages -> AnyItem]
    BY ItemFacts DEF TypeOK, NewPage, Load
  <1>4. cached' \in SUBSET Pages /\ dirty' \in SUBSET Pages /\ known' \in SUBSET Pages
    BY DEF TypeOK, NewPage, Load
  <1>5. TypeOK'
    BY <1>1, <1>2, <1>3, <1>4, AllocType DEF TypeOK, NewPage, writeVars
  <1>6. \A i \in Pages : i \in cached' => Len(chain'[i]) > 0
    BY <1>2 DEF TypeOK, ShapeInv, NewPage, Load
  <1>7. QED
    BY <1>5, <1>6 DEF ShapeInv, NewPage, writeVars, Writing

(* So does opening a page, whatever the file holds. *)
LEMMA OpenType ==
  ASSUME TypeOK, ShapeInv, NEW id \in Pages, Open(id)
  PROVE  TypeOK' /\ ShapeInv'
  <1>1. PICK it \in HeadItems(id) : \E s \in ChainsUpTo(it.blocks + 1) :
          /\ item' = [item EXCEPT ![id] = it]
          /\ chain' = [chain EXCEPT ![id] = s]
    BY DEF Open, Load
  <1>2. PICK s \in ChainsUpTo(it.blocks + 1) :
          /\ item' = [item EXCEPT ![id] = it]
          /\ chain' = [chain EXCEPT ![id] = s]
    BY <1>1
  <1>3. it \in AnyItem
    BY ItemFacts DEF HeadItems
  <1>4. s \in Seq(Pages) /\ Len(s) > 0
    BY <1>3, ItemFacts DEF ChainsUpTo
  <1>5. item' \in [Pages -> AnyItem]
    BY <1>2, <1>3 DEF TypeOK
  <1>6. chain' \in [Pages -> Seq(Pages)]
    BY <1>2, <1>4 DEF TypeOK
  <1>7. cached' = cached \cup {id}
    BY DEF Open, Load
  <1>8. TypeOK'
    BY <1>5, <1>6, <1>7 DEF TypeOK, Open, fileVars, writeVars
  <1>9. \A i \in Pages : i \in cached' => Len(chain'[i]) > 0
    BY <1>2, <1>4, <1>7 DEF TypeOK, ShapeInv
  <1>10. QED
    BY <1>7, <1>8, <1>9 DEF ShapeInv, Open, writeVars, Writing

(* What the holder of a guard does to a cached page keeps the types. *)
LEMMA CachedType ==
  ASSUME TypeOK, ShapeInv, NEW id \in Pages,
         \/ \E it \in Items : Write(id, it)
         \/ \E emptied \in BOOLEAN : AllowFree(id, emptied)
         \/ ForceFree(id)
  PROVE  TypeOK' /\ ShapeInv'
  <1>1. CASE \E it \in Items : Write(id, it)
    <2>1. PICK it \in Items : Write(id, it)
      BY <1>1
    <2>2. item' \in [Pages -> AnyItem]
      BY <2>1, ItemFacts DEF TypeOK, Write
    <2>3. TypeOK'
      BY <2>1, <2>2 DEF TypeOK, Write, fileVars, writeVars
    <2>4. QED
      BY <2>1, <2>3 DEF Write, fileVars, writeVars, ShapeInv, Writing
  <1>2. CASE \E emptied \in BOOLEAN : AllowFree(id, emptied)
    <2>1. PICK emptied \in BOOLEAN : AllowFree(id, emptied)
      BY <1>2
    <2>2. item' \in [Pages -> AnyItem] /\ saved' \in [Pages -> AnyItem]
      <3>1. item' = item \/ item' = [item EXCEPT ![id] = Nothing]
        BY <2>1 DEF AllowFree
      <3>2. saved' = [saved EXCEPT ![id] = Nothing]
        BY <2>1 DEF AllowFree
      <3>3. /\ item \in [Pages -> AnyItem] /\ saved \in [Pages -> AnyItem]
            /\ Nothing \in AnyItem
        BY ItemFacts DEF TypeOK
      <3>4. item' \in [Pages -> AnyItem]
        BY <3>1, <3>3
      <3>5. saved' \in [Pages -> AnyItem]
        BY <3>2, <3>3
      <3>6. QED
        BY <3>4, <3>5
    <2>3. TypeOK'
      BY <2>1, <2>2 DEF TypeOK, AllowFree, fileVars, writeVars
    <2>4. QED
      BY <2>1, <2>3 DEF AllowFree, fileVars, writeVars, ShapeInv, Writing
  <1>3. CASE ForceFree(id)
    <2>1. saved' \in [Pages -> AnyItem]
      BY <1>3, ItemFacts DEF TypeOK, ForceFree
    <2>2. TypeOK'
      BY <1>3, <2>1 DEF TypeOK, ForceFree, fileVars, writeVars
    <2>3. QED
      BY <1>3, <2>2 DEF ForceFree, fileVars, writeVars, ShapeInv, Writing
  <1>4. QED
    BY <1>1, <1>2, <1>3

(* The three ways a page leaves the cache. *)
LEMMA EvictType ==
  ASSUME TypeOK, ShapeInv, NEW id \in Pages,
         EvictClean(id) \/ EvictForced(id) \/ EvictDirty(id)
  PROVE  TypeOK' /\ ShapeInv'
  <1>0. Unload(id)
    BY DEF EvictClean, EvictForced, EvictDirty
  <1>1. /\ item' \in [Pages -> AnyItem]
        /\ cached' \in SUBSET Pages /\ dirty' \in SUBSET Pages
        /\ allowed' \in SUBSET Pages /\ forced' \in SUBSET Pages
    BY <1>0, ItemFacts DEF TypeOK, Unload
  <1>2. chain[id] \in Seq(Pages) /\ item[id] \in AnyItem /\ id \in 0 .. MaxPage
    BY PageFacts DEF TypeOK
  <1>3. cached' = cached \ {id}
    BY <1>0 DEF Unload
  <1>4. CASE EvictClean(id)
    <2>1. TypeOK'
      BY <1>1, <1>4 DEF TypeOK, EvictClean, fileVars, writeVars
    <2>2. QED
      BY <1>3, <1>4, <2>1 DEF EvictClean, writeVars, ShapeInv, Writing
  <1>5. CASE EvictForced(id)
    <2>1. chain' \in [Pages -> Seq(Pages)]
      BY <1>5 DEF TypeOK, EvictForced
    <2>2. TypeOK'
      BY <1>1, <1>2, <1>5, <2>1 DEF TypeOK, EvictForced, fileVars, Steps
    <2>3. \A i \in Pages : i \in cached' => Len(chain'[i]) > 0
      BY <1>3, <1>5 DEF TypeOK, ShapeInv, EvictForced
    <2>4. step' = "free" /\ wId' = id
      BY <1>5 DEF EvictForced
    <2>5. QED
      BY <1>3, <2>2, <2>3, <2>4 DEF ShapeInv, Writing
  <1>6. CASE EvictDirty(id)
    <2>1. saved' \in [Pages -> AnyItem]
      BY <1>6, ItemFacts DEF TypeOK, EvictDirty
    <2>2. wAllowed' \in BOOLEAN /\ step' \in Steps
      BY <1>6 DEF EvictDirty, Steps
    <2>3. wBlock' \in Nat /\ todo' \in Seq(Pages) /\ wItem' \in AnyItem
          /\ wId' \in 0 .. MaxPage
      BY <1>2, <1>6 DEF EvictDirty
    <2>4. TypeOK'
      BY <1>1, <1>6, <2>1, <2>2, <2>3 DEF TypeOK, EvictDirty, fileVars
    <2>5. step' = "write" /\ wId' = id /\ chain' = chain /\ id \in cached
      BY <1>6 DEF EvictDirty
    <2>6. QED
      BY <1>3, <2>4, <2>5 DEF ShapeInv, Writing
  <1>7. QED
    BY <1>4, <1>5, <1>6

(* The steps of a flush.  A step that reads the head of todo, or the page  *)
(* before the last one of the chain, finds it there.                       *)
LEMMA ShorterSeq ==
  ASSUME NEW S, NEW s \in Seq(S), NEW t \in Seq(S)
  PROVE  SubSeq(s, 1, Len(s) - Len(t)) \in Seq(S)
  <1>1. Len(s) \in Nat /\ Len(t) \in Nat
    OBVIOUS
  <1>2. \A i \in 1 .. Len(s) - Len(t) : i \in 1 .. Len(s)
    BY <1>1
  <1>3. \A i \in 1 .. Len(s) - Len(t) : s[i] \in S
    BY <1>2
  <1>4. 1 \in Int /\ Len(s) - Len(t) \in Int
    BY <1>1
  <1>5. QED
    BY <1>3, <1>4, SubSeqProperties

LEMMA WriteType ==
  ASSUME TypeOK, ShapeInv, WriteBlock \/ EndData
  PROVE  TypeOK' /\ ShapeInv'
  <1>1. CASE WriteBlock
    <2>1. todo # <<>> /\ step = "write"
      BY <1>1 DEF WriteBlock, BlocksLeft
    <2>2. Head(todo) \in Pages /\ Tail(todo) \in Seq(Pages)
      BY <2>1 DEF TypeOK
    <2>3. wItem \in AnyItem /\ wBlock + 1 \in Nat
      BY DEF TypeOK
    <2>4. data' \in [Pages -> {<<>>} \cup (AnyItem \X Nat)]
      BY <1>1, <2>2, <2>3 DEF TypeOK, WriteBlock
    <2>5. TypeOK'
      BY <1>1, <2>2, <2>3, <2>4 DEF TypeOK, WriteBlock, pageVars
    <2>6. QED
      BY <1>1, <2>1, <2>5 DEF ShapeInv, WriteBlock, pageVars, Writing
  <1>2. CASE EndData
    <2>1. LeftOver \in Seq(Pages)
      BY DEF TypeOK, LeftOver
    <2>2. wId \in Pages /\ wId \notin cached
      BY <1>2 DEF ShapeInv, EndData
    <2>3. SubSeq(chain[wId], 1, Len(chain[wId]) - Len(LeftOver)) \in Seq(Pages)
      BY <2>1, <2>2, ShorterSeq DEF TypeOK
    <2>4. chain' \in [Pages -> Seq(Pages)]
      BY <1>2, <2>3 DEF TypeOK, EndData
    <2>5. TypeOK'
      BY <1>2, <2>1, <2>4 DEF TypeOK, EndData, fileVars, pageVars, writeVars, Steps
    <2>6. \A i \in Pages : i \in cached => chain'[i] = chain[i]
      BY <1>2, <2>2 DEF TypeOK, EndData
    <2>7. QED
      BY <1>2, <2>2, <2>5, <2>6
      DEF ShapeInv, EndData, pageVars, writeVars, Writing
  <1>3. QED
    BY <1>1, <1>2

LEMMA GrowType ==
  ASSUME TypeOK, ShapeInv, NEW p \in Pages, GrowChain(p)
  PROVE  TypeOK' /\ ShapeInv'
  <1>1. Alloc(p) /\ step = "write"
    BY DEF GrowChain, BlocksLeft
  <1>2. wId \in Pages /\ wId \notin cached /\ chain[wId] \in Seq(Pages)
        /\ Len(chain[wId]) > 0
    BY <1>1 DEF ShapeInv, Writing, TypeOK
  <1>3. chain' = [chain EXCEPT ![wId] = Append(chain[wId], p)]
    BY DEF GrowChain
  <1>4. /\ Append(chain[wId], p) \in Seq(Pages)
        /\ Len(Append(chain[wId], p)) > 1
    BY <1>2
  <1>5. chain' \in [Pages -> Seq(Pages)] /\ Len(chain'[wId]) > 1
    BY <1>2, <1>3, <1>4 DEF TypeOK
  <1>6. <<p>> \in Seq(Pages) /\ Len(<<p>>) = 1
    OBVIOUS
  <1>7. TypeOK'
    BY <1>1, <1>5, <1>6, AllocType
    DEF TypeOK, GrowChain, pageVars, writeVars, Steps
  <1>8. \A i \in Pages : i \in cached => chain'[i] = chain[i]
    BY <1>2, <1>3 DEF TypeOK
  <1>9. QED
    BY <1>2, <1>5, <1>6, <1>7, <1>8
    DEF ShapeInv, GrowChain, pageVars, writeVars, Writing

LEMMA LinkType ==
  ASSUME TypeOK, ShapeInv, LinkNext \/ LinkPrev
  PROVE  TypeOK' /\ ShapeInv'
  <1>1. step \in {"linkNext", "linkPrev"}
    BY DEF LinkNext, LinkPrev
  <1>2. Head(todo) \in Pages
    BY <1>1 DEF ShapeInv, TypeOK
  <1>3. wId \in Pages /\ chain[wId] \in Seq(Pages) /\ Len(chain[wId]) > 1
    BY <1>1 DEF ShapeInv, TypeOK
  <1>4. OldLast \in Pages
    BY <1>3 DEF OldLast
  <1>5. Head(todo) \in 0 .. MaxPage /\ OldLast \in 0 .. MaxPage
    BY <1>2, <1>4, PageFacts
  <1>6. next' \in [Pages -> 0 .. MaxPage] /\ prev' \in [Pages -> 0 .. MaxPage]
    <2>1. CASE LinkNext
      BY <1>5, <2>1 DEF LinkNext, TypeOK
    <2>2. CASE LinkPrev
      BY <1>5, <2>2 DEF LinkPrev, TypeOK
    <2>3. QED
      BY <2>1, <2>2
  <1>7. TypeOK'
    BY <1>6 DEF TypeOK, LinkNext, LinkPrev, pageVars, writeVars, Steps
  <1>8. QED
    BY <1>7 DEF ShapeInv, LinkNext, LinkPrev, pageVars, writeVars, Writing

LEMMA FreeType ==
  ASSUME TypeOK, ShapeInv, FreePage \/ ZeroHeader \/ EndFlush
  PROVE  TypeOK' /\ ShapeInv'
  <1>1. CASE FreePage
    <2>1. todo # <<>> /\ step = "free"
      BY <1>1 DEF FreePage
    <2>2. Len(todo) > 0
      BY <2>1 DEF TypeOK
    <2>3. freed' \in [Pages -> Nat]
      <3>1. Head(todo) \in Pages
        BY <2>1 DEF TypeOK
      <3>2. freed[Head(todo)] + 1 \in Nat
        BY <3>1 DEF TypeOK
      <3>3. QED
        BY <1>1, <3>1, <3>2 DEF TypeOK, FreePage
    <2>4. next' \in [Pages -> 0 .. MaxPage]
      BY <1>1, PageFacts DEF TypeOK, FreePage
    <2>5. TypeOK'
      BY <1>1, <2>3, <2>4 DEF TypeOK, FreePage, pageVars, writeVars, Steps
    <2>6. QED
      BY <1>1, <2>1, <2>2, <2>5 DEF ShapeInv, FreePage, pageVars, writeVars, Writing
  <1>2. CASE ZeroHeader
    <2>1. todo # <<>> /\ step = "zero"
      BY <1>2 DEF ZeroHeader, ShapeInv
    <2>2. Tail(todo) \in Seq(Pages)
      BY <2>1 DEF TypeOK
    <2>3. next' \in [Pages -> 0 .. MaxPage] /\ prev' \in [Pages -> 0 .. MaxPage]
      BY <1>2, PageFacts DEF TypeOK, ZeroHeader
    <2>4. TypeOK'
      BY <1>2, <2>2, <2>3 DEF TypeOK, ZeroHeader, pageVars, writeVars, Steps
    <2>5. QED
      BY <1>2, <2>1, <2>4 DEF ShapeInv, ZeroHeader, pageVars, writeVars, Writing
  <1>3. CASE EndFlush
    <2>1. saved' \in [Pages -> AnyItem]
      BY <1>3, ItemFacts DEF TypeOK, EndFlush
    <2>2. TypeOK'
      BY <1>3, <2>1, ItemFacts, PageFacts
      DEF TypeOK, EndFlush, fileVars, pageVars, Steps
    <2>3. QED
      BY <1>3, <2>2 DEF ShapeInv, EndFlush, pageVars, Writing
  <1>4. QED
    BY <1>1, <1>2, <1>3

LEMMA CrashType ==
  ASSUME TypeOK, ShapeInv, Crash
  PROVE  TypeOK' /\ ShapeInv'
  <1>1. lowest' \in 1 .. MaxPage + 1
    BY ItemFacts DEF TypeOK, Crash, LowestOnOpen
  <1>2. item' \in [Pages -> AnyItem] /\ chain' \in [Pages -> Seq(Pages)]
    BY ItemFacts DEF TypeOK, Crash
  <1>3. known' \in SUBSET Pages /\ freed' \in [Pages -> Nat] /\ crashes' \in Nat
    BY DEF TypeOK, Crash
  <1>4. /\ wId' \in 0 .. MaxPage /\ wItem' \in AnyItem
        /\ wBlock' \in Nat /\ wAllowed' \in BOOLEAN /\ todo' \in Seq(Pages)
    <2>1. wId' \in 0 .. MaxPage
      BY PageFacts DEF Crash
    <2>2. wItem' \in AnyItem
      BY ItemFacts DEF Crash
    <2>3. wBlock' \in Nat /\ todo' \in Seq(Pages)
      BY DEF Crash
    <2>4. wAllowed' \in BOOLEAN
      BY DEF Crash
    <2>5. QED
      BY <2>1, <2>2, <2>3, <2>4
  <1>5. /\ fileLowest' = fileLowest /\ next' = next /\ prev' = prev
        /\ data' = data /\ saved' = saved
        /\ cached' = {} /\ dirty' = {} /\ allowed' = {} /\ forced' = {}
        /\ step' = "idle"
    BY DEF Crash, fileVars
  <1>6. TypeOK'
    BY <1>1, <1>2, <1>3, <1>4, <1>5 DEF TypeOK, Steps
  <1>7. QED
    BY <1>6 DEF ShapeInv, Crash, Writing

LEMMA NextType == TypeOK /\ ShapeInv /\ [Next]_vars => TypeOK' /\ ShapeInv'
  <1>1. SUFFICES ASSUME TypeOK, ShapeInv, [Next]_vars
                 PROVE  TypeOK' /\ ShapeInv'
    OBVIOUS
  <1>2. CASE \E id \in Pages, it \in Items : NewPage(id, it)
    BY <1>1, <1>2, NewPageType
  <1>3. CASE \E id \in Pages : Open(id)
    BY <1>1, <1>3, OpenType
  <1>4. CASE \E id \in Pages : \/ \E it \in Items : Write(id, it)
                              \/ \E emptied \in BOOLEAN : AllowFree(id, emptied)
                              \/ ForceFree(id)
    BY <1>1, <1>4, CachedType
  <1>5. CASE \E id \in Pages : EvictClean(id) \/ EvictForced(id) \/ EvictDirty(id)
    BY <1>1, <1>5, EvictType
  <1>6. CASE FlushStep
    BY <1>1, <1>6, WriteType, GrowType, LinkType, FreeType DEF FlushStep
  <1>7. CASE Crash
    BY <1>1, <1>7, CrashType
  <1>8. CASE UNCHANGED vars
    BY <1>1, <1>8 DEF TypeOK, ShapeInv, vars, fileVars, pageVars, writeVars, Writing
  <1>9. QED
    BY <1>1, <1>2, <1>3, <1>4, <1>5, <1>6, <1>7, <1>8 DEF Next

(* Every reachable state is well typed: whatever is allocated, linked,     *)
(* written or freed, the allocator (PageUse), the headers in the file and  *)
(* component_pages only ever name pages of the file.                       *)
THEOREM TypeCorrect == Spec => []TypeOK
  <1>1. Init => TypeOK /\ ShapeInv
    BY InitType
  <1>2. TypeOK /\ ShapeInv /\ [Next]_vars => TypeOK' /\ ShapeInv'
    BY NextType
  <1>3. QED
    BY <1>1, <1>2, PTL DEF Spec

-----------------------------------------------------------------------------
(* What the parts of the invariant say of a chain, in the form the proofs  *)
(* need.                                                                   *)

LEMMA ChainFacts ==
  ASSUME TypeOK
  PROVE  \A id \in Pages :
           /\ chain[id] \in Seq(Pages) /\ Len(chain[id]) \in Nat
           /\ \A k \in 1 .. Len(chain[id]) : chain[id][k] \in Pages
  BY DEF TypeOK

(* alloc_new hands out a page that no chain and no heap has, with an empty *)
(* header, and leaves every other page as it is.                           *)
LEMMA AllocFresh ==
  ASSUME IInv, step \in {"idle", "write"}, NEW p, Alloc(p)
  PROVE  /\ p \in Pages /\ chain[p] = <<>>
         /\ p < lowest' /\ lowest <= lowest' /\ lowest' = LowestOnOpen(fileLowest')
         /\ freed'[p] = 0 /\ next'[p] = 0 /\ prev'[p] = 0
         /\ \A q \in Pages \ {p} :
              freed'[q] = freed[q] /\ next'[q] = next[q] /\ prev'[q] = prev[q]
         /\ \A id \in Pages : \A k \in 1 .. Len(chain[id]) : chain[id][k] # p
  <1>0. TypeOK /\ HeapInv /\ ChainInv
    BY DEF IInv
  <1>1. p \in Pages /\ lowest \in Nat /\ p \in Nat
    BY <1>0, AllocType DEF TypeOK, Pages
  <1>2. /\ p < lowest' /\ lowest <= lowest' /\ lowest' = LowestOnOpen(fileLowest')
        /\ freed'[p] = 0 /\ next'[p] = 0 /\ prev'[p] = 0
        /\ \A q \in Pages \ {p} :
             freed'[q] = freed[q] /\ next'[q] = next[q] /\ prev'[q] = prev[q]
    <2>1. CASE p \in FreePages
      <3>1. freed[p] = 1
        BY <1>0, <1>1, <2>1 DEF FreePages, HeapInv, TypeOK
      <3>2. p < lowest /\ next[p] = 0 /\ prev[p] = 0
        BY <1>0, <1>1, <3>1 DEF HeapInv
      <3>3. freed' = [freed EXCEPT ![p] = freed[p] - 1] /\ UNCHANGED <<lowest, fileLowest, next, prev>>
        BY <2>1 DEF Alloc
      <3>4. QED
        BY <1>0, <1>1, <3>1, <3>2, <3>3 DEF TypeOK, HeapInv
    <2>2. CASE p \notin FreePages
      <3>1. p = lowest /\ freed[p] = 0
        BY <1>0, <1>1, <2>2 DEF Alloc, CanAlloc, FreePages, TypeOK
      <3>2. /\ lowest' = p + 1 /\ fileLowest' = p + 1 /\ freed' = freed
            /\ next' = [next EXCEPT ![p] = 0] /\ prev' = [prev EXCEPT ![p] = 0]
        BY <2>2 DEF Alloc
      <3>3. QED
        BY <1>0, <1>1, <3>1, <3>2 DEF TypeOK, LowestOnOpen
    <2>3. QED
      BY <2>1, <2>2
  <1>3. \A id \in Pages : \A k \in 1 .. Len(chain[id]) : chain[id][k] # p
    <2>1. p \in FreePages => freed[p] # 0
      BY DEF FreePages
    <2>2. p \notin FreePages => p = lowest
      BY DEF Alloc, CanAlloc
    <2>3. \A id \in Pages : \A k \in 1 .. Len(chain[id]) :
             chain[id][k] < lowest /\ freed[chain[id][k]] = 0 /\ chain[id][k] \in Nat
      BY <1>0, ChainFacts DEF ChainInv, Pages
    <2>4. QED
      BY <1>1, <2>1, <2>2, <2>3
  <1>4. chain[p] = <<>>
    <2>1. Len(chain[p]) = 0
      BY <1>0, <1>1, <1>3, ChainFacts DEF ChainInv
    <2>2. QED
      BY <1>0, <1>1, <2>1, ChainFacts
  <1>5. QED
    BY <1>1, <1>2, <1>3, <1>4

(* A saved item stays readable as long as its chain and its blocks do. *)
LEMMA SavedStays ==
  ASSUME TypeOK, SavedInv,
         \A i \in Pages : saved'[i] # Nothing =>
           /\ saved'[i] = saved[i] /\ chain'[i] = chain[i] /\ i \in known'
           /\ \A k \in 1 .. Len(chain[i]) : data'[chain[i][k]] = data[chain[i][k]]
  PROVE  SavedInv'
  <1>1. SUFFICES ASSUME NEW i \in Pages, saved'[i] # Nothing
                 PROVE  /\ i \in known'
                        /\ saved'[i].blocks <= Len(chain'[i])
                        /\ Len(chain'[i]) <= saved'[i].blocks + 1
                        /\ \A k \in 1 .. saved'[i].blocks :
                             data'[chain'[i][k]] = <<saved'[i], k>>
    BY DEF SavedInv
  <1>2. /\ saved'[i] = saved[i] /\ chain'[i] = chain[i] /\ i \in known'
        /\ \A k \in 1 .. Len(chain[i]) : data'[chain[i][k]] = data[chain[i][k]]
    BY <1>1
  <1>3. /\ saved[i].blocks <= Len(chain[i])
        /\ Len(chain[i]) <= saved[i].blocks + 1
        /\ \A k \in 1 .. saved[i].blocks : data[chain[i][k]] = <<saved[i], k>>
    BY <1>1, <1>2 DEF SavedInv
  <1>4. saved[i].blocks \in Nat /\ Len(chain[i]) \in Nat
    BY ItemFacts DEF TypeOK
  <1>5. \A k \in 1 .. saved[i].blocks : k \in 1 .. Len(chain[i])
    BY <1>3, <1>4
  <1>6. \A k \in 1 .. saved[i].blocks : data'[chain[i][k]] = <<saved[i], k>>
    BY <1>2, <1>3, <1>5
  <1>7. QED
    BY <1>2, <1>3, <1>6

(* The heap and the chains are untouched by a step that leaves the         *)
(* allocator, the headers and the chains alone.                            *)
LEMMA FileStays ==
  ASSUME IInv, UNCHANGED <<lowest, freed, fileLowest, next, prev, chain, step, wId, todo>>
  PROVE  HeapInv' /\ ChainInv' /\ NextInv' /\ PrevInv'
  <1>1. HeapInv'
    BY DEF IInv, HeapInv
  <1>2. ChainInv'
    BY DEF IInv, ChainInv
  <1>3. NextInv'
    BY DEF IInv, NextInv
  <1>4. PrevInv'
    BY DEF IInv, PrevInv
  <1>5. QED
    BY <1>1, <1>2, <1>3, <1>4

(* new_page. *)
LEMMA NewPageInv ==
  ASSUME IInv, NEW id \in Pages, NEW it \in Items, NewPage(id, it)
  PROVE  IInv'
  <1>0. TypeOK /\ ShapeInv /\ TypeOK' /\ ShapeInv'
    BY NewPageType DEF IInv
  <1>1. /\ step = "idle" /\ step' = "idle" /\ wId = 0 /\ wId' = 0
        /\ Alloc(id) /\ data' = data
        /\ item' = [item EXCEPT ![id] = it]
        /\ cached' = cached \cup {id} /\ dirty' = dirty \cup {id}
        /\ known' = known \cup {id} /\ allowed' = allowed /\ forced' = forced
        /\ chain' = [chain EXCEPT ![id] = <<id>>]
        /\ saved' = [saved EXCEPT ![id] = Nothing]
    BY <1>0 DEF NewPage, Load, ShapeInv, writeVars
  <1>2. /\ chain[id] = <<>>
        /\ id < lowest' /\ lowest <= lowest' /\ lowest' = LowestOnOpen(fileLowest')
        /\ freed'[id] = 0 /\ next'[id] = 0 /\ prev'[id] = 0
        /\ \A q \in Pages \ {id} :
             freed'[q] = freed[q] /\ next'[q] = next[q] /\ prev'[q] = prev[q]
        /\ \A i \in Pages : \A k \in 1 .. Len(chain[i]) : chain[i][k] # id
    BY <1>1, AllocFresh
  <1>3. /\ chain'[id] = <<id>> /\ Len(chain'[id]) = 1 /\ chain'[id][1] = id
        /\ \A i \in Pages \ {id} : chain'[i] = chain[i] /\ saved'[i] = saved[i]
                                   /\ item'[i] = item[i]
        /\ saved'[id] = Nothing /\ item'[id] = it /\ it # Nothing
    BY <1>0, <1>1, ItemFacts DEF TypeOK
  <1>4. \A i \in Pages : \A k \in 1 .. Len(chain[i]) : chain[i][k] \in Pages \ {id}
    BY <1>0, <1>2, ChainFacts
  <1>5. lowest \in Nat /\ lowest' \in Nat /\ \A p \in Pages : p \in Nat
    BY <1>0 DEF TypeOK, Pages
  <1>6. HeapInv'
    <2>1. \A p \in Pages : freed[p] <= 1 /\ (freed[p] = 1 => p < lowest /\ next[p] = 0 /\ prev[p] = 0)
      BY <1>1 DEF IInv, HeapInv
    <2>2. QED
      BY <1>1, <1>2, <1>5, <2>1 DEF HeapInv
  <1>7. ChainInv'
    <2>1. ChainInv
      BY DEF IInv
    <2>2. \A i \in Pages : \A k \in 1 .. Len(chain'[i]) :
            chain'[i][k] < lowest' /\ freed'[chain'[i][k]] = 0
      <3>1. SUFFICES ASSUME NEW i \in Pages, NEW k \in 1 .. Len(chain'[i])
                     PROVE  chain'[i][k] < lowest' /\ freed'[chain'[i][k]] = 0
        OBVIOUS
      <3>2. CASE i = id
        <4>1. k = 1 /\ chain'[i][k] = id
          BY <1>3, <3>1, <3>2
        <4>2. QED
          BY <1>2, <4>1
      <3>3. CASE i # id
        <4>1. chain'[i] = chain[i] /\ k \in 1 .. Len(chain[i])
          BY <1>3, <3>1, <3>3
        <4>2. /\ chain[i][k] \in Pages \ {id}
              /\ chain[i][k] < lowest /\ freed[chain[i][k]] = 0
          BY <1>4, <2>1, <4>1 DEF ChainInv
        <4>3. freed'[chain[i][k]] = 0 /\ chain[i][k] \in Nat
          BY <1>2, <1>5, <4>2
        <4>4. QED
          BY <1>2, <1>5, <4>1, <4>2, <4>3
      <3>4. QED
        BY <3>2, <3>3
    <2>3. \A i, j \in Pages : \A k \in 1 .. Len(chain'[i]), l \in 1 .. Len(chain'[j]) :
            chain'[i][k] = chain'[j][l] => i = j /\ k = l
      <3>1. SUFFICES ASSUME NEW i \in Pages, NEW j \in Pages,
                            NEW k \in 1 .. Len(chain'[i]), NEW l \in 1 .. Len(chain'[j]),
                            chain'[i][k] = chain'[j][l]
                     PROVE  i = j /\ k = l
        OBVIOUS
      <3>2. CASE i = id /\ j = id
        BY <1>3, <3>1, <3>2
      <3>3. CASE i = id /\ j # id
        BY <1>3, <1>4, <3>1, <3>3
      <3>4. CASE i # id /\ j = id
        BY <1>3, <1>4, <3>1, <3>4
      <3>5. CASE i # id /\ j # id
        BY <1>3, <2>1, <3>1, <3>5 DEF ChainInv
      <3>6. QED
        BY <3>2, <3>3, <3>4, <3>5
    <2>4. QED
      BY <1>3, <2>1, <2>2, <2>3 DEF ChainInv
  <1>8. NextInv'
    <2>1. \A i \in Pages : \A k \in 1 .. Len(chain[i]) :
            \/ k < Len(chain[i]) /\ next[chain[i][k]] = chain[i][k + 1]
            \/ k = Len(chain[i]) /\ next[chain[i][k]] = 0
      BY <1>1 DEF IInv, NextInv
    <2>2. QED
      BY <1>1, <1>2, <1>3, <1>4, <2>1 DEF NextInv
  <1>9. PrevInv'
    <2>1. \A i \in Pages : \A k \in 1 .. Len(chain[i]) :
            \/ k = 1 /\ prev[chain[i][k]] = 0
            \/ k > 1 /\ prev[chain[i][k]] = chain[i][k - 1]
      BY <1>1 DEF IInv, PrevInv
    <2>2. QED
      BY <1>1, <1>2, <1>3, <1>4, <2>1 DEF PrevInv
  <1>10. CacheInv'
    <2>1. CacheInv /\ id \notin cached
      BY <1>0, <1>2 DEF IInv, ShapeInv
    <2>2. QED
      BY <1>1, <1>3, <2>1 DEF CacheInv
  <1>11. SavedInv'
    <2>1. \A i \in Pages : saved'[i] # Nothing => i # id /\ i \in known
      BY <1>3 DEF IInv, SavedInv
    <2>2. QED
      BY <1>0, <1>1, <1>3, <2>1, SavedStays DEF IInv
  <1>12. FlushInv' /\ WriteInv' /\ CutInv'
    BY <1>1 DEF FlushInv, WriteInv, CutInv, Writing, Cutting
  <1>13. QED
    BY <1>0, <1>6, <1>7, <1>8, <1>9, <1>10, <1>11, <1>12 DEF IInv

-----------------------------------------------------------------------------
(* Reading a chain back.                                                   *)

(* A set of naturals that is not empty has a least member.                 *)
LEMMA LeastNat ==
  ASSUME NEW T, T \subseteq Nat, T # {}
  PROVE  \E x \in T : \A y \in T : x <= y
  <1> DEFINE R == OpToRel(<, Nat)
  <1>1. IsWellFoundedOn(R, Nat)
    BY NatLessThanWellFounded
  <1>2. \A x, y \in Nat : <<y, x>> \in R <=> y < x
    BY DEF OpToRel
  <1> HIDE DEF R
  <1>3. PICK x \in T : \A y \in T : ~ (<<y, x>> \in R)
    BY <1>1, WFMin
  <1>4. \A y \in T : ~ (y < x)
    BY <1>2, <1>3
  <1>5. QED
    BY <1>3, <1>4

(* Two lists that follow the same links from the same page agree as far as *)
(* both go.                                                                *)
LEMMA SameLinks ==
  ASSUME NEW s \in Seq(Pages), NEW c \in Seq(Pages), Len(s) > 0, Len(c) > 0,
         s[1] = c[1],
         \A k \in 1 .. Len(s) - 1 : next[s[k]] = s[k + 1],
         \A k \in 1 .. Len(c) - 1 : next[c[k]] = c[k + 1]
  PROVE  \A k \in Nat : k \in 1 .. Len(s) /\ k \in 1 .. Len(c) => s[k] = c[k]
  <1> DEFINE Differ == {k \in Nat : k \in 1 .. Len(s) /\ k \in 1 .. Len(c) /\ s[k] # c[k]}
  <1>1. SUFFICES ASSUME Differ # {} PROVE FALSE
    OBVIOUS
  <1>2. PICK k \in Differ : \A j \in Differ : k <= j
    <2>1. Differ \subseteq Nat
      OBVIOUS
    <2>2. QED
      BY <1>1, <2>1, LeastNat
  <1>3. k \in Nat /\ k # 1 /\ k - 1 \in 1 .. Len(s) - 1 /\ k - 1 \in 1 .. Len(c) - 1
    BY <1>2
  <1>4. s[k - 1] = c[k - 1]
    <2>1. k - 1 \in Nat /\ ~ (k <= k - 1)
      BY <1>3
    <2>2. k - 1 \notin Differ
      BY <1>2, <2>1
    <2>3. QED
      BY <1>3, <2>1, <2>2
  <1>5. s[k] = next[s[k - 1]] /\ c[k] = next[c[k - 1]]
    <2>1. next[s[k - 1]] = s[(k - 1) + 1] /\ next[c[k - 1]] = c[(k - 1) + 1]
      BY <1>3
    <2>2. (k - 1) + 1 = k
      BY <1>3
    <2>3. QED
      BY <2>1, <2>2
  <1>6. QED
    BY <1>2, <1>4, <1>5

(* A page that nobody has in memory and no flush is writing: the file has  *)
(* its item, and a reader of the file finds that item only, in the pages   *)
(* the item had, a spare one included.                                     *)
LEMMA ReaderFindsChain ==
  ASSUME IInv, NEW id \in Pages, saved[id] # Nothing,
         NEW it \in HeadItems(id), NEW s \in ChainsUpTo(it.blocks + 1),
         IsReadChain(s, id, it.blocks), Holds(s, it)
  PROVE  it = saved[id] /\ s = chain[id]
  <1>0. TypeOK /\ ChainInv /\ NextInv /\ SavedInv /\ FlushInv /\ ShapeInv
    BY DEF IInv
  <1> DEFINE c == chain[id]
  <1>1. /\ saved[id] \in Items /\ saved[id].blocks \in Nat \ {0}
        /\ saved[id].blocks <= Len(c) /\ Len(c) <= saved[id].blocks + 1
        /\ \A k \in 1 .. saved[id].blocks : data[c[k]] = <<saved[id], k>>
    BY <1>0, ConstantsOK DEF SavedInv, TypeOK, AnyItem
  <1>2. c \in Seq(Pages) /\ Len(c) \in Nat /\ Len(c) > 0 /\ c[1] = id
        /\ \A k \in 1 .. Len(c) : c[k] \in Pages
    BY <1>0, <1>1, ChainFacts DEF ChainInv
  <1>3. it = saved[id]
    <2>1. data[id] = <<saved[id], 1>>
      <3>1. 1 \in 1 .. saved[id].blocks
        BY <1>1
      <3>2. data[c[1]] = <<saved[id], 1>>
        BY <1>1, <3>1
      <3>3. QED
        BY <1>2, <3>2
    <2>2. data[id] = <<it, 1>>
      BY DEF HeadItems
    <2>3. QED
      BY <2>1, <2>2
  <1>4. /\ s \in Seq(Pages) /\ Len(s) > 0 /\ Len(s) <= it.blocks + 1 /\ Len(s) \in Nat
        /\ \A k \in 1 .. Len(s) : s[k] \in Pages
    <2>1. it.blocks + 1 \in Nat
      BY <1>1, <1>3
    <2>2. QED
      BY <2>1 DEF ChainsUpTo
  <1>5. /\ \A k \in 1 .. Len(c) - 1 : next[c[k]] = c[k + 1]
        /\ next[c[Len(c)]] = 0
    <2>1. \A k \in 1 .. Len(c) : \/ k < Len(c) /\ next[c[k]] = c[k + 1]
                                 \/ k = Len(c) /\ next[c[k]] = 0
      <3>1. step # "idle" => wId # id
        BY <1>0 DEF FlushInv
      <3>2. QED
        BY <1>0, <3>1 DEF NextInv
    <2>2. ASSUME NEW k \in 1 .. Len(c) - 1
          PROVE  next[c[k]] = c[k + 1]
      <3>1. k \in 1 .. Len(c) /\ k # Len(c)
        BY <1>2, <2>2
      <3>2. QED
        BY <2>1, <3>1
    <2>3. next[c[Len(c)]] = 0
      <3>1. Len(c) \in 1 .. Len(c) /\ ~(Len(c) < Len(c))
        BY <1>2
      <3>2. QED
        BY <2>1, <3>1
    <2>4. QED
      BY <2>2, <2>3
  <1>6. /\ s[1] = id /\ \A k \in 1 .. Len(s) - 1 : next[s[k]] = s[k + 1]
        /\ Len(s) = it.blocks + 1 \/ next[s[Len(s)]] = 0
        /\ Len(s) >= it.blocks
    BY DEF IsReadChain, Holds, Last
  <1> HIDE DEF c
  <1>7. \A k \in Nat : k \in 1 .. Len(s) /\ k \in 1 .. Len(c) => s[k] = c[k]
    BY <1>2, <1>4, <1>5, <1>6, SameLinks
  <1>8. Len(s) = Len(c)
    <2>1. CASE Len(s) > Len(c)
      <3>1. s[Len(c)] = c[Len(c)] /\ next[s[Len(c)]] = s[Len(c) + 1] /\ s[Len(c) + 1] \in Pages
        BY <1>2, <1>4, <1>6, <1>7, <2>1
      <3>2. QED
        BY <1>5, <3>1, PageFacts
    <2>2. CASE Len(s) < Len(c)
      <3>1. Len(s) = it.blocks /\ next[s[Len(s)]] = 0 /\ Len(s) # it.blocks + 1
        BY <1>1, <1>2, <1>3, <1>4, <1>6, <2>2
      <3>2. s[Len(s)] = c[Len(s)] /\ next[c[Len(s)]] = c[Len(s) + 1] /\ c[Len(s) + 1] \in Pages
        BY <1>2, <1>4, <1>5, <1>7, <2>2
      <3>3. QED
        BY <3>1, <3>2, PageFacts
    <2>3. QED
      BY <1>2, <1>4, <2>1, <2>2
  <1>9. s = c
    BY <1>2, <1>4, <1>7, <1>8, SeqEqual
  <1>10. QED
    BY <1>3, <1>9 DEF c

(* get of a page that is not in memory.  The chain it reads is the one the *)
(* page had when it was dropped.                                           *)
LEMMA OpenInv ==
  ASSUME IInv, NEW id \in Pages, Open(id)
  PROVE  IInv' /\ chain' = chain
  <1>0. TypeOK /\ ShapeInv /\ TypeOK' /\ ShapeInv'
    BY OpenType DEF IInv
  <1>1. /\ step = "idle" /\ step' = "idle" /\ wId = 0 /\ wId' = 0
        /\ id \in known /\ id \notin cached
        /\ lowest' = lowest /\ freed' = freed /\ fileLowest' = fileLowest
        /\ next' = next /\ prev' = prev /\ data' = data /\ known' = known
        /\ dirty' = dirty /\ allowed' = allowed /\ forced' = forced
        /\ saved' = saved
    BY <1>0 DEF Open, ShapeInv, writeVars, fileVars
  <1>2. saved[id] # Nothing /\ id \notin allowed /\ id \notin forced
    BY <1>1, PageFacts DEF IInv, CacheInv
  <1>3. PICK it \in HeadItems(id) : \E s \in ChainsUpTo(it.blocks + 1) :
          /\ IsReadChain(s, id, it.blocks) /\ Holds(s, it)
          /\ Load(id, it) /\ chain' = [chain EXCEPT ![id] = s]
    BY DEF Open
  <1>4. PICK s \in ChainsUpTo(it.blocks + 1) :
          /\ IsReadChain(s, id, it.blocks) /\ Holds(s, it)
          /\ Load(id, it) /\ chain' = [chain EXCEPT ![id] = s]
    BY <1>3
  <1>5. it = saved[id] /\ s = chain[id] /\ it \in Items
    BY <1>2, <1>4, ReaderFindsChain DEF HeadItems
  <1>6. chain' = chain
    BY <1>0, <1>4, <1>5 DEF TypeOK
  <1>7. cached' = cached \cup {id} /\ item' = [item EXCEPT ![id] = it]
    BY <1>4 DEF Load
  <1>8. HeapInv' /\ ChainInv' /\ NextInv' /\ PrevInv' /\ SavedInv'
    BY <1>1, <1>6 DEF IInv, HeapInv, ChainInv, NextInv, PrevInv, SavedInv
  <1>9. CacheInv'
    <2>1. /\ item'[id] = it
          /\ \A i \in Pages \ {id} : item'[i] = item[i]
      BY <1>0, <1>7 DEF TypeOK
    <2>2. QED
      BY <1>1, <1>2, <1>5, <1>6, <1>7, <2>1 DEF IInv, CacheInv
  <1>10. FlushInv' /\ WriteInv' /\ CutInv'
    BY <1>1 DEF FlushInv, WriteInv, CutInv, Writing, Cutting
  <1>11. QED
    BY <1>0, <1>6, <1>8, <1>9, <1>10 DEF IInv

(* What the holder of a guard does to a page in memory. *)
LEMMA CachedInv ==
  ASSUME IInv, NEW id \in Pages,
         \/ \E it \in Items : Write(id, it)
         \/ \E emptied \in BOOLEAN : AllowFree(id, emptied)
         \/ ForceFree(id)
  PROVE  IInv'
  <1>0. TypeOK /\ ShapeInv /\ TypeOK' /\ ShapeInv'
    BY CachedType DEF IInv
  <1>1. /\ lowest' = lowest /\ freed' = freed /\ fileLowest' = fileLowest
        /\ next' = next /\ prev' = prev /\ data' = data
        /\ chain' = chain /\ step' = step /\ wId' = wId /\ wItem' = wItem
        /\ wBlock' = wBlock /\ wAllowed' = wAllowed /\ todo' = todo
        /\ cached' = cached /\ id \in cached
    BY DEF Write, AllowFree, ForceFree, fileVars, writeVars
  <1>2. HeapInv' /\ ChainInv' /\ NextInv' /\ PrevInv'
    BY <1>1, FileStays
  <1>2b. WriteInv'
    BY <1>1 DEF IInv, WriteInv, Writing
  <1>3. CASE \E it \in Items : Write(id, it)
    <2>1. PICK it \in Items : Write(id, it)
      BY <1>3
    <2>2. /\ known' = known /\ saved' = saved /\ forced' = forced
          /\ dirty' = dirty \cup {id} /\ allowed' = allowed \ {id}
          /\ item'[id] = it /\ \A i \in Pages \ {id} : item'[i] = item[i]
      BY <1>0, <2>1 DEF Write, TypeOK
    <2>3. CacheInv'
      BY <1>1, <2>2 DEF IInv, CacheInv
    <2>4. SavedInv'
      BY <1>1, <2>2 DEF IInv, SavedInv
    <2>5. FlushInv'
      BY <1>1, <2>2 DEF IInv, FlushInv
    <2>6. CutInv'
      BY <1>1, <2>2 DEF IInv, CutInv, Cutting
    <2>7. QED
      BY <1>0, <1>2, <1>2b, <2>3, <2>4, <2>5, <2>6 DEF IInv
  <1>4. CASE (\E emptied \in BOOLEAN : AllowFree(id, emptied)) \/ ForceFree(id)
    <2>1. /\ known' = known \ {id} /\ id \in known
          /\ saved' = [saved EXCEPT ![id] = Nothing]
          /\ allowed' \in {allowed, allowed \cup {id}}
          /\ forced' \in {forced, forced \cup {id}}
          /\ dirty' \in {dirty, dirty \cup {id}}
          /\ item' \in {item, [item EXCEPT ![id] = Nothing]}
      BY <1>4 DEF AllowFree, ForceFree
    <2>2. /\ saved'[id] = Nothing /\ \A i \in Pages \ {id} : saved'[i] = saved[i]
          /\ \A i \in Pages \ {id} : item'[i] = item[i]
      BY <1>0, <2>1 DEF TypeOK
    <2>3. CacheInv'
      BY <1>1, <2>1, <2>2 DEF IInv, CacheInv
    <2>4. SavedInv'
      <3>1. \A i \in Pages : saved'[i] # Nothing =>
                i \in known' /\ saved'[i] = saved[i]
        BY <2>1, <2>2 DEF IInv, SavedInv
      <3>2. QED
        BY <1>0, <1>1, <3>1, SavedStays DEF IInv
    <2>5. FlushInv'
      <3>1. wId \in Pages => saved'[wId] = saved[wId] \/ saved'[wId] = Nothing
        BY <2>2
      <3>2. QED
        BY <1>0, <1>1, <2>1, <3>1 DEF IInv, FlushInv, ShapeInv
    <2>6. CutInv'
      <3>1. wId \in known' => wId \in known
        BY <2>1
      <3>2. QED
        BY <1>1, <3>1 DEF IInv, CutInv, Cutting
    <2>7. QED
      BY <1>0, <1>2, <1>2b, <2>3, <2>4, <2>5, <2>6 DEF IInv
  <1>5. QED
    BY <1>3, <1>4

-----------------------------------------------------------------------------
(* The three ways a page leaves the cache. *)

LEMMA EvictCleanInv ==
  ASSUME IInv, NEW id \in Pages, EvictClean(id)
  PROVE  IInv'
  <1>0. TypeOK /\ ShapeInv /\ TypeOK' /\ ShapeInv'
    BY EvictType DEF IInv
  <1>1. /\ step = "idle" /\ step' = "idle" /\ wId = 0 /\ wId' = 0
        /\ lowest' = lowest /\ freed' = freed /\ fileLowest' = fileLowest
        /\ next' = next /\ prev' = prev /\ data' = data
        /\ known' = known /\ saved' = saved /\ chain' = chain
        /\ id \in cached /\ id \notin dirty
        /\ cached' = cached \ {id} /\ dirty' = dirty \ {id}
        /\ allowed' = allowed \ {id} /\ forced' = forced \ {id}
    BY <1>0 DEF EvictClean, Unload, ShapeInv, fileVars, writeVars
  <1>2. \A i \in Pages \ {id} : item'[i] = item[i]
    BY <1>0 DEF EvictClean, Unload, TypeOK
  <1>3. HeapInv' /\ ChainInv' /\ NextInv' /\ PrevInv' /\ SavedInv'
    BY <1>1 DEF IInv, HeapInv, ChainInv, NextInv, PrevInv, SavedInv
  <1>4. CacheInv'
    BY <1>1, <1>2, PageFacts DEF IInv, CacheInv
  <1>5. FlushInv' /\ WriteInv' /\ CutInv'
    BY <1>1 DEF FlushInv, WriteInv, CutInv, Writing, Cutting
  <1>6. QED
    BY <1>0, <1>3, <1>4, <1>5 DEF IInv

LEMMA EvictForcedInv ==
  ASSUME IInv, NEW id \in Pages, EvictForced(id)
  PROVE  IInv'
  <1>0. TypeOK /\ ShapeInv /\ TypeOK' /\ ShapeInv'
    BY EvictType DEF IInv
  <1>1. /\ step = "idle" /\ step' = "free" /\ wId = 0 /\ wId' = id
        /\ todo' = chain[id]
        /\ lowest' = lowest /\ freed' = freed /\ fileLowest' = fileLowest
        /\ next' = next /\ prev' = prev /\ data' = data
        /\ known' = known /\ saved' = saved
        /\ id \in cached /\ id \in forced
        /\ cached' = cached \ {id} /\ dirty' = dirty \ {id}
        /\ allowed' = allowed \ {id} /\ forced' = forced \ {id}
    BY <1>0 DEF EvictForced, Unload, ShapeInv, fileVars
  <1>2. /\ \A i \in Pages \ {id} : item'[i] = item[i] /\ chain'[i] = chain[i]
        /\ chain'[id] = <<>> /\ Len(chain'[id]) = 0
    BY <1>0 DEF EvictForced, Unload, TypeOK
  <1>3. id \notin known /\ saved[id] = Nothing
    BY <1>1 DEF IInv, CacheInv, SavedInv
  <1>4. HeapInv'
    BY <1>1 DEF IInv, HeapInv
  <1>5. ChainInv'
    <2>1. ChainInv
      BY DEF IInv
    <2>2. \A i \in Pages : \A k \in 1 .. Len(chain'[i]) : i # id
      BY <1>2
    <2>3. QED
      BY <1>1, <1>2, <2>1, <2>2 DEF ChainInv
  <1>6. NextInv' /\ PrevInv'
    <2>1. /\ \A i \in Pages : \A k \in 1 .. Len(chain[i]) :
               \/ k < Len(chain[i]) /\ next[chain[i][k]] = chain[i][k + 1]
               \/ k = Len(chain[i]) /\ next[chain[i][k]] = 0
          /\ \A i \in Pages : \A k \in 1 .. Len(chain[i]) :
               \/ k = 1 /\ prev[chain[i][k]] = 0
               \/ k > 1 /\ prev[chain[i][k]] = chain[i][k - 1]
      BY <1>1 DEF IInv, NextInv, PrevInv
    <2>2. QED
      BY <1>1, <1>2, <2>1 DEF NextInv, PrevInv
  <1>7. CacheInv'
    BY <1>1, <1>2, <1>3, PageFacts DEF IInv, CacheInv
  <1>8. SavedInv'
    <2>1. \A i \in Pages : saved[i] # Nothing => i # id /\ i \in known
      BY <1>3 DEF IInv, SavedInv
    <2>2. QED
      BY <1>0, <1>1, <1>2, <2>1, SavedStays DEF IInv
  <1>9. FlushInv' /\ WriteInv'
    BY <1>1, <1>3 DEF FlushInv, WriteInv, Writing
  <1>10. CutInv'
    <2>0. chain[id] \in Seq(Pages) /\ Len(chain[id]) \in Nat
          /\ \A k \in 1 .. Len(chain[id]) : chain[id][k] \in Pages
      BY <1>0, ChainFacts
    <2>1. \A k \in 1 .. Len(todo') :
            /\ todo'[k] < lowest' /\ freed'[todo'[k]] = 0
            /\ \A i \in Pages : \A l \in 1 .. Len(chain'[i]) : chain'[i][l] # todo'[k]
      <3>1. ChainInv
        BY DEF IInv
      <3>2. \A i \in Pages : \A l \in 1 .. Len(chain'[i]) : i # id /\ chain'[i] = chain[i]
        BY <1>2
      <3>3. QED
        BY <1>1, <3>1, <3>2 DEF ChainInv
    <2>2. \A j, k \in 1 .. Len(todo') : todo'[j] = todo'[k] => j = k
      BY <1>1 DEF IInv, ChainInv
    <2>3. \A k \in 1 .. Len(todo') : \/ k = 1 /\ prev'[todo'[k]] = 0
                                     \/ k > 1 /\ prev'[todo'[k]] = todo'[k - 1]
      BY <1>1 DEF IInv, PrevInv
    <2>4. \A k \in 2 .. Len(todo') : prev'[todo'[k]] = todo'[k - 1]
      BY <1>1, <2>0, <2>3
    <2>5. Len(todo') > 0 => prev'[todo'[1]] = 0
      BY <1>1, <2>0, <2>3
    <2>6. \A i \in Pages : \A l \in 1 .. Len(chain'[i]) : chain'[i][l] # 0
      <3>1. \A i \in Pages : chain'[i] \in Seq(Pages)
        BY <1>0 DEF TypeOK
      <3>2. \A i \in Pages : \A l \in 1 .. Len(chain'[i]) : chain'[i][l] \in Pages
        BY <3>1
      <3>3. QED
        BY <3>2, PageFacts
    <2>7. QED
      BY <1>1, <1>3, <2>1, <2>2, <2>4, <2>5, <2>6 DEF CutInv
  <1>11. QED
    BY <1>0, <1>4, <1>5, <1>6, <1>7, <1>8, <1>9, <1>10 DEF IInv

LEMMA EvictDirtyInv ==
  ASSUME IInv, NEW id \in Pages, EvictDirty(id)
  PROVE  IInv'
  <1>0. TypeOK /\ ShapeInv /\ TypeOK' /\ ShapeInv'
    BY EvictType DEF IInv
  <1>1. /\ step = "idle" /\ step' = "write" /\ wId = 0 /\ wId' = id
        /\ todo' = chain[id] /\ wItem' = item[id] /\ wBlock' = 0
        /\ wAllowed' = (id \in allowed)
        /\ lowest' = lowest /\ freed' = freed /\ fileLowest' = fileLowest
        /\ next' = next /\ prev' = prev /\ data' = data
        /\ known' = known /\ chain' = chain
        /\ id \in cached
        /\ cached' = cached \ {id} /\ dirty' = dirty \ {id}
        /\ allowed' = allowed \ {id} /\ forced' = forced \ {id}
    BY <1>0 DEF EvictDirty, Unload, ShapeInv, fileVars
  <1>2. /\ \A i \in Pages \ {id} : item'[i] = item[i] /\ saved'[i] = saved[i]
        /\ saved'[id] = Nothing
    BY <1>0 DEF EvictDirty, Unload, TypeOK
  <1>3. HeapInv'
    BY <1>1 DEF IInv, HeapInv
  <1>3b. ChainInv'
    BY <1>1 DEF IInv, ChainInv
  <1>4. NextInv' /\ PrevInv'
    BY <1>1 DEF IInv, NextInv, PrevInv
  <1>5. CacheInv'
    BY <1>1, <1>2, PageFacts DEF IInv, CacheInv
  <1>6. SavedInv'
    <2>1. \A i \in Pages : saved'[i] # Nothing => saved'[i] = saved[i] /\ i \in known
      BY <1>2 DEF IInv, SavedInv
    <2>2. QED
      BY <1>0, <1>1, <2>1, SavedStays DEF IInv
  <1>7. FlushInv'
    BY <1>1, <1>2 DEF IInv, CacheInv, FlushInv
  <1>8. WriteInv'
    <2>1. wItem'.blocks \in Nat /\ chain[id] \in Seq(Pages) /\ Len(chain[id]) \in Nat
      BY <1>0, <1>1, ItemFacts, ChainFacts DEF TypeOK
    <2>2. QED
      BY <1>1, <2>1 DEF WriteInv, Writing
  <1>9. CutInv'
    BY <1>1 DEF CutInv, Cutting
  <1>10. QED
    BY <1>0, <1>3, <1>3b, <1>4, <1>5, <1>6, <1>7, <1>8, <1>9 DEF IInv

-----------------------------------------------------------------------------
(* The steps of a flush. *)

(* A block is written.  The page belongs to the item that is written, so   *)
(* no saved item loses a block.                                            *)
LEMMA WriteBlockInv ==
  ASSUME IInv, WriteBlock
  PROVE  IInv'
  <1>0. TypeOK /\ ShapeInv /\ TypeOK' /\ ShapeInv'
    BY WriteType DEF IInv
  <1>1. /\ step = "write" /\ step' = "write" /\ wBlock < wItem.blocks
        /\ todo # <<>> /\ todo' = Tail(todo)
        /\ data' = [data EXCEPT ![Head(todo)] = <<wItem, wBlock + 1>>]
        /\ wBlock' = wBlock + 1 /\ wId' = wId /\ wItem' = wItem /\ wAllowed' = wAllowed
        /\ lowest' = lowest /\ freed' = freed /\ fileLowest' = fileLowest
        /\ next' = next /\ prev' = prev /\ chain' = chain
        /\ cached' = cached /\ dirty' = dirty /\ allowed' = allowed
        /\ forced' = forced /\ item' = item
        /\ known' = known /\ saved' = saved
    BY DEF WriteBlock, BlocksLeft, pageVars
  <1>2. /\ wId \in Pages /\ chain[wId] \in Seq(Pages) /\ Len(chain[wId]) \in Nat
        /\ wBlock \in Nat /\ wItem.blocks \in Nat
        /\ todo \in Seq(Pages) /\ Len(todo) \in Nat /\ Len(todo) > 0
        /\ Len(Tail(todo)) = Len(todo) - 1
        /\ \A k \in 1 .. Len(todo) - 1 : Tail(todo)[k] = todo[k + 1]
        /\ Head(todo) = todo[1]
    <2>1. /\ wId \in Pages /\ chain[wId] \in Seq(Pages) /\ Len(chain[wId]) \in Nat
          /\ wBlock \in Nat /\ wItem.blocks \in Nat /\ todo \in Seq(Pages)
      BY <1>0, <1>1, ItemFacts, ChainFacts DEF TypeOK, ShapeInv
    <2>2. /\ Len(todo) \in Nat /\ Len(todo) > 0 /\ Head(todo) = todo[1]
          /\ Len(Tail(todo)) = Len(todo) - 1
      BY <1>1, <2>1
    <2>3. \A k \in 1 .. Len(todo) - 1 : Tail(todo)[k] = todo[k + 1]
      BY <1>1, <2>1, <2>2, HeadTailProperties
    <2>4. QED
      BY <2>1, <2>2, <2>3
  <1>3. /\ wBlock + Len(todo) = Len(chain[wId])
        /\ \A k \in 1 .. Len(todo) : todo[k] = chain[wId][wBlock + k]
        /\ \A k \in 1 .. wBlock : data[chain[wId][k]] = <<wItem, k>>
    BY <1>1 DEF IInv, WriteInv, Writing
  <1>4. wBlock + 1 \in 1 .. Len(chain[wId]) /\ Head(todo) = chain[wId][wBlock + 1]
    <2>1. wBlock \in Nat /\ Len(todo) \in Nat /\ Len(todo) > 0 /\ 1 \in 1 .. Len(todo)
      BY <1>2
    <2>2. wBlock + 1 \in 1 .. Len(chain[wId])
      BY <1>3, <2>1
    <2>3. todo[1] = chain[wId][wBlock + 1]
      BY <1>3, <2>1
    <2>4. QED
      BY <1>2, <2>2, <2>3
  <1>5. HeapInv'
    BY <1>1 DEF IInv, HeapInv
  <1>6. ChainInv'
    BY <1>1 DEF IInv, ChainInv
  <1>7. NextInv' /\ PrevInv'
    BY <1>1 DEF IInv, NextInv, PrevInv
  <1>8. CacheInv'
    BY <1>1 DEF IInv, CacheInv
  <1>9. FlushInv'
    BY <1>1 DEF IInv, FlushInv
  <1>10. SavedInv'
    <2>1. \A i \in Pages : saved[i] # Nothing => i # wId /\ i \in known
      BY <1>1 DEF IInv, FlushInv, SavedInv
    <2>2. \A i \in Pages : i # wId =>
            \A k \in 1 .. Len(chain[i]) : chain[i][k] # Head(todo)
      BY <1>2, <1>4 DEF IInv, ChainInv
    <2>3. \A i \in Pages : i # wId =>
            \A k \in 1 .. Len(chain[i]) : data'[chain[i][k]] = data[chain[i][k]]
      <3>1. /\ Head(todo) \in Pages
            /\ \A i \in Pages : \A k \in 1 .. Len(chain[i]) : chain[i][k] \in Pages
        BY <1>0, <1>2, ChainFacts
      <3>2. QED
        BY <1>0, <1>1, <2>2, <3>1 DEF TypeOK
    <2>4. QED
      BY <1>0, <1>1, <2>1, <2>3, SavedStays DEF IInv
  <1>11. WriteInv'
    <2>1. /\ wBlock' + Len(todo') = Len(chain'[wId'])
          /\ wBlock' <= wItem'.blocks
      <3>1. (wBlock + 1) + (Len(todo) - 1) = Len(chain[wId])
        BY <1>2, <1>3
      <3>2. wBlock + 1 <= wItem.blocks
        BY <1>1, <1>2
      <3>3. QED
        BY <1>1, <1>2, <3>1, <3>2
    <2>2. \A k \in 1 .. Len(todo') : todo'[k] = chain'[wId'][wBlock' + k]
      <3>1. SUFFICES ASSUME NEW k \in 1 .. Len(todo) - 1
                     PROVE  todo[k + 1] = chain[wId][wBlock + 1 + k]
        BY <1>1, <1>2
      <3>2. k + 1 \in 1 .. Len(todo) /\ wBlock + (k + 1) = wBlock + 1 + k
        BY <1>2
      <3>3. QED
        BY <1>3, <3>2
    <2>3. \A k \in 1 .. wBlock' : data'[chain'[wId'][k]] = <<wItem', k>>
      <3>1. SUFFICES ASSUME NEW k \in 1 .. wBlock + 1
                     PROVE  data'[chain[wId][k]] = <<wItem, k>>
        BY <1>1
      <3>2. CASE k = wBlock + 1
        <4>1. Head(todo) \in Pages
          BY <1>2
        <4>2. QED
          BY <1>0, <1>1, <1>4, <3>2, <4>1 DEF TypeOK
      <3>3. CASE k # wBlock + 1
        <4>1. k \in 1 .. wBlock /\ k \in 1 .. Len(chain[wId])
          BY <1>2, <1>3, <3>3
        <4>2. chain[wId][k] # chain[wId][wBlock + 1]
          BY <1>2, <1>4, <3>3, <4>1 DEF IInv, ChainInv
        <4>3. chain[wId][k] \in Pages
          BY <1>2, <4>1
        <4>4. data'[chain[wId][k]] = data[chain[wId][k]]
          BY <1>0, <1>1, <1>4, <4>2, <4>3 DEF TypeOK
        <4>5. QED
          BY <1>3, <4>1, <4>4
      <3>4. QED
        BY <3>2, <3>3
    <2>4. QED
      BY <1>1, <2>1, <2>2, <2>3 DEF WriteInv, Writing
  <1>12. CutInv'
    BY <1>1 DEF CutInv, Cutting
  <1>13. QED
    BY <1>0, <1>5, <1>6, <1>7, <1>8, <1>9, <1>10, <1>11, <1>12 DEF IInv

(* The chain grows by a page, whose links are still to be made. *)
LEMMA GrowInv ==
  ASSUME IInv, NEW p \in Pages, GrowChain(p)
  PROVE  IInv'
  <1>0. TypeOK /\ ShapeInv /\ TypeOK' /\ ShapeInv'
    BY GrowType DEF IInv
  <1>1. /\ step = "write" /\ step' = "linkNext" /\ wBlock < wItem.blocks
        /\ todo = <<>> /\ todo' = <<p>>
        /\ Alloc(p)
        /\ chain' = [chain EXCEPT ![wId] = Append(chain[wId], p)]
        /\ wBlock' = wBlock /\ wId' = wId /\ wItem' = wItem /\ wAllowed' = wAllowed
        /\ data' = data
        /\ cached' = cached /\ dirty' = dirty /\ allowed' = allowed
        /\ forced' = forced /\ item' = item
        /\ known' = known /\ saved' = saved
    BY DEF GrowChain, BlocksLeft, pageVars, writeVars
  <1>2. /\ wId \in Pages /\ chain[wId] \in Seq(Pages) /\ Len(chain[wId]) \in Nat
        /\ Len(chain[wId]) > 0
        /\ wBlock \in Nat /\ wItem.blocks \in Nat
    BY <1>0, <1>1, ItemFacts, ChainFacts DEF TypeOK, ShapeInv, Writing
  <1> DEFINE n == Len(chain[wId])
  <1>3. /\ Len(chain'[wId]) = n + 1 /\ chain'[wId][n + 1] = p
        /\ \A k \in 1 .. n : chain'[wId][k] = chain[wId][k]
        /\ \A i \in Pages \ {wId} : chain'[i] = chain[i]
    BY <1>0, <1>1, <1>2 DEF TypeOK
  <1>4. /\ wBlock = n
        /\ \A k \in 1 .. n : data[chain[wId][k]] = <<wItem, k>>
    BY <1>1, <1>2 DEF IInv, WriteInv, Writing
  <1>5. /\ p < lowest' /\ lowest <= lowest' /\ lowest' = LowestOnOpen(fileLowest')
        /\ freed'[p] = 0 /\ next'[p] = 0 /\ prev'[p] = 0
        /\ \A q \in Pages \ {p} :
             freed'[q] = freed[q] /\ next'[q] = next[q] /\ prev'[q] = prev[q]
        /\ \A i \in Pages : \A k \in 1 .. Len(chain[i]) : chain[i][k] # p
    BY <1>1, AllocFresh
  <1>6. \A i \in Pages : \A k \in 1 .. Len(chain[i]) : chain[i][k] \in Pages \ {p}
    BY <1>0, <1>5, ChainFacts
  <1>7. lowest \in Nat /\ lowest' \in Nat /\ \A q \in Pages : q \in Nat
    BY <1>0 DEF TypeOK, Pages
  (* A place of the new chain is one of the old, or the new page. *)
  <1>8. \A i \in Pages : \A k \in 1 .. Len(chain'[i]) :
          \/ k \in 1 .. Len(chain[i]) /\ chain'[i][k] = chain[i][k]
          \/ i = wId /\ k = n + 1 /\ chain'[i][k] = p
    BY <1>2, <1>3
  <1> HIDE DEF n
  <1>9. HeapInv'
    <2>1. \A q \in Pages : freed[q] <= 1 /\ (freed[q] = 1 => q < lowest /\ next[q] = 0 /\ prev[q] = 0)
      BY <1>1 DEF IInv, HeapInv
    <2>2. QED
      BY <1>1, <1>5, <1>7, <2>1 DEF HeapInv
  <1>10. ChainInv'
    <2>1. ChainInv
      BY DEF IInv
    <2>2. \A i \in Pages : \A k \in 1 .. Len(chain'[i]) :
            chain'[i][k] < lowest' /\ freed'[chain'[i][k]] = 0
      <3>1. SUFFICES ASSUME NEW i \in Pages, NEW k \in 1 .. Len(chain'[i])
                     PROVE  chain'[i][k] < lowest' /\ freed'[chain'[i][k]] = 0
        OBVIOUS
      <3>2. CASE chain'[i][k] = p
        BY <1>5, <3>2
      <3>3. CASE k \in 1 .. Len(chain[i]) /\ chain'[i][k] = chain[i][k]
        BY <1>5, <1>6, <1>7, <2>1, <3>3 DEF ChainInv
      <3>4. QED
        BY <1>8, <3>1, <3>2, <3>3
    <2>3. \A i, j \in Pages : \A k \in 1 .. Len(chain'[i]), l \in 1 .. Len(chain'[j]) :
            chain'[i][k] = chain'[j][l] => i = j /\ k = l
      <3>1. SUFFICES ASSUME NEW i \in Pages, NEW j \in Pages,
                            NEW k \in 1 .. Len(chain'[i]), NEW l \in 1 .. Len(chain'[j]),
                            chain'[i][k] = chain'[j][l]
                     PROVE  i = j /\ k = l
        OBVIOUS
      <3>2. \/ k \in 1 .. Len(chain[i]) /\ chain'[i][k] = chain[i][k]
            \/ i = wId /\ k = n + 1 /\ chain'[i][k] = p
        BY <1>8, <3>1
      <3>3. \/ l \in 1 .. Len(chain[j]) /\ chain'[j][l] = chain[j][l]
            \/ j = wId /\ l = n + 1 /\ chain'[j][l] = p
        BY <1>8, <3>1
      <3>4. QED
        BY <1>5, <2>1, <3>1, <3>2, <3>3 DEF ChainInv
    <2>4. \A i \in Pages : Len(chain'[i]) > 0 => chain'[i][1] = i
      BY <1>2, <1>3, <2>1 DEF ChainInv, n
    <2>5. QED
      BY <2>2, <2>3, <2>4 DEF ChainInv
  <1>11. NextInv'
    <2>1. \A i \in Pages : \A k \in 1 .. Len(chain[i]) :
            \/ k < Len(chain[i]) /\ next[chain[i][k]] = chain[i][k + 1]
            \/ k = Len(chain[i]) /\ next[chain[i][k]] = 0
      BY <1>1 DEF IInv, NextInv
    <2>2. SUFFICES ASSUME NEW i \in Pages, NEW k \in 1 .. Len(chain'[i])
                   PROVE  \/ k < Len(chain'[i]) /\ next'[chain'[i][k]] = chain'[i][k + 1]
                          \/ k = Len(chain'[i]) /\ next'[chain'[i][k]] = 0
                          \/ i = wId /\ k = Len(chain'[i]) - 1
      BY <1>1 DEF NextInv
    <2>3. CASE i # wId
      BY <1>3, <1>5, <1>6, <2>1, <2>2, <2>3
    <2>4. CASE i = wId
      <3>1. CASE k = n + 1
        BY <1>3, <1>5, <2>4, <3>1
      <3>2. CASE k = n
        BY <1>2, <1>3, <2>4, <3>2 DEF n
      <3>3. CASE k \in 1 .. n - 1
        <4>1. /\ k \in 1 .. n /\ k + 1 \in 1 .. n /\ k < n + 1
              /\ next[chain[wId][k]] = chain[wId][k + 1]
          BY <1>2, <2>1, <3>3 DEF n
        <4>2. chain[wId][k] \in Pages \ {p}
          BY <1>2, <1>6, <4>1 DEF n
        <4>3. QED
          BY <1>3, <1>5, <2>4, <4>1, <4>2
      <3>4. QED
        BY <1>2, <1>3, <2>2, <2>4, <3>1, <3>2, <3>3 DEF n
    <2>5. QED
      BY <2>3, <2>4
  <1>12. PrevInv'
    <2>1. \A i \in Pages : \A k \in 1 .. Len(chain[i]) :
            \/ k = 1 /\ prev[chain[i][k]] = 0
            \/ k > 1 /\ prev[chain[i][k]] = chain[i][k - 1]
      BY <1>1 DEF IInv, PrevInv
    <2>2. SUFFICES ASSUME NEW i \in Pages, NEW k \in 1 .. Len(chain'[i])
                   PROVE  \/ k = 1 /\ prev'[chain'[i][k]] = 0
                          \/ k > 1 /\ prev'[chain'[i][k]] = chain'[i][k - 1]
                          \/ i = wId /\ k = Len(chain'[i]) /\ k > 1
      BY <1>1 DEF PrevInv
    <2>3. CASE i # wId
      BY <1>3, <1>5, <1>6, <2>1, <2>2, <2>3
    <2>4. CASE i = wId
      <3>1. CASE k = n + 1
        BY <1>2, <1>3, <2>4, <3>1 DEF n
      <3>2. CASE k \in 1 .. n
        <4>1. \/ k = 1 /\ prev[chain[wId][k]] = 0
              \/ k > 1 /\ k - 1 \in 1 .. n /\ prev[chain[wId][k]] = chain[wId][k - 1]
          BY <1>2, <2>1, <3>2 DEF n
        <4>2. chain[wId][k] \in Pages \ {p}
          BY <1>2, <1>6, <3>2 DEF n
        <4>3. QED
          BY <1>3, <1>5, <2>4, <3>2, <4>1, <4>2
      <3>3. QED
        BY <1>2, <1>3, <2>2, <2>4, <3>1, <3>2 DEF n
    <2>5. QED
      BY <2>3, <2>4
  <1>13. CacheInv'
    <2>1. \A i \in Pages : Len(chain[i]) > 0 => Len(chain'[i]) > 0
      BY <1>2, <1>3 DEF n
    <2>2. QED
      BY <1>1, <2>1 DEF IInv, CacheInv
  <1>14. SavedInv'
    <2>1. \A i \in Pages : saved[i] # Nothing => i # wId /\ i \in known
      BY <1>1 DEF IInv, FlushInv, SavedInv
    <2>2. QED
      BY <1>0, <1>1, <1>3, <2>1, SavedStays DEF IInv
  <1>15. FlushInv'
    BY <1>1 DEF IInv, FlushInv
  <1>16. WriteInv'
    <2>1. wBlock + Len(<<p>>) = n + 1 /\ <<p>>[1] = p /\ Len(<<p>>) = 1
      BY <1>2, <1>4 DEF n
    <2>2. QED
      BY <1>1, <1>2, <1>3, <1>4, <2>1 DEF WriteInv, Writing, n
  <1>17. CutInv'
    BY <1>1 DEF CutInv, Cutting
  <1>18. QED
    BY <1>0, <1>9, <1>10, <1>11, <1>12, <1>13, <1>14, <1>15, <1>16, <1>17 DEF IInv

(* The page that was the last one links to the new one ... *)
LEMMA LinkNextInv ==
  ASSUME IInv, LinkNext
  PROVE  IInv'
  <1>0. TypeOK /\ ShapeInv /\ TypeOK' /\ ShapeInv'
    BY LinkType DEF IInv
  <1>1. /\ step = "linkNext" /\ step' = "linkPrev"
        /\ next' = [next EXCEPT ![OldLast] = Head(todo)]
        /\ todo' = todo /\ wBlock' = wBlock /\ wId' = wId /\ wItem' = wItem
        /\ wAllowed' = wAllowed /\ data' = data
        /\ lowest' = lowest /\ freed' = freed /\ fileLowest' = fileLowest
        /\ prev' = prev /\ chain' = chain
        /\ cached' = cached /\ dirty' = dirty /\ allowed' = allowed
        /\ forced' = forced /\ item' = item
        /\ known' = known /\ saved' = saved
    BY DEF LinkNext, pageVars, writeVars
  <1> DEFINE n == Len(chain[wId])
  <1>2. /\ wId \in Pages /\ chain[wId] \in Seq(Pages) /\ n \in Nat /\ n > 1
        /\ todo \in Seq(Pages) /\ Len(todo) = 1 /\ Head(todo) = todo[1]
    BY <1>0, <1>1, ChainFacts DEF TypeOK, ShapeInv
  <1>3. todo[1] = chain[wId][n]
    <2>1. wBlock + 1 = n /\ todo[1] = chain[wId][wBlock + 1] /\ wBlock \in Nat
      BY <1>0, <1>1, <1>2 DEF IInv, WriteInv, Writing, TypeOK
    <2>2. QED
      BY <2>1
  <1>4. OldLast = chain[wId][n - 1] /\ OldLast \in Pages
    BY <1>2 DEF OldLast
  <1>5. /\ next'[chain[wId][n - 1]] = chain[wId][n]
        /\ \A q \in Pages : q # chain[wId][n - 1] => next'[q] = next[q]
    BY <1>0, <1>1, <1>2, <1>3, <1>4 DEF TypeOK
  <1>6. \A i \in Pages : \A k \in 1 .. Len(chain[i]) :
          /\ chain[i][k] \in Pages
          /\ chain[i][k] = chain[wId][n - 1] => i = wId /\ k = n - 1
    BY <1>0, <1>2, ChainFacts DEF IInv, ChainInv
  <1>7. HeapInv'
    <2>1. \A q \in Pages : freed[q] = 1 => q # chain[wId][n - 1] /\ next[q] = 0 /\ prev[q] = 0
      BY <1>1, <1>2 DEF IInv, HeapInv, ChainInv
    <2>2. QED
      BY <1>1, <1>5, <2>1 DEF IInv, HeapInv
  <1>8. ChainInv'
    BY <1>1 DEF IInv, ChainInv
  <1>9. NextInv'
    <2>1. SUFFICES ASSUME NEW i \in Pages, NEW k \in 1 .. Len(chain[i])
                   PROVE  \/ k < Len(chain[i]) /\ next'[chain[i][k]] = chain[i][k + 1]
                          \/ k = Len(chain[i]) /\ next'[chain[i][k]] = 0
      BY <1>1 DEF NextInv
    <2>2. \/ k < Len(chain[i]) /\ next[chain[i][k]] = chain[i][k + 1]
          \/ k = Len(chain[i]) /\ next[chain[i][k]] = 0
          \/ wId = i /\ k = n - 1
      BY <1>1, <2>1 DEF IInv, NextInv
    <2>3. CASE wId = i /\ k = n - 1
      BY <1>2, <1>5, <2>3
    <2>4. CASE ~ (wId = i /\ k = n - 1)
      BY <1>5, <1>6, <2>1, <2>2, <2>4
    <2>5. QED
      BY <2>3, <2>4
  <1>10. PrevInv'
    BY <1>1 DEF IInv, PrevInv
  <1>11. CacheInv'
    BY <1>1 DEF IInv, CacheInv
  <1>12. SavedInv'
    BY <1>1 DEF IInv, SavedInv
  <1>13. FlushInv'
    BY <1>1 DEF IInv, FlushInv
  <1>14. WriteInv'
    BY <1>1 DEF IInv, WriteInv, Writing
  <1>15. CutInv'
    BY <1>1 DEF CutInv, Cutting
  <1>16. QED
    BY <1>0, <1>7, <1>8, <1>9, <1>10, <1>11, <1>12, <1>13, <1>14, <1>15 DEF IInv

(* ... and the new one back to it. *)
LEMMA LinkPrevInv ==
  ASSUME IInv, LinkPrev
  PROVE  IInv'
  <1>0. TypeOK /\ ShapeInv /\ TypeOK' /\ ShapeInv'
    BY LinkType DEF IInv
  <1>1. /\ step = "linkPrev" /\ step' = "write"
        /\ prev' = [prev EXCEPT ![Head(todo)] = OldLast]
        /\ todo' = todo /\ wBlock' = wBlock /\ wId' = wId /\ wItem' = wItem
        /\ wAllowed' = wAllowed /\ data' = data
        /\ lowest' = lowest /\ freed' = freed /\ fileLowest' = fileLowest
        /\ next' = next /\ chain' = chain
        /\ cached' = cached /\ dirty' = dirty /\ allowed' = allowed
        /\ forced' = forced /\ item' = item
        /\ known' = known /\ saved' = saved
    BY DEF LinkPrev, pageVars, writeVars
  <1> DEFINE n == Len(chain[wId])
  <1>2. /\ wId \in Pages /\ chain[wId] \in Seq(Pages) /\ n \in Nat /\ n > 1
        /\ todo \in Seq(Pages) /\ Len(todo) = 1 /\ Head(todo) = todo[1]
    BY <1>0, <1>1, ChainFacts DEF TypeOK, ShapeInv
  <1>3. todo[1] = chain[wId][n]
    <2>1. wBlock + 1 = n /\ todo[1] = chain[wId][wBlock + 1] /\ wBlock \in Nat
      BY <1>0, <1>1, <1>2 DEF IInv, WriteInv, Writing, TypeOK
    <2>2. QED
      BY <2>1
  <1>4. OldLast = chain[wId][n - 1] /\ OldLast \in Pages
    BY <1>2 DEF OldLast
  <1>5. /\ prev'[chain[wId][n]] = chain[wId][n - 1]
        /\ \A q \in Pages : q # chain[wId][n] => prev'[q] = prev[q]
    <2>1. Head(todo) = chain[wId][n] /\ Head(todo) \in Pages
      BY <1>2, <1>3
    <2>2. prev \in [Pages -> 0 .. MaxPage]
      BY <1>0 DEF TypeOK
    <2>3. QED
      BY <1>1, <1>4, <2>1, <2>2
  <1>6. \A i \in Pages : \A k \in 1 .. Len(chain[i]) :
          /\ chain[i][k] \in Pages
          /\ chain[i][k] = chain[wId][n] => i = wId /\ k = n
    BY <1>0, <1>2, ChainFacts DEF IInv, ChainInv
  <1>7. HeapInv'
    <2>1. \A q \in Pages : freed[q] = 1 => q # chain[wId][n] /\ next[q] = 0 /\ prev[q] = 0
      BY <1>1, <1>2 DEF IInv, HeapInv, ChainInv
    <2>2. QED
      BY <1>1, <1>5, <2>1 DEF IInv, HeapInv
  <1>8. ChainInv'
    BY <1>1 DEF IInv, ChainInv
  <1>9. NextInv'
    BY <1>1 DEF IInv, NextInv
  <1>10. PrevInv'
    <2>1. SUFFICES ASSUME NEW i \in Pages, NEW k \in 1 .. Len(chain[i])
                   PROVE  \/ k = 1 /\ prev'[chain[i][k]] = 0
                          \/ k > 1 /\ prev'[chain[i][k]] = chain[i][k - 1]
      BY <1>1 DEF PrevInv
    <2>2. \/ k = 1 /\ prev[chain[i][k]] = 0
          \/ k > 1 /\ prev[chain[i][k]] = chain[i][k - 1]
          \/ wId = i /\ k = n
      BY <1>1, <2>1 DEF IInv, PrevInv
    <2>3. CASE wId = i /\ k = n
      BY <1>2, <1>5, <2>3
    <2>4. CASE ~ (wId = i /\ k = n)
      BY <1>5, <1>6, <2>1, <2>2, <2>4
    <2>5. QED
      BY <2>3, <2>4
  <1>11. CacheInv'
    BY <1>1 DEF IInv, CacheInv
  <1>12. SavedInv'
    BY <1>1 DEF IInv, SavedInv
  <1>13. FlushInv'
    BY <1>1 DEF IInv, FlushInv
  <1>14. WriteInv'
    BY <1>1 DEF IInv, WriteInv, Writing
  <1>15. CutInv'
    BY <1>1 DEF CutInv, Cutting
  <1>16. QED
    BY <1>0, <1>7, <1>8, <1>9, <1>10, <1>11, <1>12, <1>13, <1>14, <1>15 DEF IInv

(* The pages that are left over are cut off: they are the end of the chain *)
(* as it was, with at most one spare page kept after the last block.       *)
Kept == Len(chain[wId]) - Len(LeftOver)

LEMMA LeftOverFacts ==
  ASSUME IInv, EndData
  PROVE  /\ LeftOver \in Seq(Pages) /\ Len(LeftOver) \in Nat
         /\ Kept \in Nat /\ Kept <= Len(chain[wId])
         /\ \A k \in 1 .. Len(LeftOver) : LeftOver[k] = chain[wId][Kept + k]
         /\ wItem.blocks <= Kept /\ Kept <= wItem.blocks + 1
  <1>0. TypeOK /\ ShapeInv
    BY DEF IInv
  <1>1. step = "write" /\ wBlock = wItem.blocks
    BY DEF EndData
  <1>2. /\ wId \in Pages /\ chain[wId] \in Seq(Pages) /\ Len(chain[wId]) \in Nat
        /\ wBlock \in Nat /\ todo \in Seq(Pages) /\ Len(todo) \in Nat
    BY <1>0, <1>1, ChainFacts DEF TypeOK, ShapeInv
  <1>3. /\ wBlock + Len(todo) = Len(chain[wId])
        /\ \A k \in 1 .. Len(todo) : todo[k] = chain[wId][wBlock + k]
    BY <1>1 DEF IInv, WriteInv, Writing
  <1>4. CASE LeftOver = todo
    <2>1. Kept = wBlock
      BY <1>2, <1>3, <1>4 DEF Kept
    <2>2. /\ wBlock <= Len(chain[wId]) /\ wItem.blocks <= wBlock
          /\ wBlock <= wItem.blocks + 1
      BY <1>1, <1>2, <1>3
    <2>3. QED
      BY <1>2, <1>3, <1>4, <2>1, <2>2
  <1>5. CASE LeftOver # todo
    <2>1. LeftOver = Tail(todo) /\ todo # <<>>
      BY <1>5 DEF LeftOver
    <2>2. /\ LeftOver \in Seq(Pages) /\ Len(LeftOver) = Len(todo) - 1 /\ Len(todo) > 0
          /\ \A k \in 1 .. Len(LeftOver) : LeftOver[k] = todo[k + 1]
      BY <1>2, <2>1, HeadTailProperties
    <2>3. Kept = wBlock + 1
      <3>1. Len(chain[wId]) - (Len(todo) - 1) = wBlock + 1
        BY <1>2, <1>3
      <3>2. QED
        BY <2>2, <3>1 DEF Kept
    <2>4. \A k \in 1 .. Len(LeftOver) : LeftOver[k] = chain[wId][(wBlock + 1) + k]
      <3>1. SUFFICES ASSUME NEW k \in 1 .. Len(LeftOver)
                     PROVE  todo[k + 1] = chain[wId][(wBlock + 1) + k]
        BY <2>2
      <3>2. k + 1 \in 1 .. Len(todo) /\ wBlock + (k + 1) = (wBlock + 1) + k
        BY <1>2, <2>2
      <3>3. QED
        BY <1>3, <3>2
    <2>5. /\ Len(LeftOver) \in Nat /\ wBlock + 1 \in Nat /\ wBlock + 1 <= Len(chain[wId])
          /\ wItem.blocks <= wBlock + 1 /\ wBlock + 1 <= wItem.blocks + 1
      BY <1>1, <1>2, <1>3, <2>2
    <2>6. QED
      BY <2>2, <2>3, <2>4, <2>5
  <1>6. QED
    BY <1>4, <1>5

LEMMA EndDataInv ==
  ASSUME IInv, EndData
  PROVE  IInv'
  <1>0. TypeOK /\ ShapeInv /\ TypeOK' /\ ShapeInv'
    BY WriteType DEF IInv
  <1>1. /\ step = "write" /\ step' = "free" /\ wBlock = wItem.blocks
        /\ todo' = LeftOver
        /\ wBlock' = wBlock /\ wId' = wId /\ wItem' = wItem
        /\ wAllowed' = wAllowed /\ data' = data
        /\ lowest' = lowest /\ freed' = freed /\ fileLowest' = fileLowest
        /\ next' = next /\ prev' = prev
        /\ chain' = [chain EXCEPT ![wId] =
                       SubSeq(chain[wId], 1, Kept)]
        /\ cached' = cached /\ dirty' = dirty /\ allowed' = allowed
        /\ forced' = forced /\ item' = item
        /\ known' = known /\ saved' = saved
    BY DEF EndData, Kept, fileVars, pageVars, writeVars
  <1> DEFINE n == Len(chain[wId])
             m == Kept
  <1>2. /\ LeftOver \in Seq(Pages) /\ Len(LeftOver) \in Nat
        /\ m \in Nat /\ m <= n /\ n = m + Len(LeftOver)
        /\ \A k \in 1 .. Len(LeftOver) : LeftOver[k] = chain[wId][m + k]
        /\ wItem.blocks <= m /\ m <= wItem.blocks + 1
        /\ wId \in Pages /\ chain[wId] \in Seq(Pages) /\ n \in Nat
    <2>1. wId \in Pages /\ chain[wId] \in Seq(Pages) /\ n \in Nat
      BY <1>0, <1>1, ChainFacts DEF ShapeInv
    <2>2. n = m + Len(LeftOver)
      BY <2>1, LeftOverFacts DEF Kept
    <2>3. QED
      BY <2>1, <2>2, LeftOverFacts
  <1>3. /\ Len(chain'[wId]) = m
        /\ \A k \in 1 .. m : chain'[wId][k] = chain[wId][k]
        /\ \A i \in Pages \ {wId} : chain'[i] = chain[i]
    <2>1. \A k \in 1 .. m : chain[wId][k] \in Pages
      BY <1>2
    <2>2. /\ Len(SubSeq(chain[wId], 1, m)) = m
          /\ \A k \in 1 .. m : SubSeq(chain[wId], 1, m)[k] = chain[wId][k]
      BY <1>2, <2>1, SubSeqProperties
    <2>3. QED
      BY <1>0, <1>1, <1>2, <2>2 DEF TypeOK
  <1> HIDE DEF m, n
  <1>4. \A i \in Pages : \A k \in 1 .. Len(chain'[i]) :
          k \in 1 .. Len(chain[i]) /\ chain'[i][k] = chain[i][k]
    BY <1>2, <1>3 DEF n
  <1>5. HeapInv'
    BY <1>1 DEF IInv, HeapInv
  <1>6. ChainInv'
    <2>1. ChainInv
      BY DEF IInv
    <2>2. \A i \in Pages : \A k \in 1 .. Len(chain'[i]) :
            chain'[i][k] < lowest' /\ freed'[chain'[i][k]] = 0
      <3>1. SUFFICES ASSUME NEW i \in Pages, NEW k \in 1 .. Len(chain'[i])
                     PROVE  chain'[i][k] < lowest /\ freed[chain'[i][k]] = 0
        BY <1>1
      <3>2. QED
        BY <1>4, <2>1, <3>1 DEF ChainInv
    <2>3. \A i, j \in Pages : \A k \in 1 .. Len(chain'[i]), l \in 1 .. Len(chain'[j]) :
            chain'[i][k] = chain'[j][l] => i = j /\ k = l
      BY <1>4, <2>1 DEF ChainInv
    <2>4. \A i \in Pages : Len(chain'[i]) > 0 => chain'[i][1] = i
      <3>1. SUFFICES ASSUME NEW i \in Pages, Len(chain'[i]) > 0 PROVE chain'[i][1] = i
        OBVIOUS
      <3>2. 1 \in 1 .. Len(chain'[i])
        BY <1>0, <3>1 DEF TypeOK
      <3>3. QED
        BY <1>4, <2>1, <3>2 DEF ChainInv
    <2>5. QED
      BY <2>2, <2>3, <2>4 DEF ChainInv
  <1>7. /\ \A i \in Pages : \A k \in 1 .. Len(chain[i]) :
              /\ k < Len(chain[i]) => next[chain[i][k]] = chain[i][k + 1]
              /\ k = Len(chain[i]) => next[chain[i][k]] = 0
        /\ \A i \in Pages : \A k \in 1 .. Len(chain[i]) :
              /\ k = 1 => prev[chain[i][k]] = 0
              /\ k > 1 => prev[chain[i][k]] = chain[i][k - 1]
    BY <1>1 DEF IInv, NextInv, PrevInv
  (* Where the chain is cut, the page before the cut and the one after it  *)
  (* still link to each other.                                             *)
  <1>8. Len(LeftOver) > 0 =>
          /\ LeftOver[1] = chain[wId][m + 1]
          /\ m > 0 => /\ next[chain[wId][m]] = LeftOver[1]
                      /\ prev[LeftOver[1]] = chain[wId][m]
          /\ m = 0 => prev[LeftOver[1]] = 0
    <2>1. SUFFICES ASSUME Len(LeftOver) > 0
                   PROVE  /\ LeftOver[1] = chain[wId][m + 1]
                          /\ m > 0 => /\ next[chain[wId][m]] = LeftOver[1]
                                      /\ prev[LeftOver[1]] = chain[wId][m]
                          /\ m = 0 => prev[LeftOver[1]] = 0
      OBVIOUS
    <2>2. LeftOver[1] = chain[wId][m + 1] /\ m + 1 \in 1 .. n /\ m < n
      BY <1>2, <2>1
    <2>3. m > 0 => next[chain[wId][m]] = LeftOver[1]
      BY <1>2, <1>7, <2>2 DEF n
    <2>4. m > 0 => prev[LeftOver[1]] = chain[wId][(m + 1) - 1]
      <3>1. SUFFICES ASSUME m > 0 PROVE prev[chain[wId][m + 1]] = chain[wId][(m + 1) - 1]
        BY <2>2
      <3>2. m + 1 > 1 /\ m + 1 \in 1 .. Len(chain[wId]) /\ wId \in Pages
        BY <1>2, <2>2, <3>1 DEF n
      <3>3. QED
        BY <1>7, <3>2
    <2>5. m = 0 => prev[LeftOver[1]] = 0
      BY <1>2, <1>7, <2>2 DEF n
    <2>6. (m + 1) - 1 = m
      BY <1>2
    <2>7. QED
      BY <2>2, <2>3, <2>4, <2>5, <2>6
  <1>9. NextInv'
    <2>1. SUFFICES ASSUME NEW i \in Pages, NEW k \in 1 .. Len(chain'[i])
                   PROVE  \/ k < Len(chain'[i]) /\ next'[chain'[i][k]] = chain'[i][k + 1]
                          \/ k = Len(chain'[i]) /\ next'[chain'[i][k]] = 0
                          \/ /\ wId' = i /\ step' = "free" /\ k = Len(chain'[i])
                             /\ Len(todo') > 0
                             /\ next'[chain'[i][k]] = todo'[1]
                             /\ prev'[todo'[1]] = chain'[i][k]
      BY DEF NextInv
    <2>2. CASE i # wId
      BY <1>1, <1>3, <1>7, <2>1, <2>2
    <2>3. CASE i = wId /\ k < m
      <3>1. k \in 1 .. n /\ k + 1 \in 1 .. m /\ k < n
        BY <1>2, <2>1, <2>3
      <3>2. next[chain[wId][k]] = chain[wId][k + 1]
        BY <1>2, <1>7, <3>1 DEF n
      <3>3. k \in 1 .. m
        BY <1>3, <2>1, <2>3
      <3>4. QED
        BY <1>1, <1>3, <2>3, <3>1, <3>2, <3>3
    <2>4. CASE i = wId /\ k = m
      <3>1. m > 0 /\ m \in 1 .. n /\ chain'[wId][m] = chain[wId][m]
        BY <1>2, <1>3, <2>1, <2>4
      <3>2. CASE Len(LeftOver) > 0
        BY <1>1, <1>3, <1>8, <2>4, <3>1, <3>2
      <3>3. CASE Len(LeftOver) = 0
        <4>1. next[chain[wId][m]] = 0
          BY <1>2, <1>7, <3>1, <3>3 DEF n
        <4>2. QED
          BY <1>1, <1>3, <2>4, <3>1, <4>1
      <3>4. QED
        BY <1>2, <3>2, <3>3
    <2>5. QED
      BY <1>2, <1>3, <2>1, <2>2, <2>3, <2>4
  <1>10. PrevInv'
    <2>1. SUFFICES ASSUME NEW i \in Pages, NEW k \in 1 .. Len(chain'[i])
                   PROVE  \/ k = 1 /\ prev'[chain'[i][k]] = 0
                          \/ k > 1 /\ prev'[chain'[i][k]] = chain'[i][k - 1]
      BY DEF PrevInv
    <2>2. k \in 1 .. Len(chain[i]) /\ chain'[i][k] = chain[i][k]
      BY <1>4, <2>1
    <2>3. CASE k = 1
      BY <1>1, <1>7, <2>2, <2>3
    <2>4. CASE k > 1
      <3>1. k - 1 \in 1 .. Len(chain'[i])
        BY <1>0, <2>1, <2>4 DEF TypeOK
      <3>2. chain'[i][k - 1] = chain[i][k - 1]
        BY <1>4, <3>1
      <3>3. QED
        BY <1>1, <1>7, <2>2, <2>4, <3>2
    <2>5. QED
      BY <2>1, <2>3, <2>4
  <1>11. CacheInv'
    <2>1. \A i \in Pages : i \in known => Len(chain'[i]) > 0
      <3>1. SUFFICES ASSUME NEW i \in Pages, i \in known PROVE Len(chain'[i]) > 0
        OBVIOUS
      <3>2. CASE i # wId
        BY <1>3, <3>1, <3>2 DEF IInv, CacheInv
      <3>3. CASE i = wId
        <4>1. wItem.blocks > 0 /\ wItem.blocks \in Nat
          BY <1>1, <3>1, <3>3, ItemFacts DEF IInv, FlushInv
        <4>2. QED
          BY <1>2, <1>3, <3>3, <4>1
      <3>4. QED
        BY <3>2, <3>3
    <2>2. QED
      BY <1>1, <2>1 DEF IInv, CacheInv
  <1>12. SavedInv'
    <2>1. \A i \in Pages : saved[i] # Nothing => i # wId /\ i \in known
      BY <1>1 DEF IInv, FlushInv, SavedInv
    <2>2. QED
      BY <1>0, <1>1, <1>3, <2>1, SavedStays DEF IInv
  <1>13. FlushInv'
    BY <1>1 DEF IInv, FlushInv
  <1>14. WriteInv'
    BY <1>1 DEF WriteInv, Writing
  <1>15. CutInv'
    <2>1. \A k \in 1 .. Len(LeftOver) :
            \E q \in 1 .. n : q = m + k /\ q \notin 1 .. m /\ LeftOver[k] = chain[wId][q]
      BY <1>2
    <2>2. ChainInv /\ wId \in Pages /\ n = Len(chain[wId])
      BY <1>2 DEF IInv, n
    <2>3. \A k \in 1 .. Len(LeftOver) :
            /\ LeftOver[k] < lowest /\ freed[LeftOver[k]] = 0
            /\ \A i \in Pages : \A l \in 1 .. Len(chain'[i]) : chain'[i][l] # LeftOver[k]
      <3>1. SUFFICES ASSUME NEW k \in 1 .. Len(LeftOver)
                     PROVE  /\ LeftOver[k] < lowest /\ freed[LeftOver[k]] = 0
                            /\ \A i \in Pages : \A l \in 1 .. Len(chain'[i]) :
                                 chain'[i][l] # LeftOver[k]
        OBVIOUS
      <3>0. PICK q \in 1 .. n : q \notin 1 .. m /\ LeftOver[k] = chain[wId][q]
        BY <2>1, <3>1
      <3>2. LeftOver[k] < lowest /\ freed[LeftOver[k]] = 0
        BY <2>2, <3>0 DEF ChainInv
      <3>3. ASSUME NEW i \in Pages, NEW l \in 1 .. Len(chain'[i]),
                   chain'[i][l] = LeftOver[k]
            PROVE  FALSE
        <4>1. l \in 1 .. Len(chain[i]) /\ chain[i][l] = chain[wId][q]
          BY <1>4, <3>0, <3>3
        <4>2. i = wId /\ l = q
          BY <2>2, <3>0, <4>1 DEF ChainInv
        <4>3. QED
          BY <1>3, <3>0, <3>3, <4>2
      <3>4. QED
        BY <3>2, <3>3
    <2>4. \A j, k \in 1 .. Len(todo') : todo'[j] = todo'[k] => j = k
      <3>1. SUFFICES ASSUME NEW j \in 1 .. Len(LeftOver), NEW k \in 1 .. Len(LeftOver),
                            LeftOver[j] = LeftOver[k]
                     PROVE  j = k
        BY <1>1
      <3>2. PICK p \in 1 .. n : p = m + j /\ LeftOver[j] = chain[wId][p]
        BY <2>1, <3>1
      <3>3. PICK q \in 1 .. n : q = m + k /\ LeftOver[k] = chain[wId][q]
        BY <2>1, <3>1
      <3>4. /\ p \in 1 .. Len(chain[wId]) /\ q \in 1 .. Len(chain[wId])
            /\ chain[wId][p] = chain[wId][q]
        BY <2>2, <3>1, <3>2, <3>3
      <3>5. p = q
        BY <2>2, <3>4 DEF ChainInv
      <3>6. QED
        BY <1>2, <3>2, <3>3, <3>5
    <2>5. \A k \in 2 .. Len(todo') : prev'[todo'[k]] = todo'[k - 1]
      <3>1. SUFFICES ASSUME NEW k \in 2 .. Len(LeftOver)
                     PROVE  prev[LeftOver[k]] = LeftOver[k - 1]
        BY <1>1
      <3>2. /\ k \in 1 .. Len(LeftOver) /\ k - 1 \in 1 .. Len(LeftOver)
            /\ m + k > 1 /\ (m + k) - 1 = m + (k - 1) /\ m + k \in 1 .. n
        BY <1>2
      <3>3. prev[chain[wId][m + k]] = chain[wId][(m + k) - 1]
        BY <1>2, <1>7, <3>2 DEF n
      <3>4. QED
        BY <1>2, <3>2, <3>3
    <2>6. Len(todo') > 0 =>
            \A i \in Pages : \A l \in 1 .. Len(chain'[i]) :
              prev'[todo'[1]] = chain'[i][l] => i = wId' /\ l = Len(chain'[i])
      <3>1. SUFFICES ASSUME Len(LeftOver) > 0,
                            NEW i \in Pages, NEW l \in 1 .. Len(chain'[i]),
                            prev[LeftOver[1]] = chain'[i][l]
                     PROVE  i = wId /\ l = Len(chain'[i])
        BY <1>1
      <3>2. l \in 1 .. Len(chain[i]) /\ prev[LeftOver[1]] = chain[i][l] /\ chain[i][l] \in Pages
        BY <1>0, <1>4, <3>1, ChainFacts
      <3>3. m # 0
        BY <1>8, <3>1, <3>2, PageFacts
      <3>4. m > 0 /\ m \in 1 .. Len(chain[wId])
        BY <1>2, <2>2, <3>3
      <3>5. chain[i][l] = chain[wId][m]
        BY <1>8, <3>1, <3>2, <3>4
      <3>6. i = wId /\ l = m
        BY <2>2, <3>2, <3>4, <3>5 DEF ChainInv
      <3>7. QED
        BY <1>3, <3>6
    <2>7. wId' \in known' =>
            /\ wItem'.blocks <= Len(chain'[wId'])
            /\ Len(chain'[wId']) <= wItem'.blocks + 1
            /\ \A k \in 1 .. wItem'.blocks : data'[chain'[wId'][k]] = <<wItem', k>>
      <3>1. wItem.blocks \in Nat
        BY <1>0, ItemFacts DEF TypeOK
      <3>2. \A k \in 1 .. wItem.blocks : data[chain[wId][k]] = <<wItem, k>>
        BY <1>1 DEF IInv, WriteInv, Writing
      <3>3. \A k \in 1 .. wItem.blocks : k \in 1 .. m
        BY <1>2, <3>1
      <3>4. \A k \in 1 .. wItem.blocks : data[chain'[wId][k]] = <<wItem, k>>
        BY <1>3, <3>2, <3>3
      <3>5. wItem.blocks <= Len(chain'[wId]) /\ Len(chain'[wId]) <= wItem.blocks + 1
        BY <1>2, <1>3
      <3>6. QED
        BY <1>1, <3>4, <3>5
    <2>8. QED
      <3>1. step' # "zero" /\ todo' = LeftOver /\ lowest' = lowest /\ freed' = freed
        BY <1>1
      <3>2. \A k \in 1 .. Len(todo') :
              /\ todo'[k] < lowest'
              /\ freed'[todo'[k]] = IF k = 1 /\ step' = "zero" THEN 1 ELSE 0
              /\ \A i \in Pages : \A l \in 1 .. Len(chain'[i]) : chain'[i][l] # todo'[k]
        BY <2>3, <3>1
      <3>3. QED
        BY <2>4, <2>5, <2>6, <2>7, <3>2 DEF CutInv
  <1>16. QED
    BY <1>0, <1>5, <1>6, <1>9, <1>10, <1>11, <1>12, <1>13, <1>14, <1>15 DEF IInv

(* A page that was cut off goes on the heap, and the page its header names *)
(* as the previous one, the last one of the item or none, links to it no   *)
(* more.                                                                   *)
LEMMA FreePageInv ==
  ASSUME IInv, FreePage
  PROVE  IInv'
  <1>0. TypeOK /\ ShapeInv /\ TypeOK' /\ ShapeInv'
    BY FreeType DEF IInv
  <1> DEFINE p == todo[1]
  <1>1. /\ step = "free" /\ step' = "zero" /\ todo # <<>> /\ Head(todo) = p
        /\ freed' = [freed EXCEPT ![p] = freed[p] + 1]
        /\ next' = IF prev[p] = 0 THEN next ELSE [next EXCEPT ![prev[p]] = 0]
        /\ todo' = todo /\ wBlock' = wBlock /\ wId' = wId /\ wItem' = wItem
        /\ wAllowed' = wAllowed /\ data' = data
        /\ lowest' = lowest /\ fileLowest' = fileLowest
        /\ prev' = prev /\ chain' = chain
        /\ cached' = cached /\ dirty' = dirty /\ allowed' = allowed
        /\ forced' = forced /\ item' = item
        /\ known' = known /\ saved' = saved
    BY <1>0 DEF FreePage, pageVars, writeVars, TypeOK
  <1>2. /\ todo \in Seq(Pages) /\ Len(todo) \in Nat /\ Len(todo) > 0 /\ p \in Pages
        /\ prev[p] \in 0 .. MaxPage /\ wId \in Pages
    <2>1. todo \in Seq(Pages) /\ Len(todo) \in Nat /\ Len(todo) > 0 /\ wId \in Pages
      BY <1>0, <1>1 DEF TypeOK, ShapeInv
    <2>2. p \in Pages
      BY <2>1
    <2>3. QED
      BY <1>0, <2>1, <2>2 DEF TypeOK
  <1>3. /\ \A k \in 1 .. Len(todo) :
             /\ todo[k] < lowest /\ freed[todo[k]] = 0
             /\ \A i \in Pages : \A l \in 1 .. Len(chain[i]) : chain[i][l] # todo[k]
        /\ \A j, k \in 1 .. Len(todo) : todo[j] = todo[k] => j = k
        /\ \A k \in 2 .. Len(todo) : prev[todo[k]] = todo[k - 1]
        /\ \A i \in Pages : \A l \in 1 .. Len(chain[i]) :
             prev[p] = chain[i][l] => i = wId /\ l = Len(chain[i])
    BY <1>1, <1>2 DEF IInv, CutInv, Cutting
  <1>4. p < lowest /\ freed[p] = 0 /\ 1 \in 1 .. Len(todo)
        /\ \A i \in Pages : \A l \in 1 .. Len(chain[i]) : chain[i][l] # p
    BY <1>2, <1>3
  <1>5. /\ freed'[p] = 1 /\ \A q \in Pages : q # p => freed'[q] = freed[q]
        /\ \A q \in Pages : next'[q] = IF q = prev[p] THEN 0 ELSE next[q]
    <2>1. freed'[p] = 1 /\ \A q \in Pages : q # p => freed'[q] = freed[q]
      BY <1>0, <1>1, <1>2, <1>4 DEF TypeOK
    <2>2. prev[p] # 0 => prev[p] \in Pages
      BY <1>2 DEF Pages
    <2>3. next \in [Pages -> 0 .. MaxPage] /\ 0 \notin Pages
      BY <1>0, PageFacts DEF TypeOK
    <2>4. \A q \in Pages : next'[q] = IF q = prev[p] THEN 0 ELSE next[q]
      BY <1>1, <2>2, <2>3
    <2>5. QED
      BY <2>1, <2>4
  <1>6. \A i \in Pages : \A k \in 1 .. Len(chain[i]) : chain[i][k] \in Pages
    BY <1>0, ChainFacts
  <1>7. HeapInv'
    <2>1. \A q \in Pages : freed[q] <= 1 /\ (freed[q] = 1 => q < lowest /\ next[q] = 0 /\ prev[q] = 0)
      BY <1>1 DEF IInv, HeapInv
    <2>2. \A q \in Pages : q # p => freed'[q] <= 1 /\ (freed'[q] = 1 => q < lowest /\ next'[q] = 0 /\ prev'[q] = 0)
      BY <1>1, <1>5, <2>1
    <2>3. lowest' = LowestOnOpen(fileLowest')
      BY <1>1 DEF IInv, HeapInv
    <2>4. QED
      BY <1>1, <1>4, <1>5, <2>2, <2>3 DEF HeapInv
  <1>8. ChainInv'
    <2>1. \A i \in Pages : \A k \in 1 .. Len(chain[i]) : freed'[chain[i][k]] = freed[chain[i][k]]
      BY <1>4, <1>5, <1>6
    <2>2. QED
      BY <1>1, <2>1 DEF IInv, ChainInv
  <1>9. NextInv'
    <2>1. SUFFICES ASSUME NEW i \in Pages, NEW k \in 1 .. Len(chain[i])
                   PROVE  \/ k < Len(chain[i]) /\ next'[chain[i][k]] = chain[i][k + 1]
                          \/ k = Len(chain[i]) /\ next'[chain[i][k]] = 0
      BY <1>1 DEF NextInv
    <2>2. \/ k < Len(chain[i]) /\ next[chain[i][k]] = chain[i][k + 1]
          \/ k = Len(chain[i]) /\ next[chain[i][k]] = 0
          \/ k = Len(chain[i]) /\ prev[p] = chain[i][k]
      BY <1>1, <2>1 DEF IInv, NextInv
    <2>3. CASE prev[p] = chain[i][k]
      <3>1. k = Len(chain[i])
        BY <1>3, <2>1, <2>3
      <3>2. QED
        BY <1>5, <1>6, <2>1, <2>3, <3>1
    <2>4. CASE prev[p] # chain[i][k]
      BY <1>5, <1>6, <2>1, <2>2, <2>4
    <2>5. QED
      BY <2>3, <2>4
  <1>10. PrevInv'
    BY <1>1 DEF IInv, PrevInv
  <1>11. CacheInv'
    BY <1>1 DEF IInv, CacheInv
  <1>12. SavedInv'
    BY <1>1 DEF IInv, SavedInv
  <1>13. FlushInv'
    BY <1>1 DEF IInv, FlushInv
  <1>14. WriteInv'
    BY <1>1 DEF WriteInv, Writing
  <1>15. CutInv'
    <2>1. \A k \in 1 .. Len(todo) : freed'[todo[k]] = IF k = 1 THEN 1 ELSE 0
      <3>1. SUFFICES ASSUME NEW k \in 1 .. Len(todo)
                     PROVE  freed'[todo[k]] = IF k = 1 THEN 1 ELSE 0
        OBVIOUS
      <3>2. k # 1 => todo[k] # p /\ todo[k] \in Pages
        BY <1>2, <1>3, <1>4, <3>1
      <3>3. QED
        BY <1>3, <1>5, <3>1, <3>2
    <2>2. wId \in known =>
            /\ wItem.blocks <= Len(chain[wId])
            /\ Len(chain[wId]) <= wItem.blocks + 1
            /\ \A k \in 1 .. wItem.blocks : data[chain[wId][k]] = <<wItem, k>>
      BY <1>1 DEF IInv, CutInv, Cutting
    <2>3. /\ \A k \in 1 .. Len(todo') :
               /\ todo'[k] < lowest'
               /\ freed'[todo'[k]] = IF k = 1 /\ step' = "zero" THEN 1 ELSE 0
               /\ \A i \in Pages : \A l \in 1 .. Len(chain'[i]) : chain'[i][l] # todo'[k]
          /\ \A j, k \in 1 .. Len(todo') : todo'[j] = todo'[k] => j = k
          /\ \A k \in 2 .. Len(todo') : prev'[todo'[k]] = todo'[k - 1]
      BY <1>1, <1>3, <2>1
    <2>4. wId' \in known' =>
            /\ wItem'.blocks <= Len(chain'[wId'])
            /\ Len(chain'[wId']) <= wItem'.blocks + 1
            /\ \A k \in 1 .. wItem'.blocks : data'[chain'[wId'][k]] = <<wItem', k>>
      BY <1>1, <2>2
    <2>5. QED
      BY <1>1, <2>3, <2>4 DEF CutInv
  <1>16. QED
    BY <1>0, <1>7, <1>8, <1>9, <1>10, <1>11, <1>12, <1>13, <1>14, <1>15 DEF IInv

(* Its own header is zeroed.  The page to free after it names it as the    *)
(* previous one, and not a page of an item.                                *)
LEMMA ZeroHeaderInv ==
  ASSUME IInv, ZeroHeader
  PROVE  IInv'
  <1>0. TypeOK /\ ShapeInv /\ TypeOK' /\ ShapeInv'
    BY FreeType DEF IInv
  <1> DEFINE p == todo[1]
  <1>1. /\ step = "zero" /\ step' = "free"
        /\ next' = [next EXCEPT ![Head(todo)] = 0]
        /\ prev' = [prev EXCEPT ![Head(todo)] = 0]
        /\ todo' = Tail(todo) /\ wBlock' = wBlock /\ wId' = wId /\ wItem' = wItem
        /\ wAllowed' = wAllowed /\ data' = data
        /\ lowest' = lowest /\ freed' = freed /\ fileLowest' = fileLowest
        /\ chain' = chain
        /\ cached' = cached /\ dirty' = dirty /\ allowed' = allowed
        /\ forced' = forced /\ item' = item
        /\ known' = known /\ saved' = saved
    BY DEF ZeroHeader, pageVars, writeVars
  <1>2. /\ todo \in Seq(Pages) /\ Len(todo) \in Nat /\ Len(todo) > 0 /\ p \in Pages
        /\ todo # <<>> /\ Head(todo) = p /\ wId \in Pages
    BY <1>0, <1>1 DEF TypeOK, ShapeInv
  <1>3. /\ \A k \in 1 .. Len(todo) :
             /\ todo[k] < lowest /\ freed[todo[k]] = IF k = 1 THEN 1 ELSE 0
             /\ \A i \in Pages : \A l \in 1 .. Len(chain[i]) : chain[i][l] # todo[k]
        /\ \A j, k \in 1 .. Len(todo) : todo[j] = todo[k] => j = k
        /\ \A k \in 2 .. Len(todo) : prev[todo[k]] = todo[k - 1]
    BY <1>1 DEF IInv, CutInv, Cutting
  <1>4. 1 \in 1 .. Len(todo) /\ \A i \in Pages : \A l \in 1 .. Len(chain[i]) : chain[i][l] # p
    BY <1>2, <1>3
  <1>5. /\ next'[p] = 0 /\ prev'[p] = 0
        /\ \A q \in Pages : q # p => next'[q] = next[q] /\ prev'[q] = prev[q]
    BY <1>0, <1>1, <1>2 DEF TypeOK
  <1>6. \A i \in Pages : \A k \in 1 .. Len(chain[i]) : chain[i][k] \in Pages /\ chain[i][k] # p
    BY <1>0, <1>4, ChainFacts
  <1>7. /\ Len(Tail(todo)) = Len(todo) - 1
        /\ \A k \in 1 .. Len(todo) - 1 : Tail(todo)[k] = todo[k + 1]
    BY <1>2, HeadTailProperties
  <1>8. HeapInv'
    <2>1. \A q \in Pages : freed[q] <= 1 /\ (freed[q] = 1 => q < lowest /\ ((next[q] = 0 /\ prev[q] = 0) \/ q = p))
      BY <1>1 DEF IInv, HeapInv
    <2>2. \A q \in Pages : freed[q] = 1 => next'[q] = 0 /\ prev'[q] = 0
      BY <1>5, <2>1
    <2>3. lowest' = LowestOnOpen(fileLowest')
      BY <1>1 DEF IInv, HeapInv
    <2>4. QED
      BY <1>1, <2>1, <2>2, <2>3 DEF HeapInv
  <1>9. ChainInv'
    BY <1>1 DEF IInv, ChainInv
  <1>10. NextInv'
    <2>1. \A i \in Pages : \A k \in 1 .. Len(chain[i]) :
            \/ k < Len(chain[i]) /\ next[chain[i][k]] = chain[i][k + 1]
            \/ k = Len(chain[i]) /\ next[chain[i][k]] = 0
      BY <1>1 DEF IInv, NextInv
    <2>2. QED
      BY <1>1, <1>5, <1>6, <2>1 DEF NextInv
  <1>11. PrevInv'
    <2>1. \A i \in Pages : \A k \in 1 .. Len(chain[i]) :
            \/ k = 1 /\ prev[chain[i][k]] = 0
            \/ k > 1 /\ prev[chain[i][k]] = chain[i][k - 1]
      BY <1>1 DEF IInv, PrevInv
    <2>2. QED
      BY <1>1, <1>5, <1>6, <2>1 DEF PrevInv
  <1>12. CacheInv'
    BY <1>1 DEF IInv, CacheInv
  <1>13. SavedInv'
    BY <1>1 DEF IInv, SavedInv
  <1>14. FlushInv'
    BY <1>1 DEF IInv, FlushInv
  <1>15. WriteInv'
    BY <1>1 DEF WriteInv, Writing
  <1>16. CutInv'
    <2>1. \A k \in 1 .. Len(todo') : k + 1 \in 2 .. Len(todo) /\ k + 1 \in 1 .. Len(todo)
                                     /\ todo'[k] = todo[k + 1] /\ todo[k + 1] # p
      <3>1. SUFFICES ASSUME NEW k \in 1 .. Len(todo) - 1
                     PROVE  /\ k + 1 \in 2 .. Len(todo) /\ k + 1 \in 1 .. Len(todo)
                            /\ Tail(todo)[k] = todo[k + 1] /\ todo[k + 1] # p
        BY <1>1, <1>7
      <3>2. k + 1 \in 2 .. Len(todo) /\ k + 1 \in 1 .. Len(todo) /\ k + 1 # 1
        BY <1>2
      <3>3. QED
        BY <1>3, <1>4, <1>7, <3>1, <3>2
    <2>2. \A k \in 1 .. Len(todo') :
             /\ todo'[k] < lowest' /\ freed'[todo'[k]] = 0
             /\ \A i \in Pages : \A l \in 1 .. Len(chain'[i]) : chain'[i][l] # todo'[k]
      <3>1. SUFFICES ASSUME NEW k \in 1 .. Len(todo')
                     PROVE  /\ todo'[k] < lowest /\ freed[todo'[k]] = 0
                            /\ \A i \in Pages : \A l \in 1 .. Len(chain[i]) : chain[i][l] # todo'[k]
        BY <1>1
      <3>2. k + 1 # 1
        OBVIOUS
      <3>3. QED
        BY <1>3, <2>1, <3>1, <3>2
    <2>3. \A j, k \in 1 .. Len(todo') : todo'[j] = todo'[k] => j = k
      <3>1. SUFFICES ASSUME NEW j \in 1 .. Len(todo'), NEW k \in 1 .. Len(todo'),
                            todo'[j] = todo'[k]
                     PROVE  j = k
        OBVIOUS
      <3>2. /\ j + 1 \in 1 .. Len(todo) /\ k + 1 \in 1 .. Len(todo)
            /\ todo[j + 1] = todo[k + 1]
        BY <2>1, <3>1
      <3>3. j + 1 = k + 1
        BY <1>3, <3>2
      <3>4. QED
        BY <3>1, <3>3
    <2>4. \A k \in 2 .. Len(todo') : prev'[todo'[k]] = todo'[k - 1]
      <3>1. SUFFICES ASSUME NEW k \in 2 .. Len(todo')
                     PROVE  prev'[todo'[k]] = todo'[k - 1]
        OBVIOUS
      <3>2. Len(todo') \in Nat
        BY <1>0 DEF TypeOK
      <3>3. k \in 1 .. Len(todo') /\ k - 1 \in 1 .. Len(todo') /\ (k - 1) + 1 = k /\ (k + 1) - 1 = k
        BY <3>1, <3>2
      <3>4. todo'[k] = todo[k + 1] /\ todo'[k - 1] = todo[k] /\ todo[k + 1] # p
            /\ k + 1 \in 2 .. Len(todo) /\ k + 1 \in 1 .. Len(todo)
        BY <2>1, <3>3
      <3>5. prev[todo[k + 1]] = todo[k] /\ todo[k + 1] \in Pages
        BY <1>2, <1>3, <3>3, <3>4
      <3>6. QED
        BY <1>5, <3>4, <3>5
    <2>5. Len(todo') > 0 =>
            \A i \in Pages : \A l \in 1 .. Len(chain[i]) : prev'[todo'[1]] # chain[i][l]
      <3>1. SUFFICES ASSUME Len(todo') > 0
                     PROVE  prev'[todo'[1]] = p
        BY <1>6
      <3>2. Len(todo') \in Nat
        BY <1>0 DEF TypeOK
      <3>3. 1 \in 1 .. Len(todo')
        BY <3>1, <3>2
      <3>4. todo'[1] = todo[1 + 1] /\ todo[1 + 1] # p /\ 1 + 1 \in 2 .. Len(todo) /\ 1 + 1 \in 1 .. Len(todo)
        BY <2>1, <3>3
      <3>5. prev[todo[1 + 1]] = todo[(1 + 1) - 1] /\ todo[1 + 1] \in Pages
        BY <1>2, <1>3, <3>4
      <3>6. QED
        BY <1>5, <3>4, <3>5
    <2>6. wId \in known =>
            /\ wItem.blocks <= Len(chain[wId])
            /\ Len(chain[wId]) <= wItem.blocks + 1
            /\ \A k \in 1 .. wItem.blocks : data[chain[wId][k]] = <<wItem, k>>
      BY <1>1 DEF IInv, CutInv, Cutting
    <2>7. \A k \in 1 .. Len(todo') :
             /\ todo'[k] < lowest'
             /\ freed'[todo'[k]] = IF k = 1 /\ step' = "zero" THEN 1 ELSE 0
             /\ \A i \in Pages : \A l \in 1 .. Len(chain'[i]) : chain'[i][l] # todo'[k]
      BY <1>1, <2>2
    <2>8. wId' \in known' =>
            /\ wItem'.blocks <= Len(chain'[wId'])
            /\ Len(chain'[wId']) <= wItem'.blocks + 1
            /\ \A k \in 1 .. wItem'.blocks : data'[chain'[wId'][k]] = <<wItem', k>>
      BY <1>1, <2>6
    <2>9. Len(todo') > 0 =>
            \A i \in Pages : \A l \in 1 .. Len(chain'[i]) : prev'[todo'[1]] # chain'[i][l]
      BY <1>1, <2>5
    <2>10. QED
      BY <1>1, <2>3, <2>4, <2>7, <2>8, <2>9 DEF CutInv
  <1>17. QED
    BY <1>0, <1>8, <1>9, <1>10, <1>11, <1>12, <1>13, <1>14, <1>15, <1>16 DEF IInv

(* The flush has ended: the item it wrote is in the file. *)
LEMMA EndFlushInv ==
  ASSUME IInv, EndFlush
  PROVE  IInv'
  <1>0. TypeOK /\ ShapeInv /\ TypeOK' /\ ShapeInv'
    BY FreeType DEF IInv
  <1>1. /\ step = "free" /\ step' = "idle" /\ todo = <<>> /\ wId' = 0
        /\ saved' = [saved EXCEPT ![wId] = IF wId \in known THEN wItem ELSE Nothing]
        /\ data' = data
        /\ lowest' = lowest /\ freed' = freed /\ fileLowest' = fileLowest
        /\ next' = next /\ prev' = prev /\ chain' = chain
        /\ cached' = cached /\ dirty' = dirty /\ allowed' = allowed
        /\ forced' = forced /\ item' = item /\ known' = known
    BY DEF EndFlush, fileVars, pageVars
  <1>2. wId \in Pages /\ wId \notin cached /\ Len(todo) = 0
    BY <1>0, <1>1 DEF ShapeInv
  <1>3. /\ saved'[wId] = IF wId \in known THEN wItem ELSE Nothing
        /\ \A i \in Pages : i # wId => saved'[i] = saved[i]
    BY <1>0, <1>1, <1>2 DEF TypeOK
  <1>4. HeapInv'
    BY <1>1 DEF IInv, HeapInv
  <1>5. ChainInv'
    BY <1>1 DEF IInv, ChainInv
  <1>6. NextInv'
    BY <1>1, <1>2 DEF IInv, NextInv
  <1>7. PrevInv'
    BY <1>1 DEF IInv, PrevInv
  <1>8. CacheInv'
    <2>1. wId \in known => saved'[wId] # Nothing
      BY <1>1, <1>3, ItemFacts DEF IInv, FlushInv
    <2>2. QED
      BY <1>1, <1>2, <1>3, <2>1 DEF IInv, CacheInv
  <1>9. SavedInv'
    <2>1. SUFFICES ASSUME NEW i \in Pages, saved'[i] # Nothing
                   PROVE  /\ i \in known
                          /\ saved'[i].blocks <= Len(chain[i])
                          /\ Len(chain[i]) <= saved'[i].blocks + 1
                          /\ \A k \in 1 .. saved'[i].blocks :
                               data[chain[i][k]] = <<saved'[i], k>>
      BY <1>1 DEF SavedInv
    <2>2. CASE i = wId
      <3>1. wId \in known /\ saved'[wId] = wItem
        BY <1>3, <2>1, <2>2
      <3>2. /\ wItem.blocks <= Len(chain[wId])
            /\ Len(chain[wId]) <= wItem.blocks + 1
            /\ \A k \in 1 .. wItem.blocks : data[chain[wId][k]] = <<wItem, k>>
        BY <1>1, <3>1 DEF IInv, CutInv, Cutting
      <3>3. QED
        BY <2>2, <3>1, <3>2
    <2>3. CASE i # wId
      <3>1. saved'[i] = saved[i]
        BY <1>3, <2>3
      <3>2. QED
        BY <2>1, <3>1 DEF IInv, SavedInv
    <2>4. QED
      BY <2>2, <2>3
  <1>10. FlushInv' /\ WriteInv' /\ CutInv'
    BY <1>1 DEF FlushInv, WriteInv, CutInv, Writing, Cutting
  <1>11. QED
    BY <1>0, <1>4, <1>5, <1>6, <1>7, <1>8, <1>9, <1>10 DEF IInv

-----------------------------------------------------------------------------
(* A crash keeps the chains of the saved items, which no flush was at. *)
LEMMA CrashInv ==
  ASSUME IInv, Crash
  PROVE  IInv'
  <1>0. TypeOK /\ ShapeInv /\ TypeOK' /\ ShapeInv'
    BY CrashType DEF IInv
  <1>1. /\ lowest' = LowestOnOpen(fileLowest) /\ fileLowest' = fileLowest
        /\ freed' = [p \in Pages |-> 0]
        /\ cached' = {} /\ dirty' = {} /\ allowed' = {} /\ forced' = {}
        /\ step' = "idle" /\ wId' = 0 /\ known' = {id \in known : saved[id] # Nothing}
        /\ chain' = [p \in Pages |-> IF saved[p] # Nothing THEN chain[p] ELSE <<>>]
        /\ next' = next /\ prev' = prev /\ data' = data /\ saved' = saved
    BY DEF Crash, fileVars
  <1>2. lowest' = lowest
    BY <1>1 DEF IInv, HeapInv
  <1>3. \A i \in Pages : \A k \in 1 .. Len(chain'[i]) :
          /\ saved[i] # Nothing /\ chain'[i] = chain[i] /\ k \in 1 .. Len(chain[i])
          /\ step # "idle" => i # wId
          /\ chain[i][k] \in Pages
    <2>1. SUFFICES ASSUME NEW i \in Pages, NEW k \in 1 .. Len(chain'[i])
                   PROVE  /\ saved[i] # Nothing /\ chain'[i] = chain[i]
                          /\ step # "idle" => i # wId
      BY <1>0, ChainFacts
    <2>2. chain'[i] = IF saved[i] # Nothing THEN chain[i] ELSE <<>>
      BY <1>1
    <2>3. Len(<<>>) = 0
      OBVIOUS
    <2>4. saved[i] # Nothing /\ chain'[i] = chain[i]
      BY <2>1, <2>2, <2>3
    <2>5. QED
      BY <2>4 DEF IInv, FlushInv
  <1>4. HeapInv'
    BY <1>1, <1>2 DEF HeapInv
  <1>5. ChainInv'
    <2>1. ChainInv
      BY DEF IInv
    <2>2. \A i \in Pages : \A k \in 1 .. Len(chain'[i]) :
            chain'[i][k] < lowest' /\ freed'[chain'[i][k]] = 0
      BY <1>1, <1>2, <1>3, <2>1 DEF ChainInv
    <2>3. \A i, j \in Pages : \A k \in 1 .. Len(chain'[i]), l \in 1 .. Len(chain'[j]) :
            chain'[i][k] = chain'[j][l] => i = j /\ k = l
      BY <1>3, <2>1 DEF ChainInv
    <2>4. \A i \in Pages : Len(chain'[i]) > 0 => chain'[i][1] = i
      <3>1. SUFFICES ASSUME NEW i \in Pages, Len(chain'[i]) > 0 PROVE chain'[i][1] = i
        OBVIOUS
      <3>2. 1 \in 1 .. Len(chain'[i])
        BY <1>0, <3>1 DEF TypeOK
      <3>3. QED
        BY <1>3, <2>1, <3>1, <3>2 DEF ChainInv
    <2>5. QED
      BY <2>2, <2>3, <2>4 DEF ChainInv
  <1>6. NextInv'
    <2>1. SUFFICES ASSUME NEW i \in Pages, NEW k \in 1 .. Len(chain'[i])
                   PROVE  \/ k < Len(chain'[i]) /\ next[chain'[i][k]] = chain'[i][k + 1]
                          \/ k = Len(chain'[i]) /\ next[chain'[i][k]] = 0
      BY <1>1 DEF NextInv
    <2>2. QED
      BY <1>3, <2>1 DEF IInv, NextInv
  <1>7. PrevInv'
    <2>1. SUFFICES ASSUME NEW i \in Pages, NEW k \in 1 .. Len(chain'[i])
                   PROVE  \/ k = 1 /\ prev[chain'[i][k]] = 0
                          \/ k > 1 /\ prev[chain'[i][k]] = chain'[i][k - 1]
      BY <1>1 DEF PrevInv
    <2>2. QED
      BY <1>3, <2>1 DEF IInv, PrevInv
  <1>8. \A i \in Pages : saved[i] # Nothing => chain'[i] = chain[i] /\ i \in known'
    BY <1>1 DEF IInv, SavedInv
  <1>9. CacheInv'
    <2>1. \A i \in known' : i \in Pages => Len(chain'[i]) > 0 /\ saved'[i] # Nothing
      BY <1>1, <1>8 DEF IInv, CacheInv
    <2>2. QED
      BY <1>1, <2>1 DEF CacheInv
  <1>10. SavedInv'
    BY <1>0, <1>1, <1>8, SavedStays DEF IInv
  <1>11. FlushInv' /\ WriteInv' /\ CutInv'
    BY <1>1 DEF FlushInv, WriteInv, CutInv, Writing, Cutting
  <1>12. QED
    BY <1>0, <1>4, <1>5, <1>6, <1>7, <1>9, <1>10, <1>11 DEF IInv

-----------------------------------------------------------------------------
(* The invariant holds at first, and each step keeps it. *)

LEMMA InitInv == Init => IInv
  <1>1. SUFFICES ASSUME Init PROVE IInv
    OBVIOUS
  <1>2. TypeOK /\ ShapeInv
    BY <1>1, InitType
  <1>3. /\ \A id \in Pages : chain[id] = <<>> /\ Len(chain[id]) = 0 /\ saved[id] = Nothing
        /\ \A p \in Pages : freed[p] = 0
        /\ known = {} /\ cached = {} /\ dirty = {} /\ allowed = {} /\ forced = {}
        /\ step = "idle" /\ lowest = LowestOnOpen(fileLowest)
    BY <1>1 DEF Init
  <1>4. HeapInv
    BY <1>3 DEF HeapInv
  <1>5. ChainInv
    BY <1>3 DEF ChainInv
  <1>6. NextInv /\ PrevInv
    BY <1>3 DEF NextInv, PrevInv
  <1>7. CacheInv /\ SavedInv
    BY <1>3 DEF CacheInv, SavedInv
  <1>8. FlushInv /\ WriteInv /\ CutInv
    BY <1>3 DEF FlushInv, WriteInv, CutInv, Writing, Cutting
  <1>9. QED
    BY <1>2, <1>4, <1>5, <1>6, <1>7, <1>8 DEF IInv

LEMMA NextIInv == IInv /\ [Next]_vars => IInv'
  <1>1. SUFFICES ASSUME IInv, [Next]_vars PROVE IInv'
    OBVIOUS
  <1>2. CASE \E id \in Pages, it \in Items : NewPage(id, it)
    BY <1>1, <1>2, NewPageInv
  <1>3. CASE \E id \in Pages : Open(id)
    BY <1>1, <1>3, OpenInv
  <1>4. CASE \E id \in Pages : \/ \E it \in Items : Write(id, it)
                              \/ \E emptied \in BOOLEAN : AllowFree(id, emptied)
                              \/ ForceFree(id)
    BY <1>1, <1>4, CachedInv
  <1>5. CASE \E id \in Pages : EvictClean(id) \/ EvictForced(id) \/ EvictDirty(id)
    BY <1>1, <1>5, EvictCleanInv, EvictForcedInv, EvictDirtyInv
  <1>6. CASE FlushStep
    BY <1>1, <1>6, WriteBlockInv, GrowInv, LinkNextInv, LinkPrevInv, EndDataInv,
       FreePageInv, ZeroHeaderInv, EndFlushInv DEF FlushStep
  <1>7. CASE Crash
    BY <1>1, <1>7, CrashInv
  <1>8. CASE UNCHANGED vars
    <2>1. UNCHANGED <<lowest, freed, fileLowest, next, prev, data, cached, item, dirty,
                      allowed, forced, chain, known, saved, step, wId, wItem, wBlock,
                      wAllowed, todo>>
      BY <1>8 DEF vars, fileVars, pageVars, writeVars
    <2>2. TypeOK' /\ ShapeInv'
      BY <1>1, NextType DEF IInv
    <2>3. HeapInv' /\ ChainInv' /\ NextInv' /\ PrevInv'
      BY <1>1, <2>1, FileStays
    <2>4. CacheInv' /\ SavedInv'
      BY <1>1, <2>1 DEF IInv, CacheInv, SavedInv
    <2>5. FlushInv' /\ WriteInv'
      BY <1>1, <2>1 DEF IInv, FlushInv, WriteInv, Writing
    <2>6. CutInv'
      BY <1>1, <2>1 DEF IInv, CutInv, Cutting
    <2>7. QED
      BY <2>2, <2>3, <2>4, <2>5, <2>6 DEF IInv
  <1>9. QED
    BY <1>1, <1>2, <1>3, <1>4, <1>5, <1>6, <1>7, <1>8 DEF Next

(* IInv is an invariant of the specification. *)
THEOREM FileInvariant == Spec => []IInv
  <1>1. IInv /\ [Next]_vars => IInv'
    BY NextIInv
  <1>2. QED
    BY <1>1, InitInv, PTL DEF Spec

-----------------------------------------------------------------------------
(* What follows for the pages and their links. *)

LEMMA IInvNoSharedPage == IInv => NoSharedPage
  <1>1. SUFFICES ASSUME IInv PROVE NoSharedPage
    OBVIOUS
  <1>2. TypeOK /\ ShapeInv /\ HeapInv /\ ChainInv /\ CutInv
    BY <1>1 DEF IInv
  <1>3. \A id \in Pages : \A j, k \in 1 .. Len(chain[id]) :
          chain[id][j] = chain[id][k] => j = k
    BY <1>2 DEF ChainInv
  <1>4. \A i, j \in Pages : i # j => Elems(chain[i]) \cap Elems(chain[j]) = {}
    BY <1>2 DEF ChainInv, Elems
  <1>5. \A p \in Pages : freed[p] <= 1
    BY <1>2 DEF HeapInv
  <1>6. \A p \in Pages : p \in FreePages => freed[p] = 1 /\ ~ InSomeChain(p)
    <2>1. \A p \in Pages : p \in FreePages => freed[p] = 1
      BY <1>2, <1>5 DEF FreePages, TypeOK
    <2>2. QED
      BY <1>2, <2>1 DEF ChainInv, InSomeChain, Elems
  <1>7. \A p \in Freeing : p \in Pages /\ freed[p] = 0 /\ ~ InSomeChain(p)
    <2>1. SUFFICES ASSUME NEW p \in Freeing
                   PROVE  p \in Pages /\ freed[p] = 0 /\ ~ InSomeChain(p)
      OBVIOUS
    <2>2. Cutting /\ \E k \in 1 .. Len(todo) : p = todo[k] /\ (step = "zero" => k # 1)
      <3>1. CASE step = "free"
        BY <2>1, <3>1 DEF Freeing, Elems, Cutting
      <3>2. CASE step = "zero"
        <4>1. todo \in Seq(Pages) /\ todo # <<>>
          BY <1>2, <3>2 DEF TypeOK, ShapeInv
        <4>2. PICK k \in 1 .. Len(Tail(todo)) : p = Tail(todo)[k]
          BY <2>1, <3>2 DEF Freeing, Elems
        <4>3. Len(Tail(todo)) = Len(todo) - 1 /\ Tail(todo)[k] = todo[k + 1]
          BY <4>1, HeadTailProperties
        <4>4. k + 1 \in 1 .. Len(todo) /\ k + 1 # 1 /\ p = todo[k + 1]
          BY <4>1, <4>2, <4>3
        <4>5. QED
          BY <3>2, <4>4 DEF Cutting
      <3>3. QED
        BY <2>1, <3>1, <3>2 DEF Freeing
    <2>3. PICK k \in 1 .. Len(todo) : p = todo[k] /\ (step = "zero" => k # 1)
      BY <2>2
    <2>4. freed[p] = 0 /\ \A id \in Pages : \A l \in 1 .. Len(chain[id]) : chain[id][l] # p
      BY <1>2, <2>2, <2>3 DEF CutInv
    <2>5. p \in Pages
      BY <1>2, <2>3 DEF TypeOK
    <2>6. QED
      BY <2>4, <2>5 DEF InSomeChain, Elems
  <1>8. FreePages \subseteq Pages
    BY DEF FreePages
  <1>9. FreePages \cap Freeing = {}
    <2>1. \A p \in FreePages : freed[p] # 0
      BY DEF FreePages
    <2>2. QED
      BY <1>7, <2>1
  <1>10. \A p \in FreePages \cup Freeing : ~InSomeChain(p)
    BY <1>6, <1>7, <1>8
  <1>11. QED
    BY <1>3, <1>4, <1>5, <1>9, <1>10 DEF NoSharedPage

LEMMA IInvLinksMatch == IInv => LinksMatch
  <1>1. SUFFICES ASSUME IInv, NEW id \in Pages, chain[id] # <<>>
                 PROVE
      /\ chain[id][1] = id /\ prev[id] = 0
      /\ \A k \in 1 .. Len(chain[id]) - 1 :
           /\ \/ next[chain[id][k]] = chain[id][k + 1]
              \/ wId = id /\ k = Len(chain[id]) - 1 /\ step = "linkNext"
           /\ \/ prev[chain[id][k + 1]] = chain[id][k]
              \/ wId = id /\ k = Len(chain[id]) - 1 /\ step \in {"linkNext", "linkPrev"}
      /\ \/ next[Last(chain[id])] = 0
         \/ /\ wId = id /\ step = "free" /\ todo # <<>>
            /\ next[Last(chain[id])] = Head(todo)
    BY DEF LinksMatch
  <1> DEFINE c == chain[id]
             n == Len(chain[id])
  <1>2. TypeOK /\ ChainInv /\ NextInv /\ PrevInv
    BY <1>1 DEF IInv
  <1>3. c \in Seq(Pages) /\ n \in Nat /\ n > 0 /\ 1 \in 1 .. n /\ n \in 1 .. n
    BY <1>1, <1>2, ChainFacts
  <1>4. c[1] = id /\ prev[id] = 0
    BY <1>2, <1>3 DEF ChainInv, PrevInv
  <1>5. \A k \in 1 .. n - 1 :
          \/ next[c[k]] = c[k + 1]
          \/ wId = id /\ k = n - 1 /\ step = "linkNext"
    BY <1>2, <1>3 DEF NextInv
  <1>6. \A k \in 1 .. n - 1 :
          \/ prev[c[k + 1]] = c[k]
          \/ wId = id /\ k = n - 1 /\ step \in {"linkNext", "linkPrev"}
    <2>1. SUFFICES ASSUME NEW k \in 1 .. n - 1
                   PROVE  \/ prev[c[k + 1]] = c[k]
                          \/ wId = id /\ k = n - 1 /\ step \in {"linkNext", "linkPrev"}
      OBVIOUS
    <2>2. k + 1 \in 1 .. n /\ k + 1 # 1 /\ (k + 1) - 1 = k
      BY <1>3
    <2>3. \/ prev[c[k + 1]] = c[(k + 1) - 1]
          \/ wId = id /\ k + 1 = n /\ step \in {"linkNext", "linkPrev"}
      BY <1>2, <2>2 DEF PrevInv
    <2>4. QED
      BY <1>3, <2>2, <2>3
  <1>7. \/ next[c[n]] = 0
        \/ wId = id /\ step = "free" /\ Len(todo) > 0 /\ next[c[n]] = todo[1]
    BY <1>2, <1>3 DEF NextInv
  <1>8. Len(todo) > 0 => todo # <<>> /\ Head(todo) = todo[1]
    BY <1>2 DEF TypeOK
  <1>9. QED
    BY <1>4, <1>5, <1>6, <1>7, <1>8 DEF Last

LEMMA IInvSavedReadable == IInv => SavedReadable
  <1>1. SUFFICES ASSUME IInv, NEW id \in known, saved[id] # Nothing
                 PROVE  Holds(chain[id], saved[id])
    BY DEF SavedReadable
  <1>2. id \in Pages /\ saved[id] \in AnyItem /\ Len(chain[id]) \in Nat
    BY <1>1, ChainFacts DEF IInv, TypeOK
  <1>3. /\ saved[id].blocks <= Len(chain[id])
        /\ \A k \in 1 .. saved[id].blocks : data[chain[id][k]] = <<saved[id], k>>
    BY <1>1, <1>2 DEF IInv, SavedInv
  <1>4. Len(chain[id]) >= saved[id].blocks
    BY <1>2, <1>3, ItemFacts
  <1>5. QED
    BY <1>3, <1>4 DEF Holds

(* A physical page has at most one use: a place in one chain, on the heap  *)
(* of freed pages, or in the list a flush is about to free.  alloc_new     *)
(* never hands out a page that is in use, also after a crash.              *)
THEOREM PagesHaveOneUse == Spec => []NoSharedPage
  BY FileInvariant, IInvNoSharedPage, PTL

(* The headers in the file agree with component_pages in both directions,  *)
(* but for the link a flush is making or cutting.                          *)
THEOREM HeadersMatchChains == Spec => []LinksMatch
  BY FileInvariant, IInvLinksMatch, PTL

(* Every item whose flush has ended, with none begun on its page since, is *)
(* whole in the file, whatever was written, freed or lost after it.        *)
THEOREM SavedItemsSurvive == Spec => []SavedReadable
  BY FileInvariant, IInvSavedReadable, PTL

-----------------------------------------------------------------------------
(* No page is lost. *)

(* The pages below lowest, and what uses them, are as they were. *)
LEMMA SameUses ==
  ASSUME LeakInv, UNCHANGED <<lowest, freed, chain, crashes>>,
         \A p \in Pages : HasUse(p) => HasUse(p)'
  PROVE  LeakInv'
  BY DEF LeakInv

(* The page alloc_new hands out is the only one that is new below lowest,   *)
(* and no other page leaves the heap.                                      *)
LEMMA AllocKeepsUses ==
  ASSUME IInv, step \in {"idle", "write"}, NEW p, Alloc(p), LeakInv,
         crashes' = crashes,
         \A q \in Pages \ {p} : \A id \in Pages : \A k \in 1 .. Len(chain[id]) :
           chain[id][k] = q => HasUse(q)',
         HasUse(p)'
  PROVE  LeakInv'
  <1>1. /\ p \in Pages /\ \A q \in Pages \ {p} : freed'[q] = freed[q]
    BY AllocFresh
  <1>2. lowest \in Nat /\ (lowest' = lowest \/ (p = lowest /\ lowest' = p + 1))
    BY <1>1 DEF Alloc, CanAlloc, IInv, TypeOK
  <1>3. SUFFICES ASSUME crashes = 0, NEW q \in Pages, q < lowest', q # p
                 PROVE  HasUse(q)'
    BY DEF LeakInv
  <1>4. q \in Nat /\ q < lowest
    BY <1>1, <1>2, <1>3, PageFacts
  <1>5. HasUse(q)
    BY <1>3, <1>4 DEF LeakInv
  <1>6. CASE freed[q] > 0
    BY <1>1, <1>3, <1>6 DEF HasUse
  <1>7. QED
    BY <1>3, <1>5, <1>6 DEF HasUse

LEMMA NewPageKeepsUses ==
  ASSUME IInv, LeakInv, NEW id \in Pages, NEW it \in Items, NewPage(id, it)
  PROVE  LeakInv'
  <1>1. /\ step = "idle" /\ Alloc(id) /\ crashes' = crashes
        /\ chain' = [chain EXCEPT ![id] = <<id>>]
    BY DEF NewPage
  <1>2. chain[id] = <<>> /\ chain \in [Pages -> Seq(Pages)]
    BY <1>1, AllocFresh DEF IInv, TypeOK
  <1>3. chain'[id] = <<id>> /\ \A i \in Pages \ {id} : chain'[i] = chain[i]
    BY <1>1, <1>2
  <1>4. HasUse(id)'
    <2>1. 1 \in 1 .. Len(chain'[id]) /\ chain'[id][1] = id
      BY <1>3
    <2>2. QED
      BY <2>1 DEF HasUse
  <1>5. ASSUME NEW q \in Pages, NEW i \in Pages, NEW k \in 1 .. Len(chain[i]),
               chain[i][k] = q
        PROVE  HasUse(q)'
    <2>1. i # id
      BY <1>2
    <2>2. k \in 1 .. Len(chain'[i]) /\ chain'[i][k] = q
      BY <1>3, <1>5, <2>1
    <2>3. QED
      BY <2>2 DEF HasUse
  <1>6. QED
    BY <1>1, <1>4, <1>5, AllocKeepsUses

LEMMA GrowKeepsUses ==
  ASSUME IInv, LeakInv, NEW p \in Pages, GrowChain(p)
  PROVE  LeakInv'
  <1>1. /\ step = "write" /\ Alloc(p) /\ crashes' = crashes
        /\ chain' = [chain EXCEPT ![wId] = Append(chain[wId], p)]
    BY DEF GrowChain, BlocksLeft
  <1>2. wId \in Pages /\ chain \in [Pages -> Seq(Pages)]
    BY <1>1 DEF IInv, TypeOK, ShapeInv
  <1>3. /\ chain'[wId] = Append(chain[wId], p)
        /\ \A i \in Pages \ {wId} : chain'[i] = chain[i]
    BY <1>1, <1>2
  <1>4. chain[wId] \in Seq(Pages) /\ Len(chain[wId]) \in Nat
    BY <1>2
  <1>5. /\ Len(chain'[wId]) = Len(chain[wId]) + 1
        /\ chain'[wId][Len(chain[wId]) + 1] = p
        /\ \A k \in 1 .. Len(chain[wId]) : chain'[wId][k] = chain[wId][k]
    BY <1>3, <1>4, AppendProperties
  <1>6. HasUse(p)'
    <2>1. Len(chain[wId]) + 1 \in 1 .. Len(chain'[wId])
      BY <1>4, <1>5
    <2>2. QED
      BY <1>2, <1>5, <2>1 DEF HasUse
  <1>7. ASSUME NEW q \in Pages, NEW i \in Pages, NEW k \in 1 .. Len(chain[i]),
               chain[i][k] = q
        PROVE  HasUse(q)'
    <2>1. k \in 1 .. Len(chain'[i]) /\ chain'[i][k] = q
      BY <1>3, <1>4, <1>5, <1>7
    <2>2. QED
      BY <2>1 DEF HasUse
  <1>8. QED
    BY <1>1, <1>6, <1>7, AllocKeepsUses

(* The pages of a chain that is force-freed wait to be freed. *)
LEMMA EvictForcedKeepsUses ==
  ASSUME IInv, LeakInv, NEW id \in Pages, EvictForced(id)
  PROVE  LeakInv'
  <1>1. /\ step = "idle" /\ step' = "free" /\ todo' = chain[id]
        /\ chain' = [chain EXCEPT ![id] = <<>>]
        /\ lowest' = lowest /\ freed' = freed /\ crashes' = crashes
    BY DEF EvictForced
  <1>2. \A i \in Pages \ {id} : chain'[i] = chain[i]
    BY <1>1 DEF IInv, TypeOK
  <1>3. ASSUME NEW p \in Pages, HasUse(p) PROVE HasUse(p)'
    <2>1. CASE freed[p] > 0
      BY <1>1, <2>1 DEF HasUse
    <2>2. CASE \E i \in Pages : \E k \in 1 .. Len(chain[i]) : chain[i][k] = p
      <3>1. PICK i \in Pages : \E k \in 1 .. Len(chain[i]) : chain[i][k] = p
        BY <2>2
      <3>2. CASE i = id
        BY <1>1, <3>1, <3>2 DEF HasUse
      <3>3. CASE i # id
        BY <1>2, <3>1, <3>3 DEF HasUse
      <3>4. QED
        BY <3>2, <3>3
    <2>3. QED
      BY <1>1, <1>3, <2>1, <2>2 DEF HasUse
  <1>4. QED
    BY <1>1, <1>3 DEF LeakInv

(* What EndData cuts from the chain waits to be freed. *)
LEMMA EndDataKeepsUses ==
  ASSUME IInv, LeakInv, EndData
  PROVE  LeakInv'
  <1>1. /\ step = "write" /\ step' = "free" /\ todo' = LeftOver
        /\ chain' = [chain EXCEPT ![wId] = SubSeq(chain[wId], 1, Kept)]
        /\ lowest' = lowest /\ freed' = freed /\ crashes' = crashes
    BY DEF EndData, Kept, fileVars
  <1>2. /\ wId \in Pages /\ chain \in [Pages -> Seq(Pages)]
        /\ chain[wId] \in Seq(Pages) /\ Len(chain[wId]) \in Nat
    BY <1>1 DEF IInv, TypeOK, ShapeInv
  <1>3. /\ Len(LeftOver) \in Nat /\ Kept \in Nat /\ Kept <= Len(chain[wId])
        /\ Kept + Len(LeftOver) = Len(chain[wId])
        /\ \A k \in 1 .. Len(LeftOver) : LeftOver[k] = chain[wId][Kept + k]
    BY <1>2, LeftOverFacts DEF Kept
  <1>4. /\ chain'[wId] = SubSeq(chain[wId], 1, Kept)
        /\ \A i \in Pages \ {wId} : chain'[i] = chain[i]
    BY <1>1, <1>2
  <1>5. /\ Len(chain'[wId]) = Kept
        /\ \A k \in 1 .. Kept : chain'[wId][k] = chain[wId][k]
    BY <1>2, <1>3, <1>4, SubSeqProperties
  <1>6. ASSUME NEW p \in Pages, HasUse(p) PROVE HasUse(p)'
    <2>1. CASE freed[p] > 0
      BY <1>1, <2>1 DEF HasUse
    <2>2. CASE \E i \in Pages : \E k \in 1 .. Len(chain[i]) : chain[i][k] = p
      <3>1. PICK i \in Pages : \E k \in 1 .. Len(chain[i]) : chain[i][k] = p
        BY <2>2
      <3>2. CASE i # wId
        BY <1>4, <3>1, <3>2 DEF HasUse
      <3>3. CASE i = wId
        <4>1. PICK k \in 1 .. Len(chain[wId]) : chain[wId][k] = p
          BY <3>1, <3>3
        <4>2. CASE k <= Kept
          <5>1. k \in 1 .. Len(chain'[wId]) /\ chain'[wId][k] = p
            BY <1>3, <1>5, <4>1, <4>2
          <5>2. QED
            BY <1>2, <5>1 DEF HasUse
        <4>3. CASE ~(k <= Kept)
          <5>1. PICK j \in Nat : j = k - Kept
            BY <1>3, <4>1, <4>3
          <5>2. j \in 1 .. Len(LeftOver) /\ Kept + j = k
            BY <1>2, <1>3, <4>1, <4>3, <5>1
          <5>3. LeftOver[j] = p
            BY <1>3, <4>1, <5>2
          <5>4. QED
            BY <1>1, <5>2, <5>3 DEF HasUse
        <4>4. QED
          BY <4>2, <4>3
      <3>4. QED
        BY <3>2, <3>3
    <2>3. QED
      BY <1>1, <1>6, <2>1, <2>2 DEF HasUse
  <1>7. QED
    BY <1>1, <1>6 DEF LeakInv

(* A page whose turn it is to be freed goes on the heap. *)
LEMMA FreePageKeepsUses ==
  ASSUME IInv, LeakInv, FreePage
  PROVE  LeakInv'
  <1>1. /\ step = "free" /\ step' = "zero" /\ todo # <<>> /\ todo' = todo
        /\ freed' = [freed EXCEPT ![Head(todo)] = freed[Head(todo)] + 1]
        /\ lowest' = lowest /\ chain' = chain /\ crashes' = crashes
    BY DEF FreePage
  <1>2. /\ todo \in Seq(Pages) /\ Len(todo) \in Nat /\ Len(todo) > 0
        /\ Head(todo) = todo[1] /\ todo[1] \in Pages
        /\ freed \in [Pages -> Nat]
    BY <1>1 DEF IInv, TypeOK
  <1>3. ASSUME NEW p \in Pages, HasUse(p) PROVE HasUse(p)'
    <2>1. CASE freed[p] > 0 \/ p = todo[1]
      <3>1. freed'[p] > 0
        BY <1>1, <1>2, <2>1
      <3>2. QED
        BY <3>1 DEF HasUse
    <2>2. CASE \E k \in 1 .. Len(todo) : todo[k] = p /\ p # todo[1]
      <3>1. PICK k \in 1 .. Len(todo) : todo[k] = p /\ p # todo[1]
        BY <2>2
      <3>2. k \in 2 .. Len(todo)
        BY <1>2, <3>1
      <3>3. QED
        BY <1>1, <3>1, <3>2 DEF HasUse
    <2>3. CASE \E i \in Pages : \E k \in 1 .. Len(chain[i]) : chain[i][k] = p
      BY <1>1, <2>3 DEF HasUse
    <2>4. QED
      BY <1>1, <1>3, <2>1, <2>2, <2>3 DEF HasUse
  <1>4. QED
    BY <1>1, <1>3 DEF LeakInv

LEMMA ZeroHeaderKeepsUses ==
  ASSUME IInv, LeakInv, ZeroHeader
  PROVE  LeakInv'
  <1>1. /\ step = "zero" /\ step' = "free" /\ todo' = Tail(todo)
        /\ lowest' = lowest /\ freed' = freed /\ chain' = chain /\ crashes' = crashes
    BY DEF ZeroHeader
  <1>2. todo \in Seq(Pages) /\ Len(todo) \in Nat /\ Len(todo) > 0
    BY <1>1 DEF IInv, TypeOK, ShapeInv
  <1>3. /\ Len(todo') = Len(todo) - 1
        /\ \A k \in 1 .. Len(todo') : todo'[k] = todo[k + 1]
    <2>1. todo # <<>>
      BY <1>2
    <2>2. QED
      BY <1>1, <1>2, <2>1, HeadTailProperties
  <1>4. ASSUME NEW p \in Pages, HasUse(p) PROVE HasUse(p)'
    <2>1. CASE \E k \in 2 .. Len(todo) : todo[k] = p
      <3>1. PICK k \in 2 .. Len(todo) : todo[k] = p
        BY <2>1
      <3>2. PICK j \in Nat : j = k - 1
        BY <1>2, <3>1
      <3>3. j \in 1 .. Len(todo') /\ j + 1 = k
        BY <1>2, <1>3, <3>1, <3>2
      <3>4. QED
        BY <1>1, <1>3, <3>1, <3>3 DEF HasUse
    <2>2. CASE freed[p] > 0 \/ \E i \in Pages : \E k \in 1 .. Len(chain[i]) : chain[i][k] = p
      BY <1>1, <2>2 DEF HasUse
    <2>3. QED
      BY <1>1, <1>4, <2>1, <2>2 DEF HasUse
  <1>5. QED
    BY <1>1, <1>4 DEF LeakInv

LEMMA NextKeepsUses == IInv /\ LeakInv /\ [Next]_vars => LeakInv'
  <1>1. SUFFICES ASSUME IInv, LeakInv, [Next]_vars PROVE LeakInv'
    OBVIOUS
  <1>2. CASE \E id \in Pages, it \in Items : NewPage(id, it)
    BY <1>1, <1>2, NewPageKeepsUses
  <1>3. CASE \E id \in Pages : Open(id)
    <2>1. chain' = chain
      BY <1>1, <1>3, OpenInv
    <2>2. UNCHANGED <<lowest, freed, crashes, step, todo>>
      BY <1>3 DEF Open
    <2>3. QED
      BY <1>1, <2>1, <2>2, SameUses DEF HasUse
  <1>4. CASE \E id \in Pages : \/ \E it \in Items : Write(id, it)
                              \/ \E emptied \in BOOLEAN : AllowFree(id, emptied)
                              \/ ForceFree(id)
                              \/ EvictClean(id)
    <2>1. UNCHANGED <<lowest, freed, chain, crashes, step, todo>>
      BY <1>4 DEF Write, AllowFree, ForceFree, EvictClean
    <2>2. QED
      BY <1>1, <2>1, SameUses DEF HasUse
  <1>5. CASE \E id \in Pages : EvictForced(id)
    BY <1>1, <1>5, EvictForcedKeepsUses
  <1>6. CASE \/ \E id \in Pages : EvictDirty(id)
             \/ WriteBlock \/ LinkNext \/ LinkPrev
    <2>1. /\ UNCHANGED <<lowest, freed, chain, crashes>>
          /\ step \notin {"free", "zero"} /\ step' \notin {"free", "zero"}
      BY <1>6 DEF EvictDirty, WriteBlock, BlocksLeft, LinkNext, LinkPrev
    <2>2. QED
      BY <1>1, <2>1, SameUses DEF HasUse
  <1>7. CASE \E p \in Pages : GrowChain(p)
    BY <1>1, <1>7, GrowKeepsUses
  <1>8. CASE EndData \/ FreePage \/ ZeroHeader
    BY <1>1, <1>8, EndDataKeepsUses, FreePageKeepsUses, ZeroHeaderKeepsUses
  <1>9. CASE EndFlush
    <2>1. /\ UNCHANGED <<lowest, freed, chain, crashes>>
          /\ step = "free" /\ todo = <<>> /\ Len(todo) = 0
      BY <1>9 DEF EndFlush
    <2>2. \A k \in 1 .. Len(todo) : FALSE
      BY <2>1
    <2>3. QED
      BY <1>1, <2>1, <2>2, SameUses DEF HasUse
  <1>10. CASE Crash
    <2>1. crashes' # 0
      BY <1>1, <1>10 DEF Crash, IInv, TypeOK
    <2>2. QED
      BY <2>1 DEF LeakInv
  <1>11. CASE UNCHANGED vars
    <2>1. UNCHANGED <<lowest, freed, chain, crashes, step, todo>>
      BY <1>11 DEF vars
    <2>2. QED
      BY <1>1, <2>1, SameUses DEF HasUse
  <1>12. QED
    BY <1>1, <1>2, <1>3, <1>4, <1>5, <1>6, <1>7, <1>8, <1>9, <1>10, <1>11
       DEF Next, FlushStep

LEMMA UsesNoLeak == IInv /\ LeakInv => NoLeak
  <1>1. SUFFICES ASSUME IInv, LeakInv, crashes = 0, NEW p \in 1 .. lowest - 1
                 PROVE  freed[p] > 0 \/ p \in Freeing \/ InSomeChain(p)
    BY DEF NoLeak
  <1>2. p \in Pages /\ p < lowest
    BY <1>1, ConstantsOK DEF IInv, TypeOK, Pages
  <1>3. HasUse(p)
    BY <1>1, <1>2 DEF LeakInv
  <1>4. CASE \E id \in Pages : \E k \in 1 .. Len(chain[id]) : chain[id][k] = p
    BY <1>4 DEF InSomeChain, Elems
  <1>5. CASE step = "free" /\ \E k \in 1 .. Len(todo) : todo[k] = p
    BY <1>5 DEF Freeing, Elems
  <1>6. CASE step = "zero" /\ \E k \in 2 .. Len(todo) : todo[k] = p
    <2>1. PICK k \in 2 .. Len(todo) : todo[k] = p
      BY <1>6
    <2>2. todo \in Seq(Pages) /\ Len(todo) \in Nat /\ todo # <<>>
      BY <1>1, <2>1 DEF IInv, TypeOK
    <2>3. /\ Len(Tail(todo)) = Len(todo) - 1
          /\ \A j \in 1 .. Len(Tail(todo)) : Tail(todo)[j] = todo[j + 1]
      BY <2>2, HeadTailProperties
    <2>4. PICK j \in Nat : j = k - 1
      BY <2>1, <2>2
    <2>5. j \in 1 .. Len(Tail(todo)) /\ j + 1 = k
      BY <2>1, <2>2, <2>3, <2>4
    <2>6. Tail(todo)[j] = p
      BY <2>1, <2>3, <2>5
    <2>7. QED
      BY <1>6, <2>5, <2>6 DEF Freeing, Elems
  <1>7. QED
    BY <1>3, <1>4, <1>5, <1>6 DEF HasUse

(* Only a crash can lose a page: until then each page below lowest is on   *)
(* the heap, in a chain, or about to be freed.                             *)
THEOREM NoPageLost == Spec => []NoLeak
  <1>1. Init => LeakInv
    <2>1. SUFFICES ASSUME Init, NEW p \in Pages PROVE ~(p < lowest)
      BY DEF LeakInv
    <2>2. lowest = 1
      BY <2>1 DEF Init, LowestOnOpen
    <2>3. QED
      BY <2>2, ConstantsOK DEF Pages
  <1>2. IInv /\ LeakInv /\ [Next]_vars => LeakInv'
    BY NextKeepsUses
  <1>3. IInv /\ LeakInv => NoLeak
    BY UsesNoLeak
  <1>4. QED
    BY <1>1, <1>2, <1>3, FileInvariant, PTL DEF Spec

-----------------------------------------------------------------------------
(* What a reader finds. *)

(* A page comes into the cache under a known id in Open only, which leaves *)
(* the chain as it was.                                                    *)
LEMMA OpenKeepsChain ==
  ASSUME IInv, [Next]_vars, NEW id \in known, id \in cached' \ cached
  PROVE  chain'[id] = chain[id]
  <1>1. CASE \E i \in Pages, it \in Items : NewPage(i, it)
    <2>1. PICK i \in Pages, it \in Items : NewPage(i, it)
      BY <1>1
    <2>2. chain[i] = <<>> /\ cached' = cached \cup {i}
      BY <2>1, AllocFresh DEF NewPage, Load
    <2>3. id = i
      BY <2>2
    <2>4. Len(chain[id]) > 0
      BY DEF IInv, TypeOK, CacheInv
    <2>5. QED
      BY <2>2, <2>3, <2>4
  <1>2. CASE \E i \in Pages : Open(i)
    BY <1>2, OpenInv
  <1>3. CASE \E i \in Pages : \/ \E it \in Items : Write(i, it)
                            \/ \E emptied \in BOOLEAN : AllowFree(i, emptied)
                            \/ ForceFree(i)
    BY <1>3 DEF Write, AllowFree, ForceFree
  <1>4. CASE \E i \in Pages : EvictClean(i) \/ EvictForced(i) \/ EvictDirty(i)
    BY <1>4 DEF EvictClean, EvictForced, EvictDirty, Unload
  <1>5. CASE FlushStep
    BY <1>5 DEF FlushStep, WriteBlock, GrowChain, LinkNext, LinkPrev, EndData, FreePage,
       ZeroHeader, EndFlush, pageVars
  <1>6. CASE Crash
    BY <1>6 DEF Crash
  <1>7. CASE UNCHANGED vars
    BY <1>7 DEF vars, pageVars
  <1>8. QED
    BY <1>1, <1>2, <1>3, <1>4, <1>5, <1>6, <1>7 DEF Next

(* Reading a page back finds exactly the pages it had when it was dropped. *)
THEOREM ReadBackFindsChain == Spec => ReopenFindsChain
  <1>1. IInv /\ [Next]_vars =>
          [\A id \in known : id \in cached' \ cached => chain'[id] = chain[id]]_vars
    BY OpenKeepsChain
  <1>2. QED
    BY <1>1, FileInvariant, PTL DEF Spec, ReopenFindsChain

-----------------------------------------------------------------------------
(* The refinement. *)

(* The chain of a saved item is one a reader follows to its end. *)
LEMMA SavedIsFound ==
  ASSUME IInv, NEW id \in Pages, saved[id] # Nothing
  PROVE  /\ saved[id] \in HeadItems(id)
         /\ chain[id] \in ChainsUpTo(saved[id].blocks + 1)
         /\ IsReadChain(chain[id], id, saved[id].blocks)
         /\ Holds(chain[id], saved[id])
  <1> DEFINE c == chain[id]
             n == Len(chain[id])
             it == saved[id]
  <1>1. TypeOK /\ ShapeInv /\ ChainInv /\ NextInv /\ SavedInv /\ FlushInv
    BY DEF IInv
  <1>2. c \in Seq(Pages) /\ n \in Nat /\ id \in known
    BY <1>1, ChainFacts DEF SavedInv
  <1>3. it \in Items /\ it.blocks \in Nat /\ it.blocks > 0
    BY <1>1, ItemFacts DEF TypeOK, AnyItem
  <1>4. /\ it.blocks <= n /\ n <= it.blocks + 1
        /\ \A k \in 1 .. it.blocks : data[c[k]] = <<it, k>>
    BY <1>1 DEF SavedInv
  <1>5. n > 0 /\ c[1] = id /\ 1 \in 1 .. it.blocks /\ n \in 1 .. n /\ n \in 1 .. it.blocks + 1
    BY <1>1, <1>2, <1>3, <1>4 DEF ChainInv
  <1>6. it \in HeadItems(id)
    BY <1>3, <1>4, <1>5 DEF HeadItems
  <1>7. c \in ChainsUpTo(it.blocks + 1)
    <2>1. c \in [1 .. n -> Pages]
      BY <1>2
    <2>2. QED
      BY <1>5, <2>1 DEF ChainsUpTo
  <1>8. wId # id \/ step = "idle"
    BY <1>1 DEF FlushInv
  <1>9. \A k \in 1 .. n : \/ k < n /\ next[c[k]] = c[k + 1]
                          \/ k = n /\ next[c[k]] = 0
    BY <1>1, <1>8 DEF NextInv
  <1>10. IsReadChain(c, id, it.blocks)
    <2>1. next[Last(c)] = 0
      BY <1>5, <1>9 DEF Last
    <2>2. \A k \in 1 .. n - 1 : next[c[k]] = c[k + 1]
      <3>1. SUFFICES ASSUME NEW k \in 1 .. n - 1 PROVE next[c[k]] = c[k + 1]
        OBVIOUS
      <3>2. k \in 1 .. n /\ k # n
        BY <1>2
      <3>3. QED
        BY <1>9, <3>2
    <2>3. QED
      BY <1>5, <2>1, <2>2 DEF IsReadChain
  <1>11. Holds(c, it)
    BY <1>2, <1>3, <1>4 DEF Holds
  <1>12. QED
    BY <1>6, <1>7, <1>10, <1>11

(* A reader of the file finds the saved item and nothing else. *)
LEMMA SavedIsRead ==
  ASSUME IInv, NEW id \in Pages, saved[id] # Nothing
  PROVE  ItemInFile(id) = saved[id]
  <1> DEFINE found == {it \in HeadItems(id) : \E s \in ChainsUpTo(it.blocks + 1) :
                          IsReadChain(s, id, it.blocks) /\ Holds(s, it)}
  <1>1. saved[id] \in found
    BY SavedIsFound
  <1>2. \A it \in found : it = saved[id]
    BY ReaderFindsChain
  <1>3. found = {saved[id]}
    BY <1>1, <1>2
  <1>4. ItemInFile(id) = IF found = {} THEN Nothing ELSE CHOOSE it \in found : TRUE
    BY DEF ItemInFile
  <1> HIDE DEF found
  <1>5. QED
    BY <1>3, <1>4

(* What a read of each id returns, without looking in the file. *)
FileValue == [id \in Pages |->
    IF id \notin known THEN Nothing
    ELSE IF id \in cached THEN item[id]
    ELSE IF wId = id THEN wItem
    ELSE saved[id]]

LEMMA ValueIs == IInv => valueOf = FileValue
  <1>1. SUFFICES ASSUME IInv, NEW id \in Pages, id \in known, id \notin cached, wId # id
                 PROVE  ItemInFile(id) = saved[id]
    BY DEF valueOf, FileValue
  <1>2. saved[id] # Nothing
    BY <1>1 DEF IInv, CacheInv
  <1>3. QED
    BY <1>1, <1>2, SavedIsRead

LEMMA ValueIsNext == IInv' => valueOf' = FileValue'
  <1>1. (IInv => valueOf = FileValue)'
    BY ValueIs, PTL
  <1>2. QED
    BY <1>1

View == INSTANCE PageStore WITH Ids <- Pages, Values <- Items, None <- Nothing,
                                value <- FileValue, stable <- stableOf,
                                open <- cached \cap known

StoreStep == [View!Next]_View!svars

(* A step that changes nothing of a known id stutters. *)
LEMMA SameView ==
  ASSUME known' = known,
         \A i \in known : /\ i \in cached' <=> i \in cached
                          /\ saved'[i] = saved[i]
                          /\ FileValue'[i] = FileValue[i]
  PROVE  StoreStep
  <1>1. FileValue' = FileValue
    BY DEF FileValue
  <1>2. stableOf' = stableOf
    BY DEF stableOf
  <1>3. cached' \cap known' = cached \cap known
    OBVIOUS
  <1>4. QED
    BY <1>1, <1>2, <1>3 DEF StoreStep, View!svars

LEMMA NewPageStores ==
  ASSUME IInv, NEW id \in Pages, NEW it \in Items, NewPage(id, it)
  PROVE  StoreStep
  <1>1. /\ step = "idle" /\ Alloc(id)
        /\ cached' = cached \cup {id} /\ item' = [item EXCEPT ![id] = it]
        /\ known' = known \cup {id} /\ saved' = [saved EXCEPT ![id] = Nothing]
        /\ wId' = wId /\ wItem' = wItem
    BY DEF NewPage, Load, writeVars
  <1>2. id \notin known
    BY <1>1, AllocFresh DEF IInv, CacheInv
  <1>3. item'[id] = it /\ saved'[id] = Nothing
    BY <1>1 DEF IInv, TypeOK
  <1>4. \A j \in Pages \ {id} : item'[j] = item[j] /\ saved'[j] = saved[j]
    BY <1>1 DEF IInv, TypeOK
  <1>5. FileValue[id] = Nothing /\ FileValue' = [FileValue EXCEPT ![id] = it]
    BY <1>1, <1>2, <1>3, <1>4 DEF FileValue
  <1>6. stableOf' = [stableOf EXCEPT ![id] = Nothing]
    BY <1>1, <1>2, <1>3, <1>4 DEF stableOf
  <1>7. cached' \cap known' = (cached \cap known) \cup {id}
    BY <1>1, <1>2
  <1>8. QED
    BY <1>5, <1>6, <1>7 DEF StoreStep, View!Next, View!New

LEMMA OpenLoads ==
  ASSUME IInv, NEW id \in Pages, Open(id)
  PROVE  StoreStep
  <1>1. /\ id \in known /\ id \notin cached
        /\ known' = known /\ saved' = saved /\ wId' = wId /\ wItem' = wItem
        /\ cached' = cached \cup {id} /\ step = "idle"
    BY DEF Open, Load, writeVars
  <1>2. PICK it \in HeadItems(id) : \E s \in ChainsUpTo(it.blocks + 1) :
          /\ IsReadChain(s, id, it.blocks) /\ Holds(s, it)
          /\ item' = [item EXCEPT ![id] = it]
    BY DEF Open, Load
  <1>3. wId # id
    BY <1>1, PageFacts DEF IInv, ShapeInv
  <1>4. saved[id] # Nothing
    BY <1>1, <1>3 DEF IInv, CacheInv
  <1>5. it = saved[id]
    BY <1>2, <1>4, ReaderFindsChain
  <1>6. /\ item'[id] = saved[id]
        /\ \A j \in Pages \ {id} : item'[j] = item[j]
    BY <1>2, <1>5 DEF IInv, TypeOK
  <1>7. FileValue' = FileValue
    BY <1>1, <1>3, <1>6 DEF FileValue
  <1>8. FileValue[id] # Nothing
    BY <1>1, <1>3, <1>4 DEF FileValue
  <1>9. stableOf' = stableOf /\ cached' \cap known' = (cached \cap known) \cup {id}
    BY <1>1 DEF stableOf
  <1>10. QED
    BY <1>7, <1>8, <1>9 DEF StoreStep, View!Next, View!Load

LEMMA WriteWrites ==
  ASSUME IInv, NEW id \in Pages, NEW it \in Items, Write(id, it)
  PROVE  StoreStep
  <1>1. /\ id \in cached /\ item' = [item EXCEPT ![id] = it]
        /\ cached' = cached /\ known' = known /\ saved' = saved
        /\ wId' = wId /\ wItem' = wItem
    BY DEF Write, writeVars
  <1>2. item'[id] = it /\ \A j \in Pages \ {id} : item'[j] = item[j]
    BY <1>1 DEF IInv, TypeOK
  <1>3. \A j \in Pages \ {id} : FileValue'[j] = FileValue[j]
    BY <1>1, <1>2 DEF FileValue
  <1>4. CASE id \notin known
    <2>1. \A j \in known : j \in Pages \ {id}
      BY <1>4 DEF IInv, TypeOK
    <2>2. QED
      BY <1>1, <1>3, <2>1, SameView
  <1>5. CASE id \in known
    <2>1. FileValue' = [FileValue EXCEPT ![id] = it]
      BY <1>1, <1>2, <1>5 DEF FileValue
    <2>2. stableOf' = stableOf /\ cached' \cap known' = cached \cap known
      BY <1>1 DEF stableOf
    <2>3. id \in cached \cap known
      BY <1>1, <1>5
    <2>4. QED
      BY <2>1, <2>2, <2>3 DEF StoreStep, View!Next, View!Write
  <1>6. QED
    BY <1>4, <1>5

LEMMA FreeForgets ==
  ASSUME IInv, NEW id \in Pages,
         ForceFree(id) \/ \E emptied \in BOOLEAN : AllowFree(id, emptied)
  PROVE  StoreStep
  <1>1. /\ id \in cached /\ id \in known
        /\ item' = item \/ item' = [item EXCEPT ![id] = Nothing]
        /\ cached' = cached /\ known' = known \ {id}
        /\ saved' = [saved EXCEPT ![id] = Nothing]
        /\ wId' = wId /\ wItem' = wItem
    BY DEF AllowFree, ForceFree, writeVars
  <1>2. /\ \A j \in Pages \ {id} : item'[j] = item[j] /\ saved'[j] = saved[j]
    BY <1>1 DEF IInv, TypeOK
  <1>3. FileValue' = [FileValue EXCEPT ![id] = Nothing]
    BY <1>1, <1>2 DEF FileValue
  <1>4. stableOf' = [stableOf EXCEPT ![id] = Nothing]
    BY <1>1, <1>2 DEF stableOf
  <1>5. /\ id \in cached \cap known
        /\ cached' \cap known' = (cached \cap known) \ {id}
    BY <1>1
  <1>6. QED
    BY <1>3, <1>4, <1>5 DEF StoreStep, View!Next, View!Forget

(* A page that is dropped without a flush has the item that was saved. *)
LEMMA EvictCleanDrops ==
  ASSUME IInv, NEW id \in Pages, EvictClean(id)
  PROVE  StoreStep
  <1>1. /\ step = "idle" /\ id \in cached /\ id \notin dirty
        /\ cached' = cached \ {id} /\ item' = [item EXCEPT ![id] = Nothing]
        /\ known' = known /\ saved' = saved /\ wId' = wId /\ wItem' = wItem
    BY DEF EvictClean, Unload, writeVars
  <1>2. wId # id /\ \A j \in Pages \ {id} : item'[j] = item[j]
    BY <1>1, PageFacts DEF IInv, ShapeInv, TypeOK
  <1>3. \A j \in Pages \ {id} : FileValue'[j] = FileValue[j]
    BY <1>1, <1>2 DEF FileValue
  <1>4. CASE id \notin known
    <2>1. \A j \in known : j \in Pages \ {id}
      BY <1>4 DEF IInv, TypeOK
    <2>2. QED
      BY <1>1, <1>3, <2>1, SameView
  <1>5. CASE id \in known
    <2>1. saved[id] = item[id]
      BY <1>1, <1>5 DEF IInv, CacheInv
    <2>2. FileValue' = FileValue
      BY <1>1, <1>2, <1>5, <2>1 DEF FileValue
    <2>3. stableOf' = stableOf /\ id \in cached \cap known
          /\ cached' \cap known' = (cached \cap known) \ {id}
      BY <1>1, <1>5 DEF stableOf
    <2>4. QED
      BY <2>2, <2>3 DEF StoreStep, View!Next, View!Drop
  <1>6. QED
    BY <1>4, <1>5

LEMMA EvictDirtyDrops ==
  ASSUME IInv, NEW id \in Pages, EvictDirty(id)
  PROVE  StoreStep
  <1>1. /\ step = "idle" /\ id \in cached
        /\ cached' = cached \ {id} /\ item' = [item EXCEPT ![id] = Nothing]
        /\ known' = known /\ saved' = [saved EXCEPT ![id] = Nothing]
        /\ wId' = id /\ wItem' = item[id]
    BY DEF EvictDirty, Unload
  <1>2. /\ wId \notin Pages
        /\ \A j \in Pages \ {id} : item'[j] = item[j] /\ saved'[j] = saved[j]
        /\ saved'[id] = Nothing
    BY <1>1, PageFacts DEF IInv, ShapeInv, TypeOK
  <1>3. \A j \in Pages \ {id} : FileValue'[j] = FileValue[j]
    BY <1>1, <1>2 DEF FileValue
  <1>4. CASE id \notin known
    <2>1. \A j \in known : j \in Pages \ {id}
      BY <1>4 DEF IInv, TypeOK
    <2>2. QED
      BY <1>1, <1>2, <1>3, <2>1, SameView
  <1>5. CASE id \in known
    <2>1. FileValue' = FileValue
      BY <1>1, <1>3, <1>5 DEF FileValue
    <2>2. stableOf' = [stableOf EXCEPT ![id] = Nothing]
      BY <1>1, <1>2 DEF stableOf
    <2>3. id \in cached \cap known /\ cached' \cap known' = (cached \cap known) \ {id}
      BY <1>1, <1>5
    <2>4. QED
      BY <2>1, <2>2, <2>3 DEF StoreStep, View!Next, View!Drop
  <1>6. QED
    BY <1>4, <1>5

(* A force-freed page has no reference left: nobody sees its flush. *)
LEMMA EvictForcedStutters ==
  ASSUME IInv, NEW id \in Pages, EvictForced(id)
  PROVE  StoreStep
  <1>1. /\ step = "idle" /\ id \in cached /\ id \in forced
        /\ cached' = cached \ {id} /\ item' = [item EXCEPT ![id] = Nothing]
        /\ known' = known /\ saved' = saved /\ wId' = id /\ wItem' = wItem
    BY DEF EvictForced, Unload
  <1>2. id \notin known
    BY <1>1 DEF IInv, CacheInv
  <1>3. wId \notin Pages /\ \A j \in Pages \ {id} : item'[j] = item[j]
    BY <1>1, PageFacts DEF IInv, ShapeInv, TypeOK
  <1>4. \A j \in known : j \in Pages \ {id}
    BY <1>2 DEF IInv, TypeOK
  <1>5. \A j \in known : FileValue'[j] = FileValue[j]
    BY <1>1, <1>3, <1>4 DEF FileValue
  <1>6. QED
    BY <1>1, <1>4, <1>5, SameView

(* What a flush writes is the value of its id before and after. *)
LEMMA EndFlushSaves ==
  ASSUME IInv, EndFlush
  PROVE  StoreStep
  <1>1. /\ step = "free"
        /\ saved' = [saved EXCEPT ![wId] = IF wId \in known THEN wItem ELSE Nothing]
        /\ wId' = 0 /\ cached' = cached /\ item' = item /\ known' = known
    BY DEF EndFlush, pageVars
  <1>2. wId \in Pages /\ wId \notin cached /\ 0 \notin Pages
    BY <1>1, PageFacts DEF IInv, ShapeInv
  <1>3. \A j \in Pages \ {wId} : saved'[j] = saved[j]
    BY <1>1 DEF IInv, TypeOK
  <1>4. CASE wId \notin known
    <2>1. \A j \in known : j \in Pages \ {wId}
      BY <1>4 DEF IInv, TypeOK
    <2>2. \A j \in known : FileValue'[j] = FileValue[j]
      BY <1>1, <1>2, <1>3, <2>1 DEF FileValue
    <2>3. QED
      BY <1>1, <1>3, <2>1, <2>2, SameView
  <1>5. CASE wId \in known
    <2>1. saved'[wId] = wItem
      BY <1>1, <1>2, <1>5 DEF IInv, TypeOK
    <2>2. FileValue' = FileValue
      BY <1>1, <1>2, <1>3, <1>5, <2>1 DEF FileValue
    <2>3. FileValue[wId] = wItem /\ wItem # Nothing
      BY <1>1, <1>2, <1>5, ItemFacts DEF FileValue, IInv, FlushInv
    <2>4. stableOf' = [stableOf EXCEPT ![wId] = wItem]
      BY <1>1, <1>2, <1>3, <1>5, <2>1 DEF stableOf
    <2>5. wId \notin cached \cap known /\ cached' \cap known' = cached \cap known
      BY <1>1, <1>2
    <2>6. QED
      BY <1>2, <2>2, <2>3, <2>4, <2>5 DEF StoreStep, View!Next, View!EndSave
  <1>6. QED
    BY <1>4, <1>5

LEMMA CrashIsACrash ==
  ASSUME IInv, Crash
  PROVE  StoreStep
  <1>1. /\ cached' = {} /\ wId' = 0 /\ saved' = saved
        /\ known' = {id \in known : saved[id] # Nothing}
    BY DEF Crash
  <1>2. FileValue' = stableOf
    BY <1>1, PageFacts DEF FileValue, stableOf
  <1>3. stableOf' = stableOf
    BY <1>1 DEF stableOf
  <1>4. cached' \cap known' = {}
    BY <1>1
  <1>5. QED
    BY <1>2, <1>3, <1>4 DEF StoreStep, View!Next, View!Crash

LEMMA EveryStepIsAStoreStep == IInv /\ [Next]_vars => StoreStep
  <1>1. SUFFICES ASSUME IInv, [Next]_vars PROVE StoreStep
    OBVIOUS
  <1>2. CASE \E id \in Pages, it \in Items : NewPage(id, it) \/ Write(id, it)
    BY <1>1, <1>2, NewPageStores, WriteWrites
  <1>3. CASE \E id \in Pages : Open(id)
    BY <1>1, <1>3, OpenLoads
  <1>4. CASE \E id \in Pages : ForceFree(id) \/ \E emptied \in BOOLEAN : AllowFree(id, emptied)
    BY <1>1, <1>4, FreeForgets
  <1>5. CASE \E id \in Pages : EvictClean(id) \/ EvictForced(id) \/ EvictDirty(id)
    BY <1>1, <1>5, EvictCleanDrops, EvictForcedStutters, EvictDirtyDrops
  <1>6. CASE FlushStep /\ ~EndFlush
    <2>1. UNCHANGED <<cached, item, known, saved, wId, wItem>>
      BY <1>6 DEF FlushStep, WriteBlock, GrowChain, LinkNext, LinkPrev, EndData, FreePage,
         ZeroHeader, pageVars, writeVars
    <2>2. QED
      BY <2>1, SameView DEF FileValue
  <1>7. CASE EndFlush
    BY <1>1, <1>7, EndFlushSaves
  <1>8. CASE Crash
    BY <1>1, <1>8, CrashIsACrash
  <1>9. CASE UNCHANGED vars
    <2>1. UNCHANGED <<cached, item, known, saved, wId, wItem>>
      BY <1>9 DEF vars, pageVars, writeVars
    <2>2. QED
      BY <2>1, SameView DEF FileValue
  <1>10. QED
    BY <1>1, <1>2, <1>3, <1>4, <1>5, <1>6, <1>7, <1>8, <1>9 DEF Next

(* The paged file implements PageStore: an item that was dropped reads     *)
(* back as it was, and a crash leaves each id the item of its last         *)
(* finished flush.                                                         *)
THEOREM FileIsAStore == Spec => StoreSpec
  <1>1. Init => Store!Init
    <2>1. SUFFICES ASSUME Init PROVE Store!Init
      OBVIOUS
    <2>2. known = {} /\ cached = {}
      BY <2>1 DEF Init
    <2>3. QED
      BY <2>2 DEF Store!Init, valueOf, stableOf
  <1>2. IInv /\ IInv' /\ [Next]_vars => [Store!Next]_Store!svars
    <2>1. SUFFICES ASSUME IInv, IInv', [Next]_vars PROVE [Store!Next]_Store!svars
      OBVIOUS
    <2>2. StoreStep
      BY <2>1, EveryStepIsAStoreStep
    <2>3. valueOf = FileValue /\ valueOf' = FileValue'
      BY <2>1, ValueIs, ValueIsNext
    <2>4. QED
      BY <2>2, <2>3 DEF StoreStep, Store!svars, Store!Next, Store!Load, Store!Drop,
         Store!EndSave, Store!Forget, Store!New, Store!Write, Store!Crash, View!svars,
         View!Next, View!Load, View!Drop, View!EndSave, View!Forget, View!New, View!Write,
         View!Crash
  <1>3. QED
    BY <1>1, <1>2, FileInvariant, PTL DEF Spec, StoreSpec, Store!Spec
=============================================================================
