------------------------------ MODULE PageFile ------------------------------
(***************************************************************************)
(* The paged file of storage/src/paged_storage.rs: the page allocator      *)
(* (PageUse), the doubly linked chains of physical pages in which items    *)
(* are stored, the writing of an evicted Page over its old chain           *)
(* (Page::flush and PageWriter), the reading of a chain (Page::open and    *)
(* PageReader), and a crash between any two writes to the file.            *)
(*                                                                         *)
(* The pageuse mutex is held for the whole of a flush, so at most one      *)
(* flush is under way (step, wId, ...) and no page is allocated or opened during   *)
(* it.  Concurrent access to the cache is the subject of PageCache.        *)
(*                                                                         *)
(* An item is what the serializer makes of a value: the number of physical *)
(* pages its bytes reach and whether they fill the last of them exactly.   *)
(***************************************************************************)
EXTENDS Integers, Sequences, FiniteSets

CONSTANTS MaxPage,     \* bound: the largest physical page number used
          MaxCrashes,  \* bound: the number of crashes
          Items,       \* serialized items, records [tag, blocks, exact]
          Nothing      \* the item that serializes to no bytes

ASSUME ConstantsOK ==
    /\ MaxPage \in Nat \ {0}
    /\ MaxCrashes \in Nat
    /\ \A it \in Items : it.blocks \in Nat \ {0} /\ it.exact \in BOOLEAN
    /\ Nothing \notin Items
    /\ Nothing.blocks = 0 /\ Nothing.exact \in BOOLEAN

Pages == 1 .. MaxPage        \* page 0 holds the file's own header
AnyItem == Items \cup {Nothing}

VARIABLES
    lowest,      \* PageUse.lowest_unallocated_id
    freed,       \* PageUse.freed_pages: a heap, so a bag: copies of each page in it
    fileLowest,  \* the copy of lowest in the file, 0 in a blank file
    next,        \* first half of each page's header in the file
    prev,        \* second half of each page's header in the file
    data,        \* the block in each page: <<item, index>>, or <<>>
    cached,      \* the ids in the cache
    item,        \* the item of each cached Page
    dirty,       \* the ids whose Page.dirty is set
    allowed,     \* the ids whose free_state has bit 0 (allow_free)
    forced,      \* the ids whose free_state has bit 1 (force_free)
    chain,       \* component_pages of a cached page; kept when it is evicted
    known,       \* the ids a caller may still use
    saved,       \* history: the item each id's last finished flush wrote
    step,        \* what the flush under way does next; "idle" without one
    wId,         \* the id being flushed
    wItem,       \* the item being written
    wBlock,      \* how many of its blocks are written
    wAllowed,    \* allowed_to_free_first_page
    todo,        \* the pages to write next; then the pages to free
    crashes      \* history: crashes so far

fileVars == <<fileLowest, next, prev, data>>
pageVars == <<cached, item, dirty, allowed, forced>>
writeVars == <<wId, wItem, wBlock, wAllowed>>

vars == <<lowest, freed, fileVars, pageVars, chain, known, saved,
          step, writeVars, todo, crashes>>

Steps == {"idle", "write", "linkNext", "linkPrev", "free", "zero"}

Last(s) == s[Len(s)]
Elems(s) == {s[k] : k \in 1 .. Len(s)}

-----------------------------------------------------------------------------
(* The allocator.                                                          *)

FreePages == {p \in Pages : freed[p] > 0}

(* The heap is popped before the file is extended, smallest page first.    *)
CanAlloc(p) ==
    \/ p \in FreePages /\ \A q \in FreePages : p <= q
    \/ FreePages = {} /\ p = lowest /\ p \in Pages

(* Fault: a fresh page is not recorded in the file's header. *)
AllocNotRecorded(p) ==
    /\ CanAlloc(p)
    /\ IF p \in FreePages
       THEN freed' = [freed EXCEPT ![p] = @ - 1] /\ UNCHANGED <<lowest, next, prev>>
       ELSE /\ lowest' = p + 1
            /\ next' = [next EXCEPT ![p] = 0]
            /\ prev' = [prev EXCEPT ![p] = 0]
            /\ UNCHANGED freed
    /\ UNCHANGED fileLowest

(* alloc_new.  A page from the heap is handed out as free_page left it; a  *)
(* fresh one is recorded in the file's header and its header is zeroed.    *)
Alloc(p) ==
    /\ CanAlloc(p)
    /\ IF p \in FreePages
       THEN /\ freed' = [freed EXCEPT ![p] = @ - 1]
            /\ UNCHANGED <<lowest, fileLowest, next, prev>>
       ELSE /\ lowest' = p + 1
            /\ fileLowest' = p + 1
            /\ next' = [next EXCEPT ![p] = 0]
            /\ prev' = [prev EXCEPT ![p] = 0]
            /\ UNCHANGED freed

(* Faults: a blank file is not told apart, and a bound taken for a last page. *)
LowestOnOpenRaw(inFile) == inFile
LowestOnOpenLess(inFile) == IF inFile = 0 THEN 1 ELSE inFile - 1

(* PagedStorage::open: page 0 is reserved, so a blank file starts at 1.    *)
LowestOnOpen(inFile) == IF inFile = 0 THEN 1 ELSE inFile

(* PageUse::is_valid. *)
IsValid(id) == lowest > id

-----------------------------------------------------------------------------
(* Reading a chain.                                                        *)

(* Fault: the next page is not looked up when a page has been read in full. *)
IsReadChainShort(s, id, n) ==
    /\ s[1] = id
    /\ \A k \in 1 .. Len(s) - 1 : next[s[k]] = s[k + 1]
    /\ Len(s) = n \/ next[Last(s)] = 0

(* The ids PageReader gathers while n pages are read in full: it pushes    *)
(* the next page of each, so one more than was read when there is one.     *)
IsReadChain(s, id, n) ==
    /\ s[1] = id
    /\ \A k \in 1 .. Len(s) - 1 : next[s[k]] = s[k + 1]
    /\ Len(s) = n + 1 \/ next[Last(s)] = 0

ChainsUpTo(n) == UNION {[1 .. k -> Pages] : k \in 1 .. n}

(* The decoder learns from the first bytes what it is to read, and reads   *)
(* on through the chain.                                                   *)
HeadItems(id) == {it \in Items : data[id] = <<it, 1>>}

Holds(s, it) == /\ Len(s) >= it.blocks
                /\ \A k \in 1 .. it.blocks : data[s[k]] = <<it, k>>

-----------------------------------------------------------------------------
Init == /\ lowest = LowestOnOpen(0)
        /\ fileLowest = 0
        /\ freed = [p \in Pages |-> 0]
        /\ next = [p \in Pages |-> 0]
        /\ prev = [p \in Pages |-> 0]
        /\ data = [p \in Pages |-> <<>>]
        /\ cached = {} /\ dirty = {} /\ allowed = {} /\ forced = {}
        /\ item = [p \in Pages |-> Nothing]
        /\ chain = [p \in Pages |-> <<>>]
        /\ known = {}
        /\ saved = [p \in Pages |-> Nothing]
        /\ step = "idle" /\ todo = <<>>
        /\ wId = 0 /\ wItem = Nothing /\ wBlock = 0 /\ wAllowed = FALSE
        /\ crashes = 0

(* A Page is put in the cache, with free_state 0 (Unload left it so). *)
Load(id, it) == /\ cached' = cached \cup {id}
                /\ item' = [item EXCEPT ![id] = it]

(* A Page is removed from the cache and dropped. *)
Unload(id) == /\ cached' = cached \ {id}
              /\ item' = [item EXCEPT ![id] = Nothing]
              /\ dirty' = dirty \ {id}
              /\ allowed' = allowed \ {id}
              /\ forced' = forced \ {id}

(* new_page_with: allocate an id and put the item in the cache, dirty.     *)
NewPage(id, it) ==
    /\ step = "idle"
    /\ Alloc(id)
    /\ Load(id, it)
    /\ dirty' = dirty \cup {id}
    /\ chain' = [chain EXCEPT ![id] = <<id>>]
    /\ known' = known \cup {id}
    /\ saved' = [saved EXCEPT ![id] = Nothing]
    /\ UNCHANGED <<data, allowed, forced, step, writeVars, todo, crashes>>

(* get of a page that is not in the cache: Page::open. *)
Open(id) ==
    /\ step = "idle"
    /\ id \in known /\ id \notin cached
    /\ IsValid(id)
    /\ \E it \in HeadItems(id) : \E s \in ChainsUpTo(it.blocks + 1) :
         /\ IsReadChain(s, id, it.blocks)
         /\ Holds(s, it)
         /\ Load(id, it)
         /\ chain' = [chain EXCEPT ![id] = s]
    /\ UNCHANGED <<lowest, freed, fileVars, dirty, allowed, forced, known, saved,
                   step, writeVars, todo, crashes>>

(* Fault: a write through the guard leaves the dirty flag as it was. *)
WriteNotDirty(id, it) ==
    /\ id \in cached
    /\ item' = [item EXCEPT ![id] = it]
    /\ allowed' = allowed \ {id}
    /\ UNCHANGED <<lowest, freed, fileVars, cached, dirty, forced, chain, known,
                   saved, step, writeVars, todo, crashes>>

(* write or write_arc, and what the caller then stores through the guard:  *)
(* the page is dirty, and a light free that was in place is taken back.    *)
Write(id, it) ==
    /\ id \in cached
    /\ item' = [item EXCEPT ![id] = it]
    /\ dirty' = dirty \cup {id}
    /\ allowed' = allowed \ {id}
    /\ UNCHANGED <<lowest, freed, fileVars, cached, forced, chain, known, saved,
                   step, writeVars, todo, crashes>>

(* allow_free.  Its caller has let go of every reference to the id; the    *)
(* item may have been emptied, as the method asks, or not.                 *)
AllowFree(id, emptied) ==
    /\ id \in cached /\ id \in known
    /\ allowed' = allowed \cup {id}
    /\ IF emptied
       THEN item' = [item EXCEPT ![id] = Nothing] /\ dirty' = dirty \cup {id}
       ELSE UNCHANGED <<item, dirty>>
    /\ known' = known \ {id}
    /\ saved' = [saved EXCEPT ![id] = Nothing]
    /\ UNCHANGED <<lowest, freed, fileVars, cached, forced, chain, step,
                   writeVars, todo, crashes>>

(* force_free, under the same condition. *)
ForceFree(id) ==
    /\ id \in cached /\ id \in known
    /\ forced' = forced \cup {id}
    /\ known' = known \ {id}
    /\ saved' = [saved EXCEPT ![id] = Nothing]
    /\ UNCHANGED <<lowest, freed, fileVars, cached, item, dirty, allowed, chain,
                   step, writeVars, todo, crashes>>

-----------------------------------------------------------------------------
(* Eviction: the Page is removed from the cache and dropped; Page::flush.  *)

EvictClean(id) ==
    /\ step = "idle"
    /\ id \in cached \ (dirty \cup allowed \cup forced)
    /\ Unload(id)
    /\ UNCHANGED <<lowest, freed, fileVars, chain, known, saved, step, writeVars,
                   todo, crashes>>

(* Fault: only the first page of a force-freed chain is freed. *)
EvictForcedHead(id) ==
    /\ step = "idle"
    /\ id \in cached \cap forced
    /\ Unload(id)
    /\ wId' = id /\ step' = "free" /\ todo' = <<id>>
    /\ chain' = [chain EXCEPT ![id] = <<>>]
    /\ UNCHANGED <<lowest, freed, fileVars, known, saved, wItem, wBlock, wAllowed,
                   crashes>>

(* A force-freed page is not serialized: all its pages are freed. *)
EvictForced(id) ==
    /\ step = "idle"
    /\ id \in cached \cap forced
    /\ Unload(id)
    /\ wId' = id /\ step' = "free" /\ todo' = chain[id]
    /\ chain' = [chain EXCEPT ![id] = <<>>]
    /\ UNCHANGED <<lowest, freed, fileVars, known, saved, wItem, wBlock, wAllowed,
                   crashes>>

EvictDirty(id) ==
    /\ step = "idle"
    /\ id \in cached \cap (dirty \cup allowed) /\ id \notin forced
    /\ Unload(id)
    /\ step' = "write" /\ todo' = chain[id]
    /\ wId' = id /\ wItem' = item[id] /\ wBlock' = 0
    /\ wAllowed' = (id \in allowed)
    /\ saved' = [saved EXCEPT ![id] = Nothing]
    /\ UNCHANGED <<lowest, freed, fileVars, chain, known, crashes>>

BlocksLeft == step = "write" /\ wBlock < wItem.blocks

(* PageWriter::write over a page the item already had, or one just added.  *)
WriteBlock ==
    /\ BlocksLeft /\ todo # <<>>
    /\ data' = [data EXCEPT ![Head(todo)] = <<wItem, wBlock + 1>>]
    /\ wBlock' = wBlock + 1
    /\ todo' = Tail(todo)
    /\ UNCHANGED <<lowest, freed, fileLowest, next, prev, pageVars, chain, known,
                   saved, step, wId, wItem, wAllowed, crashes>>

(* NeedsNewAllocation: alloc_new_after allocates, then links both ways.    *)
GrowChain(p) ==
    /\ BlocksLeft /\ todo = <<>>
    /\ Alloc(p)
    /\ chain' = [chain EXCEPT ![wId] = Append(@, p)]
    /\ step' = "linkNext" /\ todo' = <<p>>
    /\ UNCHANGED <<data, pageVars, known, saved, writeVars, crashes>>

(* The page that was the last one before the chain was grown. *)
OldLast == LET s == chain[wId] IN s[Len(s) - 1]

LinkNext ==
    /\ step = "linkNext"
    /\ next' = [next EXCEPT ![OldLast] = Head(todo)]
    /\ step' = "linkPrev"
    /\ UNCHANGED <<lowest, freed, fileLowest, prev, data, pageVars, chain, known,
                   saved, writeVars, todo, crashes>>

LinkPrev ==
    /\ step = "linkPrev"
    /\ prev' = [prev EXCEPT ![Head(todo)] = OldLast]
    /\ step' = "write"
    /\ UNCHANGED <<lowest, freed, fileLowest, next, data, pageVars, chain, known,
                   saved, writeVars, todo, crashes>>

(* The pages left over once the item is written.  When it ended exactly at *)
(* the end of a page the writer is in state Begin again, and the page it   *)
(* would have written next is kept unless the first page may be freed.     *)
LeftOver ==
    IF \/ todo = <<>>
       \/ wAllowed
       \/ wItem.blocks > 0 /\ ~wItem.exact
    THEN todo
    ELSE Tail(todo)

EndData ==
    /\ step = "write" /\ wBlock = wItem.blocks
    /\ step' = "free" /\ todo' = LeftOver
    /\ chain' = [chain EXCEPT ![wId] =
                   SubSeq(@, 1, Len(@) - Len(LeftOver))]
    /\ UNCHANGED <<lowest, freed, fileVars, pageVars, known, saved, writeVars,
                   crashes>>

(* Fault: the page before the freed one still links to it. *)
FreePageLinked ==
    /\ step = "free" /\ todo # <<>>
    /\ freed' = [freed EXCEPT ![Head(todo)] = @ + 1]
    /\ step' = "zero"
    /\ UNCHANGED <<lowest, fileVars, pageVars, chain, known, saved, writeVars,
                   todo, crashes>>

(* free_page: the page goes on the heap and is unlinked from the page its  *)
(* header names as the previous one ...                                    *)
FreePage ==
    /\ step = "free" /\ todo # <<>>
    /\ LET p == Head(todo)
       IN /\ freed' = [freed EXCEPT ![p] = @ + 1]
          /\ next' = IF prev[p] = 0 THEN next
                     ELSE [next EXCEPT ![prev[p]] = 0]
    /\ step' = "zero"
    /\ UNCHANGED <<lowest, fileLowest, prev, data, pageVars, chain, known, saved,
                   writeVars, todo, crashes>>

(* ... and then its own header is zeroed. *)
ZeroHeader ==
    /\ step = "zero"
    /\ LET p == Head(todo)
       IN /\ next' = [next EXCEPT ![p] = 0]
          /\ prev' = [prev EXCEPT ![p] = 0]
    /\ step' = "free" /\ todo' = Tail(todo)
    /\ UNCHANGED <<lowest, freed, fileLowest, data, pageVars, chain, known, saved,
                   writeVars, crashes>>

EndFlush ==
    /\ step = "free" /\ todo = <<>>
    /\ saved' = [saved EXCEPT ![wId] =
                   IF wId \in known THEN wItem ELSE Nothing]
    /\ step' = "idle" /\ todo' = <<>>
    /\ wId' = 0 /\ wItem' = Nothing /\ wBlock' = 0 /\ wAllowed' = FALSE
    /\ UNCHANGED <<lowest, freed, fileVars, pageVars, chain, known, crashes>>

-----------------------------------------------------------------------------
(* The process stops, at any point, and the file is opened again.  What is *)
(* not in the file is gone, the heap of freed pages included.  Only ids    *)
(* with a finished flush, and none begun since, are used from here on.     *)
Crash ==
    /\ crashes < MaxCrashes
    /\ crashes' = crashes + 1
    /\ lowest' = LowestOnOpen(fileLowest)
    /\ freed' = [p \in Pages |-> 0]
    /\ cached' = {} /\ dirty' = {} /\ allowed' = {} /\ forced' = {}
    /\ item' = [p \in Pages |-> Nothing]
    /\ step' = "idle" /\ todo' = <<>>
    /\ wId' = 0 /\ wItem' = Nothing /\ wBlock' = 0 /\ wAllowed' = FALSE
    /\ known' = {id \in known : saved[id] # Nothing}
    /\ chain' = [p \in Pages |-> IF saved[p] # Nothing THEN chain[p] ELSE <<>>]
    /\ UNCHANGED <<fileVars, saved>>

FlushStep == \/ WriteBlock
             \/ \E p \in Pages : GrowChain(p)
             \/ LinkNext \/ LinkPrev
             \/ EndData
             \/ FreePage \/ ZeroHeader
             \/ EndFlush

Next == \/ \E id \in Pages, it \in Items : NewPage(id, it) \/ Write(id, it)
        \/ \E id \in Pages : Open(id) \/ ForceFree(id)
        \/ \E id \in Pages, emptied \in BOOLEAN : AllowFree(id, emptied)
        \/ \E id \in Pages : EvictClean(id) \/ EvictForced(id) \/ EvictDirty(id)
        \/ FlushStep
        \/ Crash

Spec == Init /\ [][Next]_vars

-----------------------------------------------------------------------------
TypeOK ==
    /\ lowest \in 1 .. MaxPage + 1
    /\ freed \in [Pages -> Nat]
    /\ fileLowest \in 0 .. MaxPage + 1
    /\ next \in [Pages -> 0 .. MaxPage]
    /\ prev \in [Pages -> 0 .. MaxPage]
    /\ data \in [Pages -> {<<>>} \cup (AnyItem \X Nat)]
    /\ cached \in SUBSET Pages /\ dirty \in SUBSET Pages
    /\ allowed \in SUBSET Pages /\ forced \in SUBSET Pages
    /\ item \in [Pages -> AnyItem]
    /\ chain \in [Pages -> Seq(Pages)]
    /\ known \in SUBSET Pages
    /\ saved \in [Pages -> AnyItem]
    /\ step \in Steps
    /\ wId \in 0 .. MaxPage
    /\ wItem \in AnyItem
    /\ wBlock \in Nat
    /\ wAllowed \in BOOLEAN
    /\ todo \in Seq(Pages)
    /\ crashes \in Nat

(* The pages a flush has cut from its item's chain and not yet freed. *)
Freeing == CASE step = "free" -> Elems(todo)
             [] step = "zero" -> Elems(Tail(todo))
             [] OTHER -> {}

InSomeChain(p) == \E id \in Pages : p \in Elems(chain[id])

(* A physical page has at most one use: a place in the chain of one item,  *)
(* a place on the heap of freed pages, or a place in the list a flush is   *)
(* about to free.  (alloc_new, free_page, the three ways Page::flush ends, *)
(* and the restart, which must not hand out a page that is linked in the   *)
(* file.)                                                                  *)
NoSharedPage ==
    /\ \A id \in Pages : \A j, k \in 1 .. Len(chain[id]) :
         chain[id][j] = chain[id][k] => j = k
    /\ \A i, j \in Pages : i # j => Elems(chain[i]) \cap Elems(chain[j]) = {}
    /\ \A p \in Pages : freed[p] <= 1
    /\ \A p \in FreePages \cup Freeing : ~InSomeChain(p)
    /\ FreePages \cap Freeing = {}

(* The headers in the file agree with component_pages in both directions,  *)
(* but for the link a flush is in the middle of making or cutting: what    *)
(* the in-memory list of a Page says is what a reader of the file follows. *)
LinksMatch ==
    \A id \in Pages : LET s == chain[id] IN s # <<>> =>
      /\ s[1] = id /\ prev[id] = 0
      /\ \A k \in 1 .. Len(s) - 1 :
           LET new == wId = id /\ k = Len(s) - 1
           IN /\ next[s[k]] = s[k + 1] \/ (new /\ step = "linkNext")
              /\ \/ prev[s[k + 1]] = s[k]
                 \/ new /\ step \in {"linkNext", "linkPrev"}
      /\ \/ next[Last(s)] = 0
         \/ /\ wId = id /\ step = "free" /\ todo # <<>>
            /\ next[Last(s)] = Head(todo)

(* Every item whose flush has ended, and on whose page no flush has begun  *)
(* since, can be read back from the file, whatever was allocated, freed,   *)
(* flushed or lost in a crash after it.                                    *)
SavedReadable ==
    \A id \in known : saved[id] # Nothing => Holds(chain[id], saved[id])

(* Nothing but a crash loses pages: each page below lowest is on the heap, *)
(* about to be put there, or in a chain.                                   *)
NoLeak ==
    crashes = 0 =>
      \A p \in 1 .. lowest - 1 : freed[p] > 0 \/ p \in Freeing \/ InSomeChain(p)

(* Reading a page back finds exactly the pages it had when it was dropped: *)
(* PageReader's look-ahead by one page picks up the spare page an item     *)
(* that ended on a page boundary keeps, and never anything else.           *)
ReopenFindsChain ==
    [][\A id \in known : id \in cached' \ cached => chain'[id] = chain[id]]_vars

(* What a reader of the file finds under an id. *)
ItemInFile(id) ==
    LET found == {it \in HeadItems(id) : \E s \in ChainsUpTo(it.blocks + 1) :
                     IsReadChain(s, id, it.blocks) /\ Holds(s, it)}
    IN IF found = {} THEN Nothing ELSE CHOOSE it \in found : TRUE

valueOf == [id \in Pages |->
    IF id \notin known THEN Nothing
    ELSE IF id \in cached THEN item[id]
    ELSE IF wId = id THEN wItem
    ELSE ItemInFile(id)]

stableOf == [id \in Pages |-> IF id \in known THEN saved[id] ELSE Nothing]

Store == INSTANCE PageStore WITH Ids <- Pages, Values <- Items, None <- Nothing,
                                 value <- valueOf, stable <- stableOf,
                                 open <- cached \cap known

(* The paged file is a page store: see PageStore.  The value of a page     *)
(* that is not in memory is what the file says it is.                      *)
StoreSpec == Store!Spec
=============================================================================
