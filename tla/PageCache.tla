----------------------------- MODULE PageCache -----------------------------
(***************************************************************************)
(* The cache of storage/src/cache/mod.rs as the paged storages use it:     *)
(* threads that get pages, make new ones, write to the pages they hold,    *)
(* mark them as free, and evict pages that nobody holds.                   *)
(*                                                                         *)
(* The cache is a map behind a read-write lock, from page ids to write-    *)
(* once cells.  An object is a Page in memory; several objects of one id   *)
(* can be told apart.  The pageuse mutex is taken and given back within    *)
(* one step wherever it is used, and is not part of the state; neither is  *)
(* the lock on a page's item (see DenseTree).                              *)
(***************************************************************************)
EXTENDS Integers, FiniteSets, FiniteSetsExt

CONSTANTS Threads, Nobody,
          Ids,         \* page ids
          Objects,     \* bound: names of Pages in memory, numbers
          NoObject,
          Values,      \* what a page may hold
          Nothing,     \* the item that serializes to no bytes
          PageSize,    \* PageId::byte_size()
          Size,        \* Size[id]: what a page takes that is read from the file
          MaxBytes,    \* Cache.max_bytes
          MaxHands,    \* bound: how many pages a thread holds at once
          MaxOps       \* bound: how many calls are made

ASSUME CacheConstants ==
    /\ Nobody \notin Threads /\ Nothing \notin Values
    /\ NoObject \notin Objects /\ NoObject \notin Values \cup {Nothing}
    /\ IsFiniteSet(Ids) /\ Ids # {}
    /\ PageSize \in Nat /\ Size \in [Ids -> Nat]
    /\ MaxBytes \in Nat /\ MaxHands \in Nat /\ MaxOps \in Nat

VARIABLES
    writer,   \* the thread with the cache's write lock
    readers,  \* the threads with its read lock
    cell,     \* the state of the cell of each id
    object,   \* the object in it
    size,     \* the number of bytes beside it
    bytes,    \* Cache.cached_bytes
    pageOf,   \* the id of each object
    item, dirty, allowed, forced,  \* Page.item, Page.dirty, Page.free_state
    free,     \* the ids that alloc_new may return
    known,    \* the ids a caller may still use
    file,     \* the item of each id in the file
    pc,       \* what each thread does next
    id,       \* the id it gets or makes
    fresh,    \* the item of the page it makes; Nothing when it gets one
    hands,    \* the objects it has an Arc of
    victims,  \* to_rem in its eviction
    total,    \* total_size in its eviction
    ops       \* how many calls were made

lockVars == <<writer, readers>>
cellVars == <<cell, object, size, bytes>>
objectVars == <<pageOf, item, dirty, allowed, forced>>
idVars == <<free, known, file>>
threadVars == <<id, fresh, hands>>
evictVars == <<victims, total>>

vars == <<lockVars, cellVars, objectVars, idVars, pc, threadVars, evictVars, ops>>

Labels == {"idle", "lookup", "insert", "fill", "open", "add", "evict",
           "evictAll", "remove", "removeAll", "done"}

Init == /\ writer = Nobody /\ readers = {}
        /\ cell = [i \in Ids |-> "absent"]
        /\ object = [i \in Ids |-> NoObject]
        /\ size = [i \in Ids |-> 0]
        /\ bytes = 0
        /\ pageOf = [o \in Objects |-> CHOOSE i \in Ids : TRUE]
        /\ item = [o \in Objects |-> Nothing]
        /\ dirty = {} /\ allowed = {} /\ forced = {}
        /\ free = Ids /\ known = {}
        /\ file = [i \in Ids |-> Nothing]
        /\ pc = [t \in Threads |-> "idle"]
        /\ id = [t \in Threads |-> CHOOSE i \in Ids : TRUE]
        /\ fresh = [t \in Threads |-> Nothing]
        /\ hands = [t \in Threads |-> {}]
        /\ victims = [t \in Threads |-> {}]
        /\ total = [t \in Threads |-> 0]
        /\ ops = 0

Goto(t, label) == pc' = [pc EXCEPT ![t] = label]

Call(t) == pc[t] = "idle" /\ ops < MaxOps /\ ops' = ops + 1

Held(o) == \E t \in Threads : o \in hands[t]
Live(o) == Held(o) \/ \E i \in Ids : object[i] = o

-----------------------------------------------------------------------------
(* get and new_page_with. *)

(* A caller gets a page whose id it has and which it does not hold yet. *)
Get(t, i) ==
    /\ Call(t)
    /\ i \in known /\ Cardinality(hands[t]) < MaxHands
    /\ \A o \in hands[t] : pageOf[o] # i
    /\ id' = [id EXCEPT ![t] = i]
    /\ Goto(t, "lookup")
    /\ UNCHANGED <<lockVars, cellVars, objectVars, idVars, fresh, hands, evictVars>>

(* alloc_new, and f() makes the item. *)
NewPage(t, i, v) ==
    /\ Call(t)
    /\ i \in free /\ free' = free \ {i}
    /\ id' = [id EXCEPT ![t] = i]
    /\ fresh' = [fresh EXCEPT ![t] = v]
    /\ Goto(t, "lookup")
    /\ UNCHANGED <<lockVars, cellVars, objectVars, known, file, hands, evictVars>>

(* The first look, under the read lock. *)
Lookup(t) ==
    /\ pc[t] = "lookup" /\ writer = Nobody
    /\ IF cell[id[t]] = "filled"
       THEN hands' = [hands EXCEPT ![t] = @ \cup {object[id[t]]}] /\ Goto(t, "done")
       ELSE UNCHANGED hands /\ Goto(t, "insert")
    /\ UNCHANGED <<lockVars, cellVars, objectVars, idVars, id, fresh, evictVars, ops>>

(* The write lock is taken, a cell is put in, and it becomes a read lock. *)
Insert(t) ==
    /\ pc[t] = "insert" /\ writer = Nobody /\ readers = {}
    /\ cell' = [cell EXCEPT ![id[t]] = IF @ = "absent" THEN "empty" ELSE @]
    /\ readers' = {t}
    /\ Goto(t, "fill")
    /\ UNCHANGED <<writer, object, size, bytes, objectVars, idVars, threadVars,
                   evictVars, ops>>

(* Fault: who comes second fills the cell again. *)
MayFillAgain(i) == TRUE

MayFill(i) == cell[i] = "empty"

(* get_or_init: the first to come fills the cell, the others wait for it.  *)
Fill(t) ==
    /\ pc[t] = "fill"
    /\ LET i == id[t]
       IN \/ /\ MayFill(i)
             /\ cell' = [cell EXCEPT ![i] = "filling"]
             /\ Goto(t, "open")
             /\ UNCHANGED hands
          \/ /\ cell[i] = "filled" /\ ~MayFill(i)
             /\ hands' = [hands EXCEPT ![t] = @ \cup {object[i]}]
             /\ Goto(t, "add")
             /\ UNCHANGED cell
    /\ UNCHANGED <<lockVars, object, size, bytes, objectVars, idVars, id, fresh,
                   evictVars, ops>>

(* Fault: a new page that nobody writes to again is not saved. *)
NewIsClean(o, new) == dirty

NewIsDirty(o, new) == IF new THEN dirty \cup {o} ELSE dirty

(* Page::open reads the item from the file; a new page has the caller's.   *)
Open(t) ==
    /\ pc[t] = "open"
    /\ LET i == id[t]  new == fresh[t] # Nothing
       IN \E o \in Objects :
            /\ ~Live(o) /\ \A p \in Objects : p < o => Live(p)
            /\ cell' = [cell EXCEPT ![i] = "filled"]
            /\ object' = [object EXCEPT ![i] = o]
            /\ size' = [size EXCEPT ![i] = IF new THEN PageSize ELSE Size[i]]
            /\ pageOf' = [pageOf EXCEPT ![o] = i]
            /\ item' = [item EXCEPT ![o] = IF new THEN fresh[t] ELSE file[i]]
            /\ dirty' = NewIsDirty(o, new)
            /\ hands' = [hands EXCEPT ![t] = @ \cup {o}]
    /\ Goto(t, "add")
    /\ UNCHANGED <<lockVars, bytes, allowed, forced, idVars, id, fresh, evictVars, ops>>

(* Fault: a page counts the same however long it is. *)
AddedLess(t) == PageSize

Added(t) == size[id[t]]

(* Fault: the read lock is kept while pages are evicted. *)
GiveBackLate(t) == IF bytes > MaxBytes THEN readers ELSE readers \ {t}

GiveBack(t) == readers \ {t}

(* fetch_add, which returns the sum before, and the read lock is dropped.  *)
Add(t) ==
    /\ pc[t] = "add"
    /\ bytes' = bytes + Added(t)
    /\ readers' = GiveBack(t)
    /\ Goto(t, IF bytes > MaxBytes THEN "evict" ELSE "done")
    /\ UNCHANGED <<writer, cell, object, size, objectVars, idVars, threadVars,
                   evictVars, ops>>

(* The call returns.  new_page_with lets go of the page and returns the id. *)
Done(t) ==
    /\ pc[t] = "done"
    /\ IF fresh[t] = Nothing
       THEN UNCHANGED <<hands, known>>
       ELSE /\ hands' = [hands EXCEPT ![t] = {o \in @ : pageOf[o] # id[t]}]
            /\ known' = known \cup {id[t]}
    /\ fresh' = [fresh EXCEPT ![t] = Nothing]
    /\ Goto(t, "idle")
    /\ UNCHANGED <<lockVars, cellVars, objectVars, free, file, id, evictVars, ops>>

-----------------------------------------------------------------------------
(* What a thread does with the pages it holds. *)

(* write(): the page is dirty, and a light free is taken back. *)
Write(t, o, v) ==
    /\ Call(t) /\ o \in hands[t]
    /\ item' = [item EXCEPT ![o] = v]
    /\ dirty' = dirty \cup {o}
    /\ allowed' = allowed \ {o}
    /\ UNCHANGED <<lockVars, cellVars, pageOf, forced, idVars, pc, threadVars, evictVars>>

LetGo(t, o) ==
    /\ pc[t] = "idle" /\ o \in hands[t]
    /\ hands' = [hands EXCEPT ![t] = @ \ {o}]
    /\ UNCHANGED <<lockVars, cellVars, objectVars, idVars, pc, id, fresh, evictVars, ops>>

(* No call with the id is under way, and none comes any more. *)
Inaccessible(i) == \A t \in Threads : pc[t] # "idle" => id[t] # i

(* allow_free, of a page that was emptied, and force_free. *)
AllowFree(t, o) ==
    /\ Call(t) /\ o \in hands[t] /\ pageOf[o] \in known /\ Inaccessible(pageOf[o])
    /\ known' = known \ {pageOf[o]}
    /\ allowed' = allowed \cup {o}
    /\ item' = [item EXCEPT ![o] = Nothing]
    /\ dirty' = dirty \cup {o}
    /\ UNCHANGED <<lockVars, cellVars, pageOf, forced, free, file, pc, threadVars, evictVars>>

(* Fault: the id may be handed out again while the page is in the cache. *)
ForceFreeAtOnce(t, o) ==
    /\ Call(t) /\ o \in hands[t] /\ pageOf[o] \in known /\ Inaccessible(pageOf[o])
    /\ known' = known \ {pageOf[o]}
    /\ free' = free \cup {pageOf[o]}
    /\ forced' = forced \cup {o}
    /\ UNCHANGED <<lockVars, cellVars, pageOf, item, dirty, allowed, file, pc,
                   threadVars, evictVars>>

ForceFree(t, o) ==
    /\ Call(t) /\ o \in hands[t] /\ pageOf[o] \in known /\ Inaccessible(pageOf[o])
    /\ known' = known \ {pageOf[o]}
    /\ forced' = forced \cup {o}
    /\ UNCHANGED <<lockVars, cellVars, pageOf, item, dirty, allowed, free, file, pc,
                   threadVars, evictVars>>

-----------------------------------------------------------------------------
(* evict, evict_all_possible, and the dropping of a Page. *)

(* Fault: a second reference to a page is overlooked. *)
MayEvictShared(i) == cell[i] = "filled"

(* Only the cache has an Arc of it. *)
MayEvict(i) == cell[i] = "filled" /\ ~Held(object[i])

(* flush() of the storage. *)
Flush(t) ==
    /\ Call(t)
    /\ Goto(t, "evictAll")
    /\ UNCHANGED <<lockVars, cellVars, objectVars, idVars, threadVars, evictVars>>

(* The write lock is taken and to_rem made. *)
Evict(t) ==
    /\ pc[t] \in {"evict", "evictAll"} /\ writer = Nobody /\ readers = {}
    /\ LET found == {i \in Ids : MayEvict(i)}
       IN IF found = {}
          THEN Goto(t, "done") /\ UNCHANGED <<writer, evictVars>>
          ELSE /\ writer' = t
               /\ victims' = [victims EXCEPT ![t] = found]
               /\ total' = [total EXCEPT ![t] = bytes]
               /\ Goto(t, IF pc[t] = "evict" THEN "remove" ELSE "removeAll")
    /\ UNCHANGED <<readers, cellVars, objectVars, idVars, threadVars, ops>>

IsSaved(o) == o \in dirty \cup allowed

(* Page::flush: the pages of a freed item go back to the allocator. *)
IsFreed(o) == o \in forced \/ (o \in allowed /\ item[o] = Nothing)

(* cache.remove(k), and the drop of the Page. *)
DropPage(i) ==
    LET o == object[i]
    IN /\ cell' = [cell EXCEPT ![i] = "absent"]
       /\ object' = [object EXCEPT ![i] = NoObject]
       /\ size' = [size EXCEPT ![i] = 0]
       /\ bytes' = bytes - size[i]
       /\ file' = IF IsSaved(o) /\ ~IsFreed(o) THEN [file EXCEPT ![i] = item[o]] ELSE file
       /\ free' = IF IsFreed(o) THEN free \cup {i} ELSE free
       /\ item' = [item EXCEPT ![o] = Nothing]
       /\ dirty' = dirty \ {o} /\ allowed' = allowed \ {o} /\ forced' = forced \ {o}
       /\ UNCHANGED <<pageOf, known>>

(* The heap yields its elements in no particular order. *)
Remove(t) ==
    /\ pc[t] = "remove"
    /\ \E i \in victims[t] :
         LET rest == victims[t] \ {i}
             left == total[t] - size[i]
             stop == rest = {} \/ left < MaxBytes \div 2
         IN /\ DropPage(i)
            /\ victims' = [victims EXCEPT ![t] = IF stop THEN {} ELSE rest]
            /\ total' = [total EXCEPT ![t] = IF stop THEN 0 ELSE left]
            /\ IF stop THEN writer' = Nobody /\ Goto(t, "done") ELSE UNCHANGED <<writer, pc>>
    /\ UNCHANGED <<readers, threadVars, ops>>

RemoveAll(t) ==
    /\ pc[t] = "removeAll"
    /\ \E i \in victims[t] :
         LET rest == victims[t] \ {i}
         IN /\ \A j \in rest : i < j
            /\ DropPage(i)
            /\ victims' = [victims EXCEPT ![t] = rest]
            /\ total' = [total EXCEPT ![t] = IF rest = {} THEN 0 ELSE @]
            /\ IF rest = {} THEN writer' = Nobody /\ Goto(t, "done")
               ELSE UNCHANGED <<writer, pc>>
    /\ UNCHANGED <<readers, threadVars, ops>>

-----------------------------------------------------------------------------
(* What a thread does within a call. *)
Step(t) == \/ Lookup(t) \/ Insert(t) \/ Fill(t) \/ Open(t) \/ Add(t) \/ Done(t)
           \/ Evict(t) \/ Remove(t) \/ RemoveAll(t)

Next == \E t \in Threads :
          \/ Step(t) \/ Flush(t)
          \/ \E i \in Ids : Get(t, i) \/ \E v \in Values : NewPage(t, i, v)
          \/ \E o \in Objects : \/ LetGo(t, o) \/ AllowFree(t, o) \/ ForceFree(t, o)
                               \/ \E v \in Values : Write(t, o, v)

Spec == Init /\ [][Next]_vars

FairSpec == Spec /\ \A t \in Threads : WF_vars(Step(t))

-----------------------------------------------------------------------------
TypeOK ==
    /\ writer \in Threads \cup {Nobody} /\ readers \subseteq Threads
    /\ cell \in [Ids -> {"absent", "empty", "filling", "filled"}]
    /\ object \in [Ids -> Objects \cup {NoObject}]
    /\ size \in [Ids -> Nat] /\ bytes \in Nat
    /\ pageOf \in [Objects -> Ids]
    /\ item \in [Objects -> Values \cup {Nothing}]
    /\ dirty \subseteq Objects /\ allowed \subseteq Objects /\ forced \subseteq Objects
    /\ free \subseteq Ids /\ known \subseteq Ids
    /\ file \in [Ids -> Values \cup {Nothing}]
    /\ pc \in [Threads -> Labels] /\ id \in [Threads -> Ids]
    /\ fresh \in [Threads -> Values \cup {Nothing}]
    /\ hands \in [Threads -> SUBSET Objects]
    /\ victims \in [Threads -> SUBSET Ids] /\ total \in [Threads -> Nat]
    /\ ops \in 0 .. MaxOps

(* All who have a page have the same: two objects of one id would each     *)
(* take writes the other does not see, and the last dropped would win      *)
(* (get_or_insert 46-98, evict 100-142).                                   *)
OneCopy == \A o, p \in Objects :
             Live(o) /\ Live(p) /\ o # p => pageOf[o] # pageOf[p]

(* The comments on lines 111-113 and 150-153: a page found unused stays    *)
(* unused until it is removed.                                             *)
VictimsUnused == \A t \in Threads : \A i \in victims[t] :
                   writer = t /\ cell[i] = "filled" /\ ~Held(object[i])

(* cached_bytes never falls below what is in the cache, so that the        *)
(* subtraction on line 129 does not wrap.  It may be more: a thread that   *)
(* waited for another to fill a cell counts the page again.                *)
BytesCover ==
    /\ readers = {} => bytes >= MapThenSumSet(LAMBDA i : size[i], Ids)
    /\ \A t \in Threads :
         pc[t] = "remove" => total[t] >= MapThenSumSet(LAMBDA i : size[i], victims[t])

(* new_page_with: "this set will always insert, never get", for an id is   *)
(* not handed out again before its page has left the cache.                *)
NewPageInserts ==
    \A t \in Threads :
      fresh[t] # Nothing /\ pc[t] \in {"lookup", "insert"} => cell[id[t]] = "absent"

(* What a caller reads of a page. *)
Item(i) == IF cell[i] = "filled" THEN item[object[i]] ELSE file[i]

Opened == {i \in known : cell[i] = "filled"}

(* Seen by callers the cache is the map of PageStore: a get sees the last  *)
(* write to its id by any thread, whatever was evicted in between.         *)
Store == INSTANCE PageStore WITH
             Values <- Values \cup {Nothing}, None <- NoObject,
             value <- [i \in Ids |-> IF i \in known THEN Item(i) ELSE NoObject],
             stable <- [i \in Ids |-> NoObject],
             open <- Opened

StoreSpec == Store!Spec

(* Every call ends: the lock of the cache, the cells and the pages that    *)
(* wait to be opened are never waited for in a circle.                     *)
CallsEnd == \A t \in Threads : pc[t] # "idle" ~> pc[t] = "idle"
=============================================================================
