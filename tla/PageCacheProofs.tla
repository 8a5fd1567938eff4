-------------------------- MODULE PageCacheProofs --------------------------
(***************************************************************************)
(* Theorems about PageCache, for all threads, ids, objects, sizes and      *)
(* limits that satisfy CacheConstants.                                     *)
(*                                                                         *)
(* The argument has layers, each an invariant that uses those before it.   *)
(*                                                                         *)
(*   LockInv   while a thread removes pages nobody has the read lock, so   *)
(*             that nobody is between the insertion of a cell and the      *)
(*             counting of its bytes;                                      *)
(*   CellInv   a page that anybody has is the one in the cell of its id,   *)
(*             a cell is filled by one thread, and victims are unused;     *)
(*   IdInv     an id is free, or being made by one thread, or known, or    *)
(*             on its way back to the allocator, and never two of these;   *)
(*   DataInv   a page that is not dirty has the item of the file, and a    *)
(*             thread has the page it has made until its call returns;     *)
(*   ByteInv   cached_bytes has all pages but those whose bytes a thread   *)
(*             is about to count.                                          *)
(***************************************************************************)
EXTENDS PageCache, FiniteSetTheorems, NaturalsInduction, WellFoundedInduction, TLAPS

SlotTypes ==
    /\ writer \in Threads \cup {Nobody} /\ readers \subseteq Threads
    /\ cell \in [Ids -> {"absent", "empty", "filling", "filled"}]
    /\ object \in [Ids -> Objects \cup {NoObject}]
    /\ pageOf \in [Objects -> Ids]
    /\ pc \in [Threads -> Labels] /\ id \in [Threads -> Ids]
    /\ hands \in [Threads -> SUBSET Objects]
    /\ victims \in [Threads -> SUBSET Ids]
    /\ fresh \in [Threads -> Values \cup {Nothing}]
    /\ free \subseteq Ids /\ known \subseteq Ids

LockInv ==
    /\ writer # Nobody => readers = {}
    /\ \A t \in Threads : pc[t] \in {"fill", "open", "add"} => t \in readers
    /\ \A t \in Threads : pc[t] \in {"remove", "removeAll"} => writer = t

(* The cell of an id and the object in it. *)
FilledInv ==
    \A i \in Ids : /\ cell[i] = "filled" => object[i] \in Objects /\ pageOf[object[i]] = i
                   /\ cell[i] # "filled" => object[i] = NoObject

(* One thread at a time opens the page of an id. *)
FillInv ==
    /\ \A t \in Threads : pc[t] = "open" => cell[id[t]] = "filling"
    /\ \A t, u \in Threads : pc[t] = "open" /\ pc[u] = "open" /\ id[t] = id[u] => t = u

(* What a thread has is what is in the cache. *)
HandsInv == \A t \in Threads : \A o \in hands[t] : object[pageOf[o]] = o

CellInv == FilledInv /\ FillInv /\ HandsInv /\ VictimsUnused

SlotInv == SlotTypes /\ LockInv /\ CellInv

(* Thread t works with the page id[t]. *)
Using(t) == pc[t] \in {"lookup", "insert", "fill", "open", "add"} \/ fresh[t] # Nothing

(* A new page's id belongs to the thread that makes it. *)
MakerInv ==
    \A t \in Threads :
      /\ pc[t] = "idle" => fresh[t] = Nothing
      /\ Using(t) => id[t] \notin free
      /\ fresh[t] # Nothing =>
           /\ id[t] \notin known
           /\ \A u \in Threads : Using(u) /\ id[u] = id[t] => u = t

FreeInv == \A i \in free : i \notin known /\ cell[i] = "absent"

(* Nobody comes for a page that was marked as free. *)
MarkedInv == \A o \in allowed \cup forced :
               /\ o \in Objects /\ object[pageOf[o]] = o
               /\ pageOf[o] \notin known
               /\ \A t \in Threads : Using(t) => id[t] # pageOf[o]

IdInv == MakerInv /\ FreeInv /\ MarkedInv /\ NewPageInserts

ItemTypes == /\ item \in [Objects -> Values \cup {Nothing}]
             /\ file \in [Ids -> Values \cup {Nothing}]

(* An evicted page need not be written when it is not dirty. *)
CleanInv == \A i \in Ids : cell[i] = "filled" /\ object[i] \notin dirty =>
                            item[object[i]] = file[i]

(* new_page_with has the new page until it returns the id. *)
MadeInv == \A t \in Threads :
             fresh[t] # Nothing /\ pc[t] \notin {"lookup", "insert", "fill", "open"} =>
               object[id[t]] \in hands[t]

DataInv == ItemTypes /\ CleanInv /\ MadeInv

-----------------------------------------------------------------------------
(* Sentinels are not members. *)
LEMMA Apart == Nobody \notin Threads /\ NoObject \notin Objects
  BY CacheConstants

(* The initial state satisfies the invariants. *)
LEMMA InitSlot == Init => SlotInv
  <1> SUFFICES ASSUME Init PROVE SlotInv
    OBVIOUS
  <1>1. (CHOOSE i \in Ids : TRUE) \in Ids
    BY CacheConstants
  <1>2. SlotTypes
    BY <1>1 DEF Init, SlotTypes, Labels
  <1>3. LockInv
    BY DEF Init, LockInv
  <1>4. CellInv
    BY DEF Init, CellInv, FilledInv, FillInv, HandsInv, VictimsUnused
  <1> QED
    BY <1>2, <1>3, <1>4 DEF SlotInv

LEMMA InitId == Init => IdInv
  BY DEF Init, IdInv, MakerInv, FreeInv, MarkedInv, NewPageInserts, Using

(* Each action keeps SlotInv. *)
LEMMA GetSlot ==
    ASSUME SlotInv, NEW t \in Threads, NEW i \in Ids, Get(t, i)
    PROVE SlotInv'
  <1> USE DEF Get, Call, Goto, Labels, lockVars, cellVars, objectVars, idVars, evictVars
  <1>1. SlotTypes'
    BY DEF SlotInv, SlotTypes
  <1>2. LockInv'
    BY DEF SlotInv, LockInv
  <1>3. FilledInv'
    BY DEF SlotInv, CellInv, FilledInv
  <1>4. FillInv'
    BY DEF SlotInv, CellInv, FillInv
  <1>5. HandsInv'
    BY DEF SlotInv, CellInv, HandsInv
  <1>6. VictimsUnused'
    BY DEF SlotInv, CellInv, VictimsUnused, Held
  <1> QED
    BY <1>1, <1>2, <1>3, <1>4, <1>5, <1>6 DEF SlotInv, CellInv

LEMMA NewPageSlot ==
    ASSUME SlotInv, NEW t \in Threads, NEW i \in Ids, NEW v \in Values, NewPage(t, i, v)
    PROVE SlotInv'
  <1> USE DEF NewPage, Call, Goto, Labels, lockVars, cellVars, objectVars, evictVars
  <1>1. SlotTypes'
    BY DEF SlotInv, SlotTypes
  <1>2. LockInv'
    BY DEF SlotInv, LockInv
  <1>3. FilledInv'
    BY DEF SlotInv, CellInv, FilledInv
  <1>4. FillInv'
    BY DEF SlotInv, CellInv, FillInv
  <1>5. HandsInv'
    BY DEF SlotInv, CellInv, HandsInv
  <1>6. VictimsUnused'
    BY DEF SlotInv, CellInv, VictimsUnused, Held
  <1> QED
    BY <1>1, <1>2, <1>3, <1>4, <1>5, <1>6 DEF SlotInv, CellInv

LEMMA FlushSlot ==
    ASSUME SlotInv, NEW t \in Threads, Flush(t)
    PROVE SlotInv'
  <1> USE DEF Flush, Goto, Labels, lockVars, cellVars, objectVars, idVars, threadVars,
              evictVars
  <1>1. SlotTypes'
    BY DEF SlotInv, SlotTypes
  <1>2. LockInv'
    BY DEF SlotInv, LockInv
  <1>3. FilledInv'
    BY DEF SlotInv, CellInv, FilledInv
  <1>4. FillInv'
    BY DEF SlotInv, CellInv, FillInv
  <1>5. HandsInv'
    BY DEF SlotInv, CellInv, HandsInv
  <1>6. VictimsUnused'
    BY DEF SlotInv, CellInv, VictimsUnused, Held
  <1> QED
    BY <1>1, <1>2, <1>3, <1>4, <1>5, <1>6 DEF SlotInv, CellInv

LEMMA LookupSlot ==
    ASSUME SlotInv, NEW t \in Threads, Lookup(t)
    PROVE SlotInv'
  <1> USE DEF Lookup, Goto, Labels, lockVars, cellVars, objectVars, idVars, evictVars
  <1>1. SlotTypes'
    BY DEF SlotInv, SlotTypes, CellInv, FilledInv
  <1>2. LockInv'
    BY DEF SlotInv, SlotTypes, LockInv
  <1>3. FilledInv'
    BY DEF SlotInv, CellInv, FilledInv
  <1>4. FillInv'
    BY DEF SlotInv, SlotTypes, CellInv, FillInv
  <1>5. HandsInv'
    BY DEF SlotInv, SlotTypes, CellInv, FilledInv, HandsInv
  <1>6. VictimsUnused'
    BY Apart DEF SlotInv, CellInv, VictimsUnused
  <1> QED
    BY <1>1, <1>2, <1>3, <1>4, <1>5, <1>6 DEF SlotInv, CellInv

LEMMA InsertSlot ==
    ASSUME SlotInv, NEW t \in Threads, Insert(t)
    PROVE SlotInv'
  <1> USE DEF Insert, Goto, Labels, objectVars, idVars, threadVars, evictVars
  <1>1. SlotTypes'
    BY DEF SlotInv, SlotTypes
  <1>2. LockInv'
    BY DEF SlotInv, LockInv
  <1>3. FilledInv'
    BY DEF SlotInv, CellInv, FilledInv
  <1>4. FillInv'
    BY DEF SlotInv, CellInv, FillInv
  <1>5. HandsInv'
    BY DEF SlotInv, CellInv, HandsInv
  <1>6. VictimsUnused'
    BY Apart DEF SlotInv, CellInv, VictimsUnused
  <1> QED
    BY <1>1, <1>2, <1>3, <1>4, <1>5, <1>6 DEF SlotInv, CellInv

LEMMA FillSlot ==
    ASSUME SlotInv, NEW t \in Threads, Fill(t)
    PROVE SlotInv'
  <1> USE DEF Fill, MayFill, Goto, Labels, lockVars, objectVars, idVars, evictVars
  <1>1. SlotTypes'
    BY DEF SlotInv, SlotTypes, CellInv, FilledInv
  <1>2. LockInv'
    BY DEF SlotInv, SlotTypes, LockInv
  <1>3. FilledInv'
    BY DEF SlotInv, SlotTypes, CellInv, FilledInv
  <1>4. FillInv'
    BY DEF SlotInv, SlotTypes, CellInv, FillInv
  <1>5. HandsInv'
    BY DEF SlotInv, SlotTypes, CellInv, FilledInv, HandsInv
  <1>6. VictimsUnused'
    BY Apart DEF SlotInv, LockInv, CellInv, VictimsUnused
  <1> QED
    BY <1>1, <1>2, <1>3, <1>4, <1>5, <1>6 DEF SlotInv, CellInv

LEMMA OpenSlot ==
    ASSUME SlotInv, NEW t \in Threads, Open(t)
    PROVE SlotInv'
  <1> USE DEF Open, Goto, Labels, lockVars, idVars, evictVars
  <1>1. SlotTypes'
    BY DEF SlotInv, SlotTypes
  <1>2. LockInv'
    BY DEF SlotInv, LockInv
  <1>3. FilledInv'
    BY DEF SlotInv, SlotTypes, CellInv, FilledInv, Live
  <1>4. FillInv'
    BY DEF SlotInv, SlotTypes, CellInv, FillInv
  <1>5. HandsInv'
    BY Apart DEF SlotInv, SlotTypes, CellInv, FilledInv, FillInv, HandsInv
  <1>6. VictimsUnused'
    BY Apart DEF SlotInv, LockInv, CellInv, VictimsUnused
  <1> QED
    BY <1>1, <1>2, <1>3, <1>4, <1>5, <1>6 DEF SlotInv, CellInv

LEMMA AddSlot ==
    ASSUME SlotInv, NEW t \in Threads, Add(t)
    PROVE SlotInv'
  <1> USE DEF Add, GiveBack, Goto, Labels, objectVars, idVars, threadVars, evictVars
  <1>1. SlotTypes'
    BY DEF SlotInv, SlotTypes
  <1>2. LockInv'
    BY DEF SlotInv, SlotTypes, LockInv
  <1>3. FilledInv'
    BY DEF SlotInv, CellInv, FilledInv
  <1>4. FillInv'
    BY DEF SlotInv, CellInv, FillInv
  <1>5. HandsInv'
    BY DEF SlotInv, CellInv, HandsInv
  <1>6. VictimsUnused'
    BY DEF SlotInv, CellInv, VictimsUnused, Held
  <1> QED
    BY <1>1, <1>2, <1>3, <1>4, <1>5, <1>6 DEF SlotInv, CellInv

LEMMA DoneSlot ==
    ASSUME SlotInv, NEW t \in Threads, Done(t)
    PROVE SlotInv'
  <1> USE DEF Done, Goto, Labels, lockVars, cellVars, objectVars, evictVars
  <1>1. SlotTypes'
    BY DEF SlotInv, SlotTypes
  <1>2. LockInv'
    BY DEF SlotInv, LockInv
  <1>3. FilledInv'
    BY DEF SlotInv, CellInv, FilledInv
  <1>4. FillInv'
    BY DEF SlotInv, CellInv, FillInv
  <1>5. HandsInv'
    BY DEF SlotInv, SlotTypes, CellInv, HandsInv
  <1>6. VictimsUnused'
    BY DEF SlotInv, SlotTypes, CellInv, VictimsUnused, Held
  <1> QED
    BY <1>1, <1>2, <1>3, <1>4, <1>5, <1>6 DEF SlotInv, CellInv

LEMMA LetGoSlot ==
    ASSUME SlotInv, NEW t \in Threads, NEW o \in Objects, LetGo(t, o)
    PROVE SlotInv'
  <1> USE DEF LetGo, lockVars, cellVars, objectVars, idVars, evictVars
  <1>1. SlotTypes'
    BY DEF SlotInv, SlotTypes
  <1>2. LockInv'
    BY DEF SlotInv, LockInv
  <1>3. FilledInv'
    BY DEF SlotInv, CellInv, FilledInv
  <1>4. FillInv'
    BY DEF SlotInv, CellInv, FillInv
  <1>5. HandsInv'
    BY DEF SlotInv, CellInv, HandsInv
  <1>6. VictimsUnused'
    BY DEF SlotInv, CellInv, VictimsUnused, Held
  <1> QED
    BY <1>1, <1>2, <1>3, <1>4, <1>5, <1>6 DEF SlotInv, CellInv

LEMMA EvictSlot ==
    ASSUME SlotInv, NEW t \in Threads, Evict(t)
    PROVE SlotInv'
  <1> USE DEF Evict, MayEvict, Goto, Labels, cellVars, objectVars, idVars, threadVars,
              evictVars
  <1>1. SlotTypes'
    BY DEF SlotInv, SlotTypes
  <1>2. LockInv'
    BY Apart DEF SlotInv, SlotTypes, LockInv
  <1>3. FilledInv'
    BY DEF SlotInv, CellInv, FilledInv
  <1>4. FillInv'
    BY DEF SlotInv, SlotTypes, CellInv, FillInv
  <1>5. HandsInv'
    BY DEF SlotInv, CellInv, HandsInv
  <1>6. VictimsUnused'
    BY Apart DEF SlotInv, SlotTypes, CellInv, VictimsUnused, Held
  <1> QED
    BY <1>1, <1>2, <1>3, <1>4, <1>5, <1>6 DEF SlotInv, CellInv

(* What Remove and RemoveAll have in common: the page of one victim is     *)
(* dropped, and the thread goes on with some of the others or ends.        *)
Removal(t, i) ==
    /\ pc[t] \in {"remove", "removeAll"} /\ i \in victims[t]
    /\ DropPage(i)
    /\ \E rest \in SUBSET (victims[t] \ {i}) :
         /\ victims' = [victims EXCEPT ![t] = rest]
         /\ \/ writer' = writer /\ pc' = pc
            \/ rest = {} /\ writer' = Nobody /\ pc' = [pc EXCEPT ![t] = "done"]
    /\ UNCHANGED <<readers, threadVars>>

LEMMA RemoveIsRemoval ==
    ASSUME NEW t \in Threads, Remove(t) \/ RemoveAll(t)
    PROVE \E i \in victims[t] : Removal(t, i)
  <1>1. CASE Remove(t)
    BY <1>1 DEF Remove, Removal, Goto
  <1>2. CASE RemoveAll(t)
    BY <1>2 DEF RemoveAll, Removal, Goto
  <1> QED
    BY <1>1, <1>2

LEMMA RemovalSlot ==
    ASSUME SlotInv, NEW t \in Threads, NEW i \in victims[t], Removal(t, i)
    PROVE SlotInv'
  <1> USE DEF Removal, DropPage, Labels, threadVars
  <1>1. SlotTypes'
    BY DEF SlotInv, SlotTypes
  <1>2. LockInv'
    BY DEF SlotInv, SlotTypes, LockInv
  <1>3. FilledInv'
    BY DEF SlotInv, SlotTypes, CellInv, FilledInv
  <1>4. FillInv'
    BY DEF SlotInv, SlotTypes, CellInv, FillInv, VictimsUnused
  <1>5. HandsInv'
    BY DEF SlotInv, CellInv, HandsInv, VictimsUnused, Held
  <1>6. VictimsUnused'
    BY DEF SlotInv, SlotTypes, CellInv, VictimsUnused, Held
  <1> QED
    BY <1>1, <1>2, <1>3, <1>4, <1>5, <1>6 DEF SlotInv, CellInv

(* Writing to a page and marking it change no slot. *)
LEMMA MarkOrWriteSlot ==
    ASSUME SlotInv, UNCHANGED <<lockVars, cell, object, pageOf, pc, threadVars, victims>>,
           free' \subseteq Ids, known' \subseteq Ids
    PROVE SlotInv'
  <1> USE DEF lockVars, threadVars
  <1>1. SlotTypes'
    BY DEF SlotInv, SlotTypes
  <1>2. LockInv'
    BY DEF SlotInv, LockInv
  <1>3. FilledInv'
    BY DEF SlotInv, CellInv, FilledInv
  <1>4. FillInv'
    BY DEF SlotInv, CellInv, FillInv
  <1>5. HandsInv'
    BY DEF SlotInv, CellInv, HandsInv
  <1>6. VictimsUnused'
    BY DEF SlotInv, CellInv, VictimsUnused, Held
  <1> QED
    BY <1>1, <1>2, <1>3, <1>4, <1>5, <1>6 DEF SlotInv, CellInv

(* Every step keeps the layers of locks and cells. *)
LEMMA SlotStep == SlotInv /\ [Next]_vars => SlotInv'
  <1> SUFFICES ASSUME SlotInv, [Next]_vars PROVE SlotInv'
    OBVIOUS
  <1>1. ASSUME NEW t \in Threads, Step(t) PROVE SlotInv'
    <2>1. CASE Remove(t) \/ RemoveAll(t)
      BY <2>1, RemoveIsRemoval, RemovalSlot
    <2> QED
      BY <1>1, <2>1, LookupSlot, InsertSlot, FillSlot, OpenSlot, AddSlot, DoneSlot, EvictSlot
         DEF Step
  <1>2. ASSUME NEW t \in Threads, NEW i \in Ids, Get(t, i) PROVE SlotInv'
    BY <1>2, GetSlot
  <1>3. ASSUME NEW t \in Threads, NEW i \in Ids, NEW v \in Values, NewPage(t, i, v)
        PROVE SlotInv'
    BY <1>3, NewPageSlot
  <1>4. ASSUME NEW t \in Threads, NEW o \in Objects, LetGo(t, o) PROVE SlotInv'
    BY <1>4, LetGoSlot
  <1>5. ASSUME NEW t \in Threads, NEW o \in Objects, AllowFree(t, o) \/ ForceFree(t, o)
        PROVE SlotInv'
    BY <1>5, MarkOrWriteSlot
       DEF AllowFree, ForceFree, cellVars, evictVars, SlotInv, SlotTypes
  <1>6. ASSUME NEW t \in Threads, NEW o \in Objects, NEW v \in Values, Write(t, o, v)
        PROVE SlotInv'
    BY <1>6, MarkOrWriteSlot
       DEF Write, cellVars, idVars, evictVars, SlotInv, SlotTypes
  <1>7. CASE UNCHANGED vars
    BY <1>7, MarkOrWriteSlot
       DEF vars, cellVars, objectVars, idVars, evictVars, SlotInv, SlotTypes
  <1> QED
    BY <1>1, <1>2, <1>3, <1>4, <1>5, <1>6, <1>7, FlushSlot DEF Next

(* Each action keeps IdInv. *)
LEMMA GetId ==
    ASSUME SlotInv, IdInv, NEW t \in Threads, NEW i \in Ids, Get(t, i)
    PROVE IdInv'
  <1> USE DEF Get, Call, Goto, cellVars, objectVars, idVars
  <1>1. MakerInv'
    BY DEF SlotInv, SlotTypes, IdInv, MakerInv, FreeInv, Using
  <1>2. FreeInv'
    BY DEF IdInv, FreeInv
  <1>3. MarkedInv'
    BY DEF SlotInv, SlotTypes, IdInv, MarkedInv, Using
  <1>4. NewPageInserts'
    BY DEF IdInv, MakerInv, NewPageInserts
  <1> QED
    BY <1>1, <1>2, <1>3, <1>4 DEF IdInv

LEMMA NewPageId ==
    ASSUME SlotInv, IdInv, NEW t \in Threads, NEW i \in Ids, NEW v \in Values,
           NewPage(t, i, v)
    PROVE IdInv'
  <1> USE DEF NewPage, Goto, cellVars, objectVars
  <1>1. MakerInv'
    BY DEF SlotInv, SlotTypes, IdInv, MakerInv, FreeInv, Using
  <1>2. FreeInv'
    BY DEF IdInv, FreeInv
  <1>3. MarkedInv'
    BY Apart DEF SlotInv, SlotTypes, CellInv, FilledInv, IdInv, FreeInv, MarkedInv, Using
  <1>4. NewPageInserts'
    BY DEF SlotInv, SlotTypes, IdInv, FreeInv, NewPageInserts
  <1> QED
    BY <1>1, <1>2, <1>3, <1>4 DEF IdInv

LEMMA FlushId ==
    ASSUME SlotInv, IdInv, NEW t \in Threads, Flush(t)
    PROVE IdInv'
  <1> USE DEF Flush, Goto, cellVars, objectVars, idVars, threadVars
  <1>1. MakerInv'
    BY DEF IdInv, MakerInv, Using
  <1>2. FreeInv'
    BY DEF IdInv, FreeInv
  <1>3. MarkedInv'
    BY DEF IdInv, MarkedInv, Using
  <1>4. NewPageInserts'
    BY DEF IdInv, NewPageInserts
  <1> QED
    BY <1>1, <1>2, <1>3, <1>4 DEF IdInv

LEMMA LookupId ==
    ASSUME SlotInv, IdInv, NEW t \in Threads, Lookup(t)
    PROVE IdInv'
  <1> USE DEF Lookup, Goto, cellVars, objectVars, idVars
  <1>1. MakerInv'
    BY DEF SlotInv, SlotTypes, IdInv, MakerInv, Using
  <1>2. FreeInv'
    BY DEF IdInv, FreeInv
  <1>3. MarkedInv'
    BY DEF SlotInv, SlotTypes, IdInv, MarkedInv, Using
  <1>4. NewPageInserts'
    BY DEF SlotInv, SlotTypes, IdInv, NewPageInserts
  <1> QED
    BY <1>1, <1>2, <1>3, <1>4 DEF IdInv

LEMMA InsertId ==
    ASSUME SlotInv, IdInv, NEW t \in Threads, Insert(t)
    PROVE IdInv'
  <1> USE DEF Insert, Goto, objectVars, idVars, threadVars
  <1>1. MakerInv'
    BY DEF IdInv, MakerInv, Using
  <1>2. FreeInv'
    BY DEF IdInv, MakerInv, FreeInv, Using
  <1>3. MarkedInv'
    BY DEF IdInv, MarkedInv, Using
  <1>4. NewPageInserts'
    BY DEF SlotInv, SlotTypes, IdInv, MakerInv, NewPageInserts, Using
  <1> QED
    BY <1>1, <1>2, <1>3, <1>4 DEF IdInv

LEMMA FillId ==
    ASSUME SlotInv, IdInv, NEW t \in Threads, Fill(t)
    PROVE IdInv'
  <1> USE DEF Fill, MayFill, Goto, objectVars, idVars
  <1>1. MakerInv'
    BY DEF SlotInv, SlotTypes, IdInv, MakerInv, Using
  <1>2. FreeInv'
    BY DEF SlotInv, SlotTypes, IdInv, FreeInv
  <1>3. MarkedInv'
    BY DEF SlotInv, SlotTypes, IdInv, MarkedInv, Using
  <1>4. NewPageInserts'
    BY DEF SlotInv, SlotTypes, IdInv, NewPageInserts
  <1> QED
    BY <1>1, <1>2, <1>3, <1>4 DEF IdInv

LEMMA OpenId ==
    ASSUME SlotInv, IdInv, NEW t \in Threads, Open(t)
    PROVE IdInv'
  <1> USE DEF Open, Goto, idVars
  <1>1. MakerInv'
    BY DEF IdInv, MakerInv, Using
  <1>2. FreeInv'
    BY DEF IdInv, MakerInv, FreeInv, Using
  <1>3. MarkedInv'
    BY DEF SlotInv, SlotTypes, Live, IdInv, MarkedInv, Using
  <1>4. NewPageInserts'
    BY DEF IdInv, MakerInv, NewPageInserts, Using
  <1> QED
    BY <1>1, <1>2, <1>3, <1>4 DEF IdInv

LEMMA AddId ==
    ASSUME SlotInv, IdInv, NEW t \in Threads, Add(t)
    PROVE IdInv'
  <1> USE DEF Add, Goto, objectVars, idVars, threadVars
  <1>1. MakerInv'
    BY DEF IdInv, MakerInv, Using
  <1>2. FreeInv'
    BY DEF IdInv, FreeInv
  <1>3. MarkedInv'
    BY DEF IdInv, MarkedInv, Using
  <1>4. NewPageInserts'
    BY DEF IdInv, NewPageInserts
  <1> QED
    BY <1>1, <1>2, <1>3, <1>4 DEF IdInv

LEMMA DoneId ==
    ASSUME SlotInv, IdInv, NEW t \in Threads, Done(t)
    PROVE IdInv'
  <1> USE DEF Done, Goto, cellVars, objectVars
  <1>1. MakerInv'
    BY DEF SlotInv, SlotTypes, IdInv, MakerInv, Using
  <1>2. FreeInv'
    BY DEF IdInv, MakerInv, FreeInv, Using
  <1>3. MarkedInv'
    BY DEF IdInv, MarkedInv, Using
  <1>4. NewPageInserts'
    BY DEF IdInv, NewPageInserts
  <1> QED
    BY <1>1, <1>2, <1>3, <1>4 DEF IdInv

LEMMA LetGoId ==
    ASSUME SlotInv, IdInv, NEW t \in Threads, NEW o \in Objects, LetGo(t, o)
    PROVE IdInv'
  <1> USE DEF LetGo, cellVars, objectVars, idVars
  <1>1. MakerInv'
    BY DEF IdInv, MakerInv, Using
  <1>2. FreeInv'
    BY DEF IdInv, FreeInv
  <1>3. MarkedInv'
    BY DEF IdInv, MarkedInv, Using
  <1>4. NewPageInserts'
    BY DEF IdInv, NewPageInserts
  <1> QED
    BY <1>1, <1>2, <1>3, <1>4 DEF IdInv

LEMMA MarkId ==
    ASSUME SlotInv, IdInv, NEW t \in Threads, NEW o \in Objects,
           AllowFree(t, o) \/ ForceFree(t, o)
    PROVE IdInv'
  <1> USE DEF AllowFree, ForceFree, Inaccessible, cellVars, threadVars
  <1>1. MakerInv'
    BY DEF IdInv, MakerInv, Using
  <1>2. FreeInv'
    BY DEF IdInv, FreeInv
  <1>3. MarkedInv'
    BY DEF SlotInv, CellInv, HandsInv, IdInv, MakerInv, MarkedInv, Using
  <1>4. NewPageInserts'
    BY DEF IdInv, NewPageInserts
  <1> QED
    BY <1>1, <1>2, <1>3, <1>4 DEF IdInv

LEMMA WriteId ==
    ASSUME SlotInv, IdInv, NEW t \in Threads, NEW o \in Objects,
           NEW v \in Values, Write(t, o, v)
    PROVE IdInv'
  <1> USE DEF Write, cellVars, idVars, threadVars
  <1>1. MakerInv'
    BY DEF IdInv, MakerInv, Using
  <1>2. FreeInv'
    BY DEF IdInv, FreeInv
  <1>3. MarkedInv'
    BY DEF IdInv, MarkedInv, Using
  <1>4. NewPageInserts'
    BY DEF IdInv, NewPageInserts
  <1> QED
    BY <1>1, <1>2, <1>3, <1>4 DEF IdInv

LEMMA EvictId ==
    ASSUME SlotInv, IdInv, NEW t \in Threads, Evict(t)
    PROVE IdInv'
  <1> USE DEF Evict, Goto, cellVars, objectVars, idVars, threadVars
  <1>1. MakerInv'
    BY DEF SlotInv, SlotTypes, IdInv, MakerInv, Using
  <1>2. FreeInv'
    BY DEF IdInv, FreeInv
  <1>3. MarkedInv'
    BY DEF SlotInv, SlotTypes, IdInv, MarkedInv, Using
  <1>4. NewPageInserts'
    BY DEF SlotInv, SlotTypes, IdInv, NewPageInserts
  <1> QED
    BY <1>1, <1>2, <1>3, <1>4 DEF IdInv

LEMMA RemovalId ==
    ASSUME SlotInv, IdInv, NEW t \in Threads, NEW i \in victims[t], Removal(t, i)
    PROVE IdInv'
  <1> USE DEF Removal, DropPage, IsFreed, threadVars
  <1>0. pageOf[object[i]] = i
    BY DEF SlotInv, CellInv, FilledInv, VictimsUnused, SlotTypes
  <1>1. MakerInv'
    BY <1>0 DEF SlotInv, SlotTypes, IdInv, MakerInv, MarkedInv, Using
  <1>2. FreeInv'
    BY <1>0 DEF SlotInv, SlotTypes, IdInv, FreeInv, MarkedInv
  <1>3. MarkedInv'
    BY DEF SlotInv, SlotTypes, IdInv, MarkedInv, Using
  <1>4. NewPageInserts'
    BY DEF SlotInv, SlotTypes, IdInv, NewPageInserts
  <1> QED
    BY <1>1, <1>2, <1>3, <1>4 DEF IdInv

(* Every step keeps the layer of ids. *)
LEMMA IdStep == SlotInv /\ IdInv /\ [Next]_vars => IdInv'
  <1> SUFFICES ASSUME SlotInv, IdInv, [Next]_vars PROVE IdInv'
    OBVIOUS
  <1>1. ASSUME NEW t \in Threads, Step(t) PROVE IdInv'
    <2>1. CASE Remove(t) \/ RemoveAll(t)
      BY <2>1, RemoveIsRemoval, RemovalId
    <2> QED
      BY <1>1, <2>1, LookupId, InsertId, FillId, OpenId, AddId, DoneId, EvictId DEF Step
  <1>2. CASE UNCHANGED vars
    BY <1>2 DEF vars, cellVars, objectVars, idVars, threadVars, IdInv, MakerInv, FreeInv,
                MarkedInv, NewPageInserts, Using
  <1> QED
    BY <1>1, <1>2, GetId, NewPageId, FlushId, LetGoId, MarkId, WriteId DEF Next

-----------------------------------------------------------------------------
LEMMA SlotInvariant == Spec => []SlotInv
  <1> QED
    BY InitSlot, SlotStep, PTL DEF Spec

(* An id never has two pages in memory: get_or_insert, evict and the drop  *)
(* of a page leave one object for all who have the id.                     *)
THEOREM CacheHasOneCopy == Spec => []OneCopy
  <1>1. SlotInv => OneCopy
    <2> SUFFICES ASSUME SlotInv, NEW o \in Objects, Live(o) PROVE object[pageOf[o]] = o
      BY DEF OneCopy
    <2>1. CASE Held(o)
      BY <2>1 DEF Held, SlotInv, CellInv, HandsInv
    <2>2. CASE \E i \in Ids : object[i] = o
      BY <2>2, Apart DEF SlotInv, CellInv, FilledInv
    <2> QED
      BY <2>1, <2>2 DEF Live
  <1> QED
    BY <1>1, SlotInvariant, PTL

(* evict and evict_all_possible remove only pages that nobody but the      *)
(* cache has an Arc of, at the time they are removed.                      *)
THEOREM EvictionSparesUsedPages == Spec => []VictimsUnused
  <1>1. SlotInv => VictimsUnused
    BY DEF SlotInv, CellInv
  <1> QED
    BY <1>1, SlotInvariant, PTL

(* new_page_with never gets a page that is still in the cache from the     *)
(* time before its id was freed.                                           *)
THEOREM NewPagesAreNew == Spec => []NewPageInserts
  <1>1. Init => IdInv
    BY InitId
  <1>2. SlotInv /\ IdInv /\ [Next]_vars => IdInv'
    BY IdStep
  <1>3. IdInv => NewPageInserts
    BY DEF IdInv
  <1> QED
    BY <1>1, <1>2, <1>3, SlotInvariant, PTL DEF Spec

-----------------------------------------------------------------------------
LEMMA InitData == Init => DataInv
  BY DEF Init, DataInv, ItemTypes, CleanInv, MadeInv

(* Each action keeps DataInv. *)
LEMMA GetData ==
    ASSUME SlotInv, IdInv, DataInv, NEW t \in Threads, NEW i \in Ids, Get(t, i)
    PROVE DataInv'
  <1> USE DEF Get, Call, Goto, cellVars, objectVars, idVars
  <1>1. ItemTypes'
    BY DEF DataInv, ItemTypes
  <1>2. CleanInv'
    BY DEF DataInv, CleanInv
  <1>3. MadeInv'
    BY DEF IdInv, MakerInv, DataInv, MadeInv
  <1> QED
    BY <1>1, <1>2, <1>3 DEF DataInv

LEMMA NewPageData ==
    ASSUME SlotInv, IdInv, DataInv, NEW t \in Threads, NEW i \in Ids,
           NEW v \in Values, NewPage(t, i, v)
    PROVE DataInv'
  <1> USE DEF NewPage, Goto, cellVars, objectVars
  <1>1. ItemTypes'
    BY DEF DataInv, ItemTypes
  <1>2. CleanInv'
    BY DEF DataInv, CleanInv
  <1>3. MadeInv'
    BY DEF SlotInv, SlotTypes, DataInv, MadeInv
  <1> QED
    BY <1>1, <1>2, <1>3 DEF DataInv

LEMMA FlushData ==
    ASSUME SlotInv, IdInv, DataInv, NEW t \in Threads, Flush(t)
    PROVE DataInv'
  <1> USE DEF Flush, Call, Goto, cellVars, objectVars, idVars, threadVars
  <1>1. ItemTypes'
    BY DEF DataInv, ItemTypes
  <1>2. CleanInv'
    BY DEF DataInv, CleanInv
  <1>3. MadeInv'
    BY DEF DataInv, MadeInv
  <1> QED
    BY <1>1, <1>2, <1>3 DEF DataInv

LEMMA LookupData ==
    ASSUME SlotInv, IdInv, DataInv, NEW t \in Threads, Lookup(t)
    PROVE DataInv'
  <1> USE DEF Lookup, Goto, cellVars, objectVars, idVars
  <1>1. ItemTypes'
    BY DEF DataInv, ItemTypes
  <1>2. CleanInv'
    BY DEF DataInv, CleanInv
  <1>3. MadeInv'
    BY DEF SlotInv, SlotTypes, DataInv, MadeInv
  <1> QED
    BY <1>1, <1>2, <1>3 DEF DataInv

LEMMA InsertData ==
    ASSUME SlotInv, IdInv, DataInv, NEW t \in Threads, Insert(t)
    PROVE DataInv'
  <1> USE DEF Insert, Goto, objectVars, idVars, threadVars
  <1>1. ItemTypes'
    BY DEF DataInv, ItemTypes
  <1>2. CleanInv'
    BY DEF DataInv, CleanInv
  <1>3. MadeInv'
    BY DEF DataInv, MadeInv
  <1> QED
    BY <1>1, <1>2, <1>3 DEF DataInv

LEMMA FillData ==
    ASSUME SlotInv, IdInv, DataInv, NEW t \in Threads, Fill(t)
    PROVE DataInv'
  <1> USE DEF Fill, Goto, objectVars, idVars
  <1>1. ItemTypes'
    BY DEF DataInv, ItemTypes
  <1>2. CleanInv'
    BY DEF SlotInv, SlotTypes, DataInv, CleanInv
  <1>3. MadeInv'
    BY DEF SlotInv, SlotTypes, DataInv, MadeInv
  <1> QED
    BY <1>1, <1>2, <1>3 DEF DataInv

LEMMA OpenData ==
    ASSUME SlotInv, IdInv, DataInv, NEW t \in Threads, Open(t)
    PROVE DataInv'
  <1> USE DEF Open, NewIsDirty, Goto, idVars
  <1>1. ItemTypes'
    BY DEF SlotInv, SlotTypes, DataInv, ItemTypes
  <1>2. CleanInv'
    BY DEF SlotInv, SlotTypes, Live, DataInv, ItemTypes, CleanInv
  <1>3. MadeInv'
    BY DEF SlotInv, SlotTypes, IdInv, MakerInv, DataInv, MadeInv, Using
  <1> QED
    BY <1>1, <1>2, <1>3 DEF DataInv

LEMMA AddData ==
    ASSUME SlotInv, IdInv, DataInv, NEW t \in Threads, Add(t)
    PROVE DataInv'
  <1> USE DEF Add, Goto, objectVars, idVars, threadVars
  <1>1. ItemTypes'
    BY DEF DataInv, ItemTypes
  <1>2. CleanInv'
    BY DEF DataInv, CleanInv
  <1>3. MadeInv'
    BY DEF DataInv, MadeInv
  <1> QED
    BY <1>1, <1>2, <1>3 DEF DataInv

LEMMA DoneData ==
    ASSUME SlotInv, IdInv, DataInv, NEW t \in Threads, Done(t)
    PROVE DataInv'
  <1> USE DEF Done, Goto, cellVars, objectVars
  <1>1. ItemTypes'
    BY DEF DataInv, ItemTypes
  <1>2. CleanInv'
    BY DEF DataInv, CleanInv
  <1>3. MadeInv'
    BY DEF SlotInv, SlotTypes, DataInv, MadeInv
  <1> QED
    BY <1>1, <1>2, <1>3 DEF DataInv

LEMMA LetGoData ==
    ASSUME SlotInv, IdInv, DataInv, NEW t \in Threads, NEW o \in Objects, LetGo(t, o)
    PROVE DataInv'
  <1> USE DEF LetGo, cellVars, objectVars, idVars
  <1>1. ItemTypes'
    BY DEF DataInv, ItemTypes
  <1>2. CleanInv'
    BY DEF DataInv, CleanInv
  <1>3. MadeInv'
    BY DEF IdInv, MakerInv, DataInv, MadeInv
  <1> QED
    BY <1>1, <1>2, <1>3 DEF DataInv

LEMMA MarkData ==
    ASSUME SlotInv, IdInv, DataInv, NEW t \in Threads, NEW o \in Objects,
           AllowFree(t, o) \/ ForceFree(t, o)
    PROVE DataInv'
  <1> USE DEF AllowFree, ForceFree, cellVars, threadVars
  <1>1. ItemTypes'
    BY DEF DataInv, ItemTypes
  <1>2. CleanInv'
    BY DEF SlotInv, CellInv, FilledInv, DataInv, ItemTypes, CleanInv
  <1>3. MadeInv'
    BY DEF DataInv, MadeInv
  <1> QED
    BY <1>1, <1>2, <1>3 DEF DataInv

LEMMA WriteData ==
    ASSUME SlotInv, IdInv, DataInv, NEW t \in Threads, NEW o \in Objects,
           NEW v \in Values, Write(t, o, v)
    PROVE DataInv'
  <1> USE DEF Write, cellVars, idVars, threadVars
  <1>1. ItemTypes'
    BY DEF DataInv, ItemTypes
  <1>2. CleanInv'
    BY DEF DataInv, CleanInv
  <1>3. MadeInv'
    BY DEF DataInv, MadeInv
  <1> QED
    BY <1>1, <1>2, <1>3 DEF DataInv

LEMMA EvictData ==
    ASSUME SlotInv, IdInv, DataInv, NEW t \in Threads, Evict(t)
    PROVE DataInv'
  <1> USE DEF Evict, Goto, cellVars, objectVars, idVars, threadVars
  <1>1. ItemTypes'
    BY DEF DataInv, ItemTypes
  <1>2. CleanInv'
    BY DEF DataInv, CleanInv
  <1>3. MadeInv'
    BY DEF SlotInv, SlotTypes, DataInv, MadeInv
  <1> QED
    BY <1>1, <1>2, <1>3 DEF DataInv

LEMMA RemovalData ==
    ASSUME SlotInv, IdInv, DataInv, NEW t \in Threads, NEW i \in victims[t], Removal(t, i)
    PROVE DataInv'
  <1> USE DEF Removal, DropPage, threadVars
  <1>1. ItemTypes'
    BY DEF SlotInv, SlotTypes, CellInv, VictimsUnused, FilledInv, DataInv, ItemTypes
  <1>2. CleanInv'
    BY Apart DEF SlotInv, SlotTypes, CellInv, FilledInv, DataInv, CleanInv
  <1>3. MadeInv'
    BY DEF SlotInv, SlotTypes, CellInv, VictimsUnused, Held, DataInv, MadeInv
  <1> QED
    BY <1>1, <1>2, <1>3 DEF DataInv

(* Every step keeps the layer of items. *)
LEMMA DataStep == SlotInv /\ IdInv /\ DataInv /\ [Next]_vars => DataInv'
  <1> SUFFICES ASSUME SlotInv, IdInv, DataInv, [Next]_vars PROVE DataInv'
    OBVIOUS
  <1>1. ASSUME NEW t \in Threads, Step(t) PROVE DataInv'
    <2>1. CASE Remove(t) \/ RemoveAll(t)
      BY <2>1, RemoveIsRemoval, RemovalData
    <2> QED
      BY <1>1, <2>1, LookupData, InsertData, FillData, OpenData, AddData, DoneData, EvictData
         DEF Step
  <1>2. CASE UNCHANGED vars
    BY <1>2 DEF vars, cellVars, objectVars, idVars, threadVars, DataInv, ItemTypes,
                CleanInv, MadeInv
  <1> QED
    BY <1>1, <1>2, GetData, NewPageData, FlushData, LetGoData, MarkData, WriteData DEF Next

-----------------------------------------------------------------------------
(* The refinement.  The map of PageStore is Read, for short. *)
Read == [i \in Ids |-> IF i \in known THEN Item(i) ELSE NoObject]

NoneStable == [i \in Ids |-> NoObject]

StoreStep == [Store!Next]_<<Read, NoneStable, Opened>>

(* A step that leaves known ids and what is read of them alone stutters. *)
LEMMA SameStore ==
    ASSUME known' = known,
           \A i \in known : Item(i)' = Item(i) /\ (cell[i] = "filled")' = (cell[i] = "filled")
    PROVE StoreStep
  <1>1. Read' = Read
    BY DEF Read
  <1>2. Opened' = Opened
    BY DEF Opened
  <1> QED
    BY <1>1, <1>2 DEF StoreStep

(* Looking for a page, making one and evicting none are not seen. *)
LEMMA GetStutters ==
    ASSUME SlotInv, NEW t \in Threads, NEW i \in Ids, Get(t, i)
    PROVE StoreStep
  BY SameStore DEF Get, cellVars, objectVars, idVars, Item

LEMMA NewPageStutters ==
    ASSUME SlotInv, NEW t \in Threads, NEW i \in Ids, NEW v \in Values, NewPage(t, i, v)
    PROVE StoreStep
  BY SameStore DEF NewPage, cellVars, objectVars, Item

LEMMA FlushStutters ==
    ASSUME SlotInv, NEW t \in Threads, Flush(t)
    PROVE StoreStep
  BY SameStore DEF Flush, cellVars, objectVars, idVars, Item

LEMMA LookupStutters ==
    ASSUME SlotInv, NEW t \in Threads, Lookup(t)
    PROVE StoreStep
  BY SameStore DEF Lookup, cellVars, objectVars, idVars, Item

LEMMA InsertStutters ==
    ASSUME SlotInv, NEW t \in Threads, Insert(t)
    PROVE StoreStep
  BY SameStore DEF Insert, objectVars, idVars, Item

LEMMA FillStutters ==
    ASSUME SlotInv, NEW t \in Threads, Fill(t)
    PROVE StoreStep
  BY SameStore DEF Fill, MayFill, objectVars, idVars, Item, SlotInv, SlotTypes

LEMMA AddStutters ==
    ASSUME SlotInv, NEW t \in Threads, Add(t)
    PROVE StoreStep
  BY SameStore DEF Add, objectVars, idVars, Item

LEMMA LetGoStutters ==
    ASSUME SlotInv, NEW t \in Threads, NEW o \in Objects, LetGo(t, o)
    PROVE StoreStep
  BY SameStore DEF LetGo, cellVars, objectVars, idVars, Item

LEMMA EvictStutters ==
    ASSUME SlotInv, NEW t \in Threads, Evict(t)
    PROVE StoreStep
  BY SameStore DEF Evict, cellVars, objectVars, idVars, Item

(* A page that is opened is loaded, if its id is known. *)
LEMMA OpenLoads ==
    ASSUME SlotInv, IdInv, DataInv, NEW t \in Threads, Open(t)
    PROVE StoreStep
  <1>0. PICK i \in Ids : i = id[t]
    BY DEF SlotInv, SlotTypes
  <1> USE DEF idVars
  <1>1. /\ i \in Ids /\ cell[i] = "filling" /\ known' = known /\ file' = file
        /\ cell' = [cell EXCEPT ![i] = "filled"]
    BY <1>0 DEF Open, SlotInv, CellInv, FillInv
  <1>2. PICK o \in Objects :
           /\ ~Live(o) /\ object' = [object EXCEPT ![i] = o]
           /\ item' = [item EXCEPT ![o] = IF fresh[t] # Nothing THEN fresh[t] ELSE file[i]]
    BY <1>0 DEF Open
  <1>3. ASSUME NEW j \in known, j # i
        PROVE Item(j)' = Item(j) /\ (cell[j] = "filled")' = (cell[j] = "filled")
    BY <1>1, <1>2, <1>3 DEF SlotInv, SlotTypes, Item, Live
  <1>4. CASE i \notin known
    BY <1>1, <1>3, <1>4, SameStore
  <1>5. CASE i \in known
    <2>1. fresh[t] = Nothing
      BY <1>0, <1>5 DEF IdInv, MakerInv
    <2>2. Item(i) = file[i] /\ Item(i)' = file[i]
      BY <1>1, <1>2, <2>1 DEF Item, SlotInv, SlotTypes, DataInv, ItemTypes
    <2>3. Read' = Read
      BY <1>1, <1>3, <2>2 DEF Read
    <2>4. Opened' = Opened \cup {i}
      BY <1>1, <1>3, <1>5 DEF Opened, SlotInv, SlotTypes
    <2>5. Read[i] # NoObject
      BY <1>1, <1>5, <2>2, CacheConstants DEF Read, DataInv, ItemTypes
    <2>6. Store!Load(i)
      BY <2>3, <2>4, <2>5 DEF Store!Load, Read
    <2> QED
      BY <1>1, <2>6 DEF StoreStep, Store!Next
  <1> QED
    BY <1>4, <1>5

(* When new_page_with returns, its id is new. *)
LEMMA DoneStores ==
    ASSUME SlotInv, IdInv, DataInv, NEW t \in Threads, Done(t)
    PROVE StoreStep
  <1>0. PICK i \in Ids : i = id[t]
    BY DEF SlotInv, SlotTypes
  <1> USE DEF cellVars, objectVars
  <1>1. /\ cell' = cell /\ object' = object /\ item' = item /\ file' = file
        /\ i \in Ids
    BY <1>0 DEF Done
  <1>2. \A j \in Ids : Item(j)' = Item(j)
    BY <1>0, <1>1 DEF Item
  <1>3. CASE fresh[t] = Nothing
    BY <1>1, <1>2, <1>3, SameStore DEF Done, Item
  <1>4. CASE fresh[t] # Nothing
    <2>1. i \notin known /\ known' = known \cup {i}
      BY <1>0, <1>4 DEF Done, IdInv, MakerInv
    <2>2. object[i] \in Objects
      BY <1>0, <1>4 DEF Done, DataInv, MadeInv, SlotInv, SlotTypes
    <2>3. cell[i] = "filled" /\ Item(i) = item[object[i]]
      BY <1>1, <2>2, Apart DEF SlotInv, CellInv, FilledInv, Item
    <2>4. PICK v \in Values \cup {Nothing} : v = Item(i)
      BY <2>2, <2>3 DEF DataInv, ItemTypes
    <2>5. Read[i] = NoObject
      BY <1>1, <2>1 DEF Read
    <2>6. Read' = [Read EXCEPT ![i] = Item(i)]
      BY <1>1, <1>2, <2>1 DEF Read
    <2>7. Opened' = Opened \cup {i}
      BY <1>1, <2>1, <2>3 DEF Opened
    <2>8. NoneStable' = [NoneStable EXCEPT ![i] = NoObject]
      BY DEF NoneStable
    <2>9. Store!New(i, v)
      BY <2>4, <2>5, <2>6, <2>7, <2>8 DEF Store!New, Read
    <2> QED
      BY <1>1, <2>4, <2>9 DEF StoreStep, Store!Next
  <1> QED
    BY <1>3, <1>4

(* A write is the store's write, unless the page was marked as free. *)
LEMMA WriteWrites ==
    ASSUME SlotInv, NEW t \in Threads, NEW o \in Objects, NEW v \in Values, Write(t, o, v),
           DataInv
    PROVE StoreStep
  <1>0. PICK i \in Ids : i = pageOf[o]
    BY DEF SlotInv, SlotTypes
  <1> USE DEF cellVars, idVars
  <1>1. /\ i \in Ids /\ object[i] = o /\ cell[i] = "filled"
    BY <1>0, Apart DEF Write, SlotInv, CellInv, HandsInv, FilledInv
  <1>2. /\ cell' = cell /\ object' = object /\ known' = known /\ file' = file
        /\ item' = [item EXCEPT ![o] = v]
    BY <1>0 DEF Write
  <1>3. ASSUME NEW j \in Ids, j # i PROVE Item(j)' = Item(j)
    BY <1>1, <1>2, <1>3 DEF Item, SlotInv, CellInv, FilledInv
  <1>4. CASE i \notin known
    <2>1. \A j \in known : Item(j)' = Item(j)
      BY <1>3, <1>4 DEF SlotInv, SlotTypes
    <2> QED
      BY <1>2, <2>1, SameStore
  <1>5. CASE i \in known
    <2>1. Item(i)' = v
      BY <1>1, <1>2 DEF Item, DataInv, ItemTypes
    <2>2. Read' = [Read EXCEPT ![i] = v]
      BY <1>1, <1>2, <1>3, <1>5, <2>1 DEF Read
    <2>3. Opened' = Opened /\ i \in Opened
      BY <1>1, <1>2, <1>5 DEF Opened
    <2>4. Store!Write(i, v)
      BY <2>2, <2>3 DEF Store!Write, Read
    <2> QED
      BY <1>1, <2>4 DEF StoreStep, Store!Next
  <1> QED
    BY <1>4, <1>5

(* Either free forgets the id. *)
LEMMA MarkForgets ==
    ASSUME SlotInv, DataInv, NEW t \in Threads, NEW o \in Objects,
           AllowFree(t, o) \/ ForceFree(t, o)
    PROVE StoreStep
  <1>0. PICK i \in Ids : i = pageOf[o]
    BY DEF SlotInv, SlotTypes
  <1> USE DEF cellVars
  <1>1. /\ i \in Ids /\ object[i] = o /\ cell[i] = "filled"
    BY <1>0, Apart DEF AllowFree, ForceFree, SlotInv, CellInv, HandsInv, FilledInv
  <1>2. /\ cell' = cell /\ object' = object /\ file' = file
        /\ i \in known /\ known' = known \ {i}
        /\ item' = item \/ item' = [item EXCEPT ![o] = Nothing]
    BY <1>0 DEF AllowFree, ForceFree
  <1>3. ASSUME NEW j \in Ids, j # i PROVE Item(j)' = Item(j)
    BY <1>1, <1>2, <1>3 DEF Item, SlotInv, CellInv, FilledInv, DataInv, ItemTypes
  <1>4. Read' = [Read EXCEPT ![i] = NoObject]
    BY <1>1, <1>2, <1>3 DEF Read
  <1>5. Opened' = Opened \ {i} /\ i \in Opened
    BY <1>1, <1>2 DEF Opened
  <1>6. NoneStable' = [NoneStable EXCEPT ![i] = NoObject]
    BY DEF NoneStable
  <1>7. Store!Forget(i)
    BY <1>4, <1>5, <1>6 DEF Store!Forget, Read
  <1> QED
    BY <1>1, <1>7 DEF StoreStep, Store!Next

(* What an evicted page held is then in the file. *)
LEMMA RemovalDrops ==
    ASSUME SlotInv, IdInv, DataInv, NEW t \in Threads, NEW i \in victims[t], Removal(t, i)
    PROVE StoreStep
  <1> DEFINE o == object[i]
  <1> USE DEF evictVars
  <1>1. i \in Ids /\ cell[i] = "filled" /\ o \in Objects /\ pageOf[o] = i
    BY DEF SlotInv, SlotTypes, CellInv, VictimsUnused, FilledInv
  <1>2. /\ cell' = [cell EXCEPT ![i] = "absent"]
        /\ object' = [object EXCEPT ![i] = NoObject]
        /\ item' = [item EXCEPT ![o] = Nothing]
        /\ file' = IF IsSaved(o) /\ ~IsFreed(o) THEN [file EXCEPT ![i] = item[o]] ELSE file
        /\ known' = known
    BY DEF Removal, DropPage
  <1>3. ASSUME NEW j \in known, j # i
        PROVE Item(j)' = Item(j) /\ (cell[j] = "filled")' = (cell[j] = "filled")
    <2>1. j \in Ids /\ file'[j] = file[j] /\ cell'[j] = cell[j] /\ object'[j] = object[j]
      BY <1>1, <1>2, <1>3 DEF SlotInv, SlotTypes
    <2>2. CASE cell[j] = "filled"
      <3>1. object[j] \in Objects /\ object[j] # o
        BY <1>1, <1>3, <2>1, <2>2 DEF SlotInv, CellInv, FilledInv
      <3>2. item'[object[j]] = item[object[j]]
        BY <1>2, <3>1
      <3> QED
        BY <2>1, <2>2, <3>2 DEF Item
    <2> QED
      BY <2>1, <2>2 DEF Item
  <1>4. CASE i \notin known
    BY <1>2, <1>3, <1>4, SameStore
  <1>5. CASE i \in known
    <2>1. o \notin allowed \cup forced
      BY <1>1, <1>5 DEF IdInv, MarkedInv
    <2>2. file'[i] = item[o]
      <3>1. CASE o \in dirty
        BY <1>1, <1>2, <2>1, <3>1 DEF IsSaved, IsFreed, DataInv, ItemTypes
      <3>2. CASE o \notin dirty
        BY <1>1, <1>2, <2>1, <3>2 DEF DataInv, CleanInv
      <3> QED
        BY <3>1, <3>2
    <2>3. Item(i)' = Item(i)
      BY <1>1, <1>2, <2>2 DEF Item, SlotInv, SlotTypes
    <2>4. Read' = Read
      BY <1>2, <1>3, <2>3 DEF Read
    <2>5. Opened' = Opened \ {i} /\ i \in Opened
      BY <1>1, <1>2, <1>3, <1>5 DEF Opened, SlotInv, SlotTypes
    <2>6. Store!Drop(i)
      BY <2>4, <2>5 DEF Store!Drop, Read
    <2> QED
      BY <1>1, <2>6 DEF StoreStep, Store!Next
  <1> QED
    BY <1>4, <1>5

LEMMA EveryStepIsAStoreStep ==
    ASSUME SlotInv, IdInv, DataInv, [Next]_vars
    PROVE StoreStep
  <1>1. ASSUME NEW t \in Threads, Step(t) PROVE StoreStep
    <2>1. CASE Remove(t) \/ RemoveAll(t)
      BY <2>1, RemoveIsRemoval, RemovalDrops
    <2> QED
      BY <1>1, <2>1, LookupStutters, InsertStutters, FillStutters, OpenLoads, AddStutters,
         DoneStores, EvictStutters
         DEF Step
  <1>2. CASE UNCHANGED vars
    BY <1>2, SameStore DEF vars, cellVars, objectVars, idVars, Item
  <1> QED
    BY <1>1, <1>2, GetStutters, NewPageStutters, FlushStutters, LetGoStutters, MarkForgets,
       WriteWrites
       DEF Next

(* Every get sees the last write to its id, whoever made it and whatever   *)
(* was evicted in between: with its threads the cache is a PageStore.      *)
THEOREM CacheIsAStore == Spec => StoreSpec
  <1>1. Init => Store!Init
    BY DEF Init, Store!Init, Opened
  <1>2. SlotInv /\ IdInv /\ DataInv /\ [Next]_vars => StoreStep
    BY EveryStepIsAStoreStep
  <1>3. StoreStep => [Store!Next]_Store!svars
    BY DEF StoreStep, Store!svars, Read
  <1>4. Init => SlotInv /\ IdInv /\ DataInv
    BY InitSlot, InitId, InitData
  <1>5. SlotInv /\ IdInv /\ DataInv /\ [Next]_vars => (SlotInv /\ IdInv /\ DataInv)'
    BY SlotStep, IdStep, DataStep
  <1> QED
    BY <1>1, <1>2, <1>3, <1>4, <1>5, PTL DEF Spec, StoreSpec, Store!Spec
-----------------------------------------------------------------------------
(* Sums. *)

(* A set of naturals that is not empty has a least member.                 *)
LEMMA LeastNat ==
  ASSUME NEW T, T \subseteq Nat, T # {}
  PROVE  \E x \in T : \A y \in T : x <= y
  <1> DEFINE R == OpToRel(<, Nat)
  <1>1. IsWellFoundedOn(R, Nat)
    BY NatLessThanWellFounded
  <1>2. \A x, y \in Nat : <<y, x>> \in R <=> y < x
    BY DEF OpToRel
  <1> HIDE DEF R
  <1>3. PICK x \in T : \A y \in T : ~ (<<y, x>> \in R)
    BY <1>1, WFMin
  <1>4. \A y \in T : ~ (y < x)
    BY <1>2, <1>3
  <1>5. QED
    BY <1>3, <1>4

-----------------------------------------------------------------------------
(* Sums over finite sets, the way MapThenSumSet works them out.            *)

Sum(f, S) == MapThenSumSet(LAMBDA i : f[i], S)

First(s) == CHOOSE x \in s : TRUE

(* The equation of a sum, at one subset. *)
Adds(g, f, s) == g[s] = IF s = {} THEN 0 ELSE f[First(s)] + g[s \ {First(s)}]

LEMMA FirstIn == ASSUME NEW s, s # {} PROVE First(s) \in s
  BY DEF First

LEMMA Smaller ==
  ASSUME NEW S, IsFiniteSet(S), NEW s \in SUBSET S, NEW x \in s
  PROVE  /\ IsFiniteSet(s) /\ s \ {x} \in SUBSET S
         /\ Cardinality(s) \in Nat /\ Cardinality(s \ {x}) \in Nat
         /\ Cardinality(s \ {x}) < Cardinality(s)
  BY FS_Subset, FS_RemoveElement, FS_CardinalityType

(* It has a solution. *)
LEMMA AddsExists ==
  ASSUME NEW S, IsFiniteSet(S), NEW f \in [S -> Nat]
  PROVE  \E g \in [SUBSET S -> Nat] : \A s \in SUBSET S : Adds(g, f, s)
  <1> DEFINE Solves(g, k) == \A s \in SUBSET S : Cardinality(s) < k => Adds(g, f, s)
             Bad == {k \in Nat : ~ \E g \in [SUBSET S -> Nat] : Solves(g, k)}
  <1>0. \A s \in SUBSET S : Cardinality(s) \in Nat /\ Cardinality(s) <= Cardinality(S)
    BY FS_Subset, FS_CardinalityType
  <1>1. Bad = {}
    <2>1. SUFFICES ASSUME Bad # {} PROVE FALSE
      OBVIOUS
    <2>2. PICK k \in Bad : \A i \in Bad : k <= i
      <3>1. Bad \subseteq Nat
        OBVIOUS
      <3> HIDE DEF Bad
      <3>2. QED
        BY <2>1, <3>1, LeastNat
    <2>3. k \in Nat /\ ~ \E g \in [SUBSET S -> Nat] : Solves(g, k)
      BY <2>2
    <2>4. k # 0
      <3>1. SUFFICES ASSUME k = 0 PROVE FALSE
        OBVIOUS
      <3>2. [s \in SUBSET S |-> 0] \in [SUBSET S -> Nat]
        OBVIOUS
      <3>3. Solves([s \in SUBSET S |-> 0], k)
        BY <1>0, <3>1
      <3>4. QED
        BY <2>3, <3>2, <3>3
    <2>5. PICK g \in [SUBSET S -> Nat] : Solves(g, k - 1)
      <3>1. k - 1 \in Nat /\ ~ (k <= k - 1)
        BY <2>3, <2>4
      <3>2. QED
        BY <2>2, <3>1
    <2> DEFINE Value(s) == IF s = {} THEN 0 ELSE f[First(s)] + g[s \ {First(s)}]
               h == [s \in SUBSET S |-> Value(s)]
    <2>6. h \in [SUBSET S -> Nat]
      <3>1. ASSUME NEW s \in SUBSET S PROVE Value(s) \in Nat
        <4>1. CASE s = {}
          BY <4>1
        <4>2. CASE s # {}
          <5>1. First(s) \in S /\ s \ {First(s)} \in SUBSET S
            BY <4>2, FirstIn
          <5>2. f[First(s)] \in Nat /\ g[s \ {First(s)}] \in Nat
            BY <5>1
          <5>3. QED
            BY <4>2, <5>2
        <4>3. QED
          BY <4>1, <4>2
      <3>2. QED
        BY <3>1
    <2>7. ASSUME NEW s \in SUBSET S, Cardinality(s) < k PROVE Adds(h, f, s)
      <3>1. CASE s = {}
        BY <3>1 DEF Adds
      <3>2. CASE s # {}
        <4>1. First(s) \in s
          BY <3>2, FirstIn
        <4> DEFINE r == s \ {First(s)}
        <4>2. r \in SUBSET S /\ Cardinality(r) < Cardinality(s) /\ Cardinality(r) \in Nat
          BY <4>1, Smaller
        <4>3. Cardinality(r) < k - 1
          BY <1>0, <2>3, <2>7, <4>2
        <4>4. Adds(g, f, r)
          BY <2>5, <4>2, <4>3
        <4>5. h[r] = g[r]
          BY <4>2, <4>4 DEF Adds
        <4>6. h[s] = f[First(s)] + g[r]
          BY <3>2
        <4>7. QED
          BY <3>2, <4>5, <4>6 DEF Adds
      <3>3. QED
        BY <3>1, <3>2
    <2>8. Solves(h, k)
      BY <2>7
    <2> HIDE DEF h
    <2>9. QED
      BY <2>3, <2>6, <2>8
  <1>2. Cardinality(S) + 1 \in Nat
    BY FS_CardinalityType
  <1>3. PICK g \in [SUBSET S -> Nat] : Solves(g, Cardinality(S) + 1)
    BY <1>1, <1>2
  <1>4. \A s \in SUBSET S : Cardinality(s) < Cardinality(S) + 1
    BY <1>0, <1>2
  <1>5. QED
    BY <1>3, <1>4

(* Any two solutions agree. *)
LEMMA AddsOnce ==
  ASSUME NEW S, IsFiniteSet(S), NEW f, NEW g, NEW h,
         \A s \in SUBSET S : Adds(g, f, s) /\ Adds(h, f, s)
  PROVE  g[S] = h[S]
  <1> DEFINE Bad == {Cardinality(s) : s \in {r \in SUBSET S : g[r] # h[r]}}
  <1>1. SUFFICES ASSUME g[S] # h[S] PROVE FALSE
    OBVIOUS
  <1>2. PICK k \in Bad : \A i \in Bad : k <= i
    <2>1. Bad \subseteq Nat
      BY FS_Subset, FS_CardinalityType
    <2>2. Bad # {}
      BY <1>1
    <2> HIDE DEF Bad
    <2>3. QED
      BY <2>1, <2>2, LeastNat
  <1>3. PICK s \in SUBSET S : g[s] # h[s] /\ k = Cardinality(s)
    BY <1>2
  <1>4. s # {}
    BY <1>3 DEF Adds
  <1>5. First(s) \in s
    BY <1>4, FirstIn
  <1>6. g[s \ {First(s)}] = h[s \ {First(s)}]
    <2>1. s \ {First(s)} \in SUBSET S /\ ~ (Cardinality(s) <= Cardinality(s \ {First(s)}))
      BY <1>5, Smaller
    <2>2. QED
      BY <1>2, <1>3, <2>1
  <1>7. g[s] = f[First(s)] + g[s \ {First(s)}] /\ h[s] = f[First(s)] + h[s \ {First(s)}]
    BY <1>4 DEF Adds
  <1>8. QED
    BY <1>3, <1>6, <1>7

LEMMA SumSolves ==
  ASSUME NEW S, IsFiniteSet(S), NEW f, NEW g, \A s \in SUBSET S : Adds(g, f, s)
  PROVE  Sum(f, S) = g[S]
  <1> DEFINE Body(h, s) == IF s = {} THEN 0
                           ELSE f[CHOOSE x \in s : TRUE] + h[s \ {CHOOSE x \in s : TRUE}]
             d == CHOOSE h : h = [s \in SUBSET S |-> Body(h, s)]
             r == [s \in SUBSET S |-> g[s]]
  <1>1. r = [s \in SUBSET S |-> Body(r, s)]
    <2>1. ASSUME NEW s \in SUBSET S PROVE g[s] = Body(r, s)
      <3>1. s # {} => s \ {First(s)} \in SUBSET S
        OBVIOUS
      <3>2. QED
        BY <3>1 DEF Adds, First
    <2>2. QED
      BY <2>1
  <1>2. d = [s \in SUBSET S |-> Body(d, s)]
    BY <1>1
  <1>3. Sum(f, S) = d[S]
    BY DEF Sum, MapThenSumSet, MapThenFoldSet
  <1> HIDE DEF d
  <1>4. \A s \in SUBSET S : Adds(d, f, s)
    BY <1>2 DEF Adds, First
  <1>5. QED
    BY <1>3, <1>4, AddsOnce
(* The graph of the sums over the subsets of D. *)
SumGraph(g, D, f) == /\ g \in [SUBSET D -> Nat]
                     /\ \A s \in SUBSET D : Adds(g, f, s) /\ Sum(f, s) = g[s]

LEMMA SumOf ==
  ASSUME NEW D, IsFiniteSet(D), NEW f \in [D -> Nat]
  PROVE  \E g : SumGraph(g, D, f)
  <1>1. PICK g \in [SUBSET D -> Nat] : \A s \in SUBSET D : Adds(g, f, s)
    BY AddsExists
  <1>2. ASSUME NEW s \in SUBSET D PROVE Sum(f, s) = g[s]
    <2>1. IsFiniteSet(s) /\ SUBSET s \subseteq SUBSET D
      BY FS_Subset
    <2>2. QED
      BY <1>1, <2>1, SumSolves
  <1>3. QED
    BY <1>1, <1>2 DEF SumGraph

(* Any member may be taken out first. *)
LEMMA SumMember ==
  ASSUME NEW D, IsFiniteSet(D), NEW f \in [D -> Nat], NEW S \in SUBSET D, NEW y \in S
  PROVE  Sum(f, S) = f[y] + Sum(f, S \ {y})
  <1> DEFINE Bad == {Cardinality(s) : s \in {r \in SUBSET D :
                        \E x \in r : Sum(f, r) # f[x] + Sum(f, r \ {x})}}
  <1>0. PICK g : SumGraph(g, D, f)
    BY SumOf
  <1>1. SUFFICES ASSUME Sum(f, S) # f[y] + Sum(f, S \ {y}) PROVE FALSE
    OBVIOUS
  <1>2. PICK k \in Bad : \A i \in Bad : k <= i
    <2>1. Bad \subseteq Nat
      BY FS_Subset, FS_CardinalityType
    <2>2. Bad # {}
      BY <1>1
    <2> HIDE DEF Bad
    <2>3. QED
      BY <2>1, <2>2, LeastNat
  <1>3. PICK s \in SUBSET D :
           k = Cardinality(s) /\ \E x \in s : Sum(f, s) # f[x] + Sum(f, s \ {x})
    BY <1>2
  <1>4. PICK x \in s : Sum(f, s) # f[x] + Sum(f, s \ {x})
    BY <1>3
  <1>5. PICK c \in s : c = First(s)
    BY <1>4, FirstIn
  <1>6. Sum(f, s) = f[c] + Sum(f, s \ {c})
    <2>1. s \in SUBSET D /\ s \ {c} \in SUBSET D /\ s # {}
      BY <1>5
    <2>2. g[s] = f[c] + g[s \ {c}]
      BY <1>0, <1>5, <2>1 DEF Adds, SumGraph
    <2>3. QED
      BY <1>0, <2>1, <2>2 DEF SumGraph
  <1>7. x # c
    BY <1>4, <1>6
  <1>8. \A r \in SUBSET D : Cardinality(r) < k => \A z \in r : Sum(f, r) = f[z] + Sum(f, r \ {z})
    <2>1. SUFFICES ASSUME NEW r \in SUBSET D, Cardinality(r) < k,
                          \E z \in r : Sum(f, r) # f[z] + Sum(f, r \ {z})
                   PROVE  FALSE
      OBVIOUS
    <2>2. Cardinality(r) \in Bad
      BY <2>1
    <2>3. Cardinality(r) \in Nat /\ k \in Nat
      BY <1>3, FS_Subset, FS_CardinalityType
    <2> HIDE DEF Bad
    <2>4. QED
      BY <1>2, <2>1, <2>2, <2>3
  <1>9. /\ s \ {c} \in SUBSET D /\ Cardinality(s \ {c}) < k
        /\ s \ {x} \in SUBSET D /\ Cardinality(s \ {x}) < k
    BY <1>3, <1>4, <1>5, Smaller
  <1>10. Sum(f, s \ {c}) = f[x] + Sum(f, (s \ {c}) \ {x})
    BY <1>4, <1>7, <1>8, <1>9
  <1>11. Sum(f, s \ {x}) = f[c] + Sum(f, (s \ {x}) \ {c})
    BY <1>5, <1>7, <1>8, <1>9
  <1>12. (s \ {c}) \ {x} = (s \ {x}) \ {c}
    OBVIOUS
  <1>13. f[x] \in Nat /\ f[c] \in Nat /\ Sum(f, (s \ {x}) \ {c}) \in Nat
    BY <1>0, <1>3, <1>4, <1>5 DEF SumGraph
  <1> HIDE DEF Bad
  <1>14. PICK a, b, d \in Nat : a = f[x] /\ b = f[c] /\ d = Sum(f, (s \ {x}) \ {c})
    BY <1>13
  <1>15. Sum(f, s) = b + (a + d) /\ f[x] + Sum(f, s \ {x}) = a + (b + d)
    BY <1>6, <1>10, <1>11, <1>12, <1>14
  <1>16. b + (a + d) = a + (b + d)
    OBVIOUS
  <1>17. QED
    BY <1>4, <1>15, <1>16

LEMMA SumNat ==
  ASSUME NEW D, IsFiniteSet(D), NEW f \in [D -> Nat], NEW S \in SUBSET D
  PROVE  Sum(f, S) \in Nat
  <1>1. PICK g : SumGraph(g, D, f)
    BY SumOf
  <1>2. QED
    BY <1>1 DEF SumGraph

LEMMA SumSame ==
  ASSUME NEW D, IsFiniteSet(D), NEW f \in [D -> Nat], NEW h, NEW S \in SUBSET D,
         \A x \in S : h[x] = f[x]
  PROVE  Sum(h, S) = Sum(f, S)
  <1>1. PICK g : SumGraph(g, D, f)
    BY SumOf
  <1>2. ASSUME NEW s \in SUBSET S PROVE Adds(g, h, s)
    <2>1. s # {} => h[First(s)] = f[First(s)]
      BY FirstIn
    <2>2. Adds(g, f, s)
      BY <1>1 DEF SumGraph
    <2>3. QED
      BY <2>1, <2>2 DEF Adds
  <1>3. IsFiniteSet(S)
    BY FS_Subset
  <1>4. Sum(h, S) = g[S]
    BY <1>2, <1>3, SumSolves
  <1>5. QED
    BY <1>1, <1>4 DEF SumGraph

(* A part adds up to no more than the whole. *)
LEMMA SumPart ==
  ASSUME NEW D, IsFiniteSet(D), NEW f \in [D -> Nat], NEW S \in SUBSET D, NEW T \in SUBSET S
  PROVE  Sum(f, T) <= Sum(f, S)
  <1> DEFINE Bad == {Cardinality(s) : s \in {r \in SUBSET D : T \subseteq r /\ ~ (Sum(f, T) <= Sum(f, r))}}
  <1>0. \A s \in SUBSET D : Sum(f, s) \in Nat
    BY SumNat
  <1>1. SUFFICES ASSUME ~ (Sum(f, T) <= Sum(f, S)) PROVE FALSE
    OBVIOUS
  <1>2. PICK k \in Bad : \A i \in Bad : k <= i
    <2>1. Bad \subseteq Nat
      BY FS_Subset, FS_CardinalityType
    <2>2. Bad # {}
      BY <1>1
    <2> HIDE DEF Bad
    <2>3. QED
      BY <2>1, <2>2, LeastNat
  <1>3. PICK s \in SUBSET D : k = Cardinality(s) /\ T \subseteq s /\ ~ (Sum(f, T) <= Sum(f, s))
    BY <1>2
  <1>4. PICK x \in s : x \notin T
    BY <1>0, <1>3
  <1>5. s \ {x} \in SUBSET D /\ T \subseteq s \ {x} /\ ~ (k <= Cardinality(s \ {x}))
    BY <1>3, <1>4, Smaller
  <1>6. Sum(f, T) <= Sum(f, s \ {x})
    BY <1>2, <1>5
  <1>7. Sum(f, s) = f[x] + Sum(f, s \ {x})
    BY <1>4, SumMember
  <1>8. f[x] \in Nat /\ Sum(f, s \ {x}) \in Nat /\ Sum(f, T) \in Nat /\ Sum(f, s) \in Nat
    BY <1>0, <1>4, <1>5
  <1> HIDE DEF Bad
  <1>9. QED
    BY <1>3, <1>6, <1>7, <1>8

-----------------------------------------------------------------------------
(* The bytes that are counted. *)

(* The ids a thread has opened or found and will count the bytes of. *)
Uncounted == {id[t] : t \in {u \in Threads : pc[u] = "add"}}

ByteInv ==
    /\ size \in [Ids -> Nat] /\ bytes \in Nat /\ total \in [Threads -> Nat]
    /\ Sum(size, Ids \ Uncounted) <= bytes
    /\ \A t \in Threads : pc[t] = "remove" => Sum(size, victims[t]) <= total[t]

LEMMA IdsFinite == IsFiniteSet(Ids) /\ PageSize \in Nat /\ Size \in [Ids -> Nat]
  BY CacheConstants

LEMMA InitBytes == Init => ByteInv
  <1> SUFFICES ASSUME Init PROVE ByteInv
    OBVIOUS
  <1>1. size \in [Ids -> Nat] /\ bytes = 0 /\ total \in [Threads -> Nat]
    BY DEF Init
  <1>2. Sum(size, Ids \ Uncounted) = 0
    <2>1. \A s \in SUBSET Ids : Sum(size, s) = 0
      <3>1. PICK g : SumGraph(g, Ids, size)
        BY <1>1, IdsFinite, SumOf
      <3>2. \A s \in SUBSET Ids : Adds([r \in SUBSET Ids |-> 0], size, s)
        <4>1. ASSUME NEW s \in SUBSET Ids, s # {} PROVE size[First(s)] = 0 /\ s \ {First(s)} \in SUBSET Ids
          BY <4>1, FirstIn DEF Init
        <4> QED
          BY <4>1 DEF Adds
      <3>3. ASSUME NEW s \in SUBSET Ids PROVE Sum(size, s) = 0
        <4>1. IsFiniteSet(s) /\ \A r \in SUBSET s : Adds([q \in SUBSET Ids |-> 0], size, r)
          BY <3>2, IdsFinite, FS_Subset
        <4>2. Sum(size, s) = [q \in SUBSET Ids |-> 0][s]
          BY <4>1, SumSolves
        <4> QED
          BY <4>2
      <3> QED
        BY <3>3
    <2> QED
      BY <2>1
  <1>3. \A t \in Threads : pc[t] # "remove"
    BY DEF Init
  <1> QED
    BY <1>1, <1>2, <1>3 DEF ByteInv

(* A step that counts nothing. *)
LEMMA SameBytes ==
    ASSUME ByteInv, UNCHANGED <<size, bytes, total>>, Uncounted \subseteq Uncounted',
           \A t \in Threads : pc'[t] = "remove" => pc[t] = "remove" /\ victims'[t] = victims[t]
    PROVE ByteInv'
  <1>1. /\ Ids \ Uncounted' \in SUBSET (Ids \ Uncounted)
        /\ Ids \ Uncounted \in SUBSET Ids /\ Ids \ Uncounted' \in SUBSET Ids
    OBVIOUS
  <1>2. /\ Sum(size, Ids \ Uncounted') <= Sum(size, Ids \ Uncounted)
        /\ Sum(size, Ids \ Uncounted') \in Nat /\ Sum(size, Ids \ Uncounted) \in Nat
    BY <1>1, IdsFinite, SumPart, SumNat DEF ByteInv
  <1>3. Sum(size, Ids \ Uncounted') <= bytes
    BY <1>2 DEF ByteInv
  <1> QED
    BY <1>3 DEF ByteInv

LEMMA QuietBytes ==
    ASSUME SlotInv, ByteInv, NEW t \in Threads,
           \/ Lookup(t) \/ Insert(t) \/ Fill(t) \/ Done(t) \/ Flush(t)
           \/ \E i \in Ids : Get(t, i) \/ \E v \in Values : NewPage(t, i, v)
           \/ \E o \in Objects : \/ LetGo(t, o) \/ AllowFree(t, o) \/ ForceFree(t, o)
                                \/ \E v \in Values : Write(t, o, v)
    PROVE ByteInv'
  <1> USE DEF Goto, Call, cellVars, threadVars, evictVars, Uncounted, SlotInv, SlotTypes
  <1>1. CASE Lookup(t) \/ Insert(t) \/ Fill(t) \/ Done(t) \/ Flush(t)
    <2>1. UNCHANGED <<size, bytes, total, victims, id>>
      BY <1>1 DEF Lookup, Insert, Fill, Done, Flush
    <2>2. /\ \A u \in Threads : u # t => pc'[u] = pc[u]
          /\ pc[t] # "add" /\ pc'[t] # "remove"
      BY <1>1 DEF Lookup, Insert, Fill, Done, Flush
    <2> QED
      BY <2>1, <2>2, SameBytes
  <1>2. CASE \E i \in Ids : Get(t, i) \/ \E v \in Values : NewPage(t, i, v)
    <2>1. UNCHANGED <<size, bytes, total, victims>>
      BY <1>2 DEF Get, NewPage
    <2>2. /\ \A u \in Threads : u # t => pc'[u] = pc[u] /\ id'[u] = id[u]
          /\ pc[t] # "add" /\ pc'[t] # "remove"
      BY <1>2 DEF Get, NewPage
    <2> QED
      BY <2>1, <2>2, SameBytes
  <1>3. CASE \E o \in Objects : \/ LetGo(t, o) \/ AllowFree(t, o) \/ ForceFree(t, o)
                                \/ \E v \in Values : Write(t, o, v)
    <2>1. UNCHANGED <<size, bytes, total, victims, id, pc>>
      BY <1>3 DEF LetGo, AllowFree, ForceFree, Write
    <2> QED
      BY <2>1, SameBytes
  <1> QED
    BY <1>1, <1>2, <1>3

LEMMA OpenBytes ==
    ASSUME SlotInv, ByteInv, NEW t \in Threads, Open(t)
    PROVE ByteInv'
  <1>1. PICK i \in Ids : i = id[t]
    BY DEF SlotInv, SlotTypes
  <1>2. PICK v \in Nat : size' = [size EXCEPT ![i] = v]
    BY <1>1, IdsFinite DEF Open
  <1>3. bytes' = bytes /\ total' = total
    BY DEF Open, evictVars
  <1>4. Uncounted \subseteq Uncounted' /\ i \in Uncounted'
    BY <1>1 DEF Open, Goto, Uncounted, SlotInv, SlotTypes
  <1>5. size \in [Ids -> Nat] /\ size' \in [Ids -> Nat] /\ total \in [Threads -> Nat] /\ bytes \in Nat
        /\ Sum(size, Ids \ Uncounted) <= bytes
    BY <1>2 DEF ByteInv
  <1>6. PICK S \in SUBSET Ids : S = Ids \ Uncounted
    OBVIOUS
  <1>7. PICK T \in SUBSET S : T = Ids \ Uncounted' /\ i \notin T
    <2>1. Ids \ Uncounted' \in SUBSET S /\ i \notin Ids \ Uncounted'
      BY <1>4, <1>6
    <2> QED
      BY <2>1
  <1>8. \A x \in T : size'[x] = size[x]
    BY <1>2, <1>5, <1>6, <1>7
  <1>9. T \in SUBSET Ids
    BY <1>6, <1>7
  <1>10. Sum(size', T) = Sum(size, T)
    BY <1>5, <1>8, <1>9, IdsFinite, SumSame
  <1>11. Sum(size, T) <= Sum(size, S) /\ Sum(size, T) \in Nat /\ Sum(size, S) \in Nat
    BY <1>5, <1>6, <1>7, <1>9, IdsFinite, SumPart, SumNat
  <1>12. Sum(size', Ids \ Uncounted') <= bytes
    BY <1>5, <1>6, <1>7, <1>10, <1>11
  <1>13. \A u \in Threads : pc'[u] # "remove"
    BY Apart DEF Open, Goto, SlotInv, SlotTypes, LockInv
  <1> QED
    BY <1>3, <1>5, <1>12, <1>13 DEF ByteInv

LEMMA AddBytes ==
    ASSUME SlotInv, ByteInv, NEW t \in Threads, Add(t)
    PROVE ByteInv'
  <1>1. PICK i \in Ids : i = id[t]
    BY DEF SlotInv, SlotTypes
  <1>2. bytes' = bytes + size[i] /\ size' = size /\ total' = total /\ victims' = victims
    BY <1>1 DEF Add, Added, evictVars
  <1>3. size \in [Ids -> Nat] /\ size[i] \in Nat /\ bytes \in Nat /\ total \in [Threads -> Nat]
        /\ Sum(size, Ids \ Uncounted) <= bytes
    BY DEF ByteInv
  <1>4. Uncounted \subseteq Uncounted' \cup {i}
    BY <1>1 DEF Add, Goto, Uncounted, threadVars, SlotInv, SlotTypes
  <1>5. PICK S \in SUBSET Ids : S = Ids \ Uncounted
    OBVIOUS
  <1>6. PICK T \in SUBSET Ids : T = Ids \ Uncounted' /\ T \ {i} \in SUBSET S
    BY <1>4, <1>5
  <1>7. Sum(size, T \ {i}) <= Sum(size, S) /\ Sum(size, T \ {i}) \in Nat /\ Sum(size, S) \in Nat
        /\ Sum(size, T) \in Nat
    BY <1>3, <1>6, IdsFinite, SumPart, SumNat
  <1>8. Sum(size, T) <= Sum(size, T \ {i}) + size[i]
    <2>1. CASE i \in T
      <3>1. Sum(size, T) = size[i] + Sum(size, T \ {i})
        BY <1>3, <2>1, IdsFinite, SumMember
      <3> QED
        BY <1>3, <1>7, <3>1
    <2>2. CASE i \notin T
      <3>1. T \ {i} = T
        BY <2>2
      <3>2. Sum(size, T \ {i}) = Sum(size, T)
        BY <3>1, Zenon
      <3>3. PICK a, k \in Nat : a = Sum(size, T) /\ k = size[i]
        BY <1>3, <1>7
      <3> QED
        BY <3>2, <3>3
    <2> QED
      BY <2>1, <2>2
  <1>9. Sum(size, Ids \ Uncounted') <= bytes + size[i] /\ bytes + size[i] \in Nat
    BY <1>3, <1>5, <1>6, <1>7, <1>8
  <1>10. \A u \in Threads : pc'[u] = "remove" => pc[u] = "remove"
    BY DEF Add, Goto, SlotInv, SlotTypes
  <1> QED
    BY <1>2, <1>3, <1>9, <1>10 DEF ByteInv

(* While nobody has the read lock all bytes are counted. *)
LEMMA AllCounted ==
    ASSUME SlotInv, ByteInv, readers = {}
    PROVE Uncounted = {} /\ Sum(size, Ids) <= bytes
  <1>1. Uncounted = {}
    BY DEF SlotInv, LockInv, Uncounted
  <1>2. Ids \ Uncounted = Ids
    BY <1>1
  <1> QED
    BY <1>1, <1>2 DEF ByteInv

LEMMA EvictBytes ==
    ASSUME SlotInv, ByteInv, NEW t \in Threads, Evict(t)
    PROVE ByteInv'
  <1>1. size' = size /\ bytes' = bytes /\ readers = {} /\ pc[t] \in {"evict", "evictAll"}
        /\ id' = id /\ size \in [Ids -> Nat] /\ bytes \in Nat
    BY DEF Evict, cellVars, threadVars, ByteInv
  <1>2. CASE evictVars' = evictVars /\ pc' = [pc EXCEPT ![t] = "done"]
    <2>1. Uncounted \subseteq Uncounted'
      BY <1>1, <1>2 DEF Uncounted, SlotInv, SlotTypes
    <2> QED
      BY <1>1, <1>2, <2>1, SameBytes DEF evictVars, SlotInv, SlotTypes
  <1>3. ASSUME NEW found \in SUBSET Ids, victims' = [victims EXCEPT ![t] = found],
               total' = [total EXCEPT ![t] = bytes],
               pc' = [pc EXCEPT ![t] = "remove"] \/ pc' = [pc EXCEPT ![t] = "removeAll"]
        PROVE ByteInv'
    <2>1. Uncounted = {} /\ Sum(size, Ids) <= bytes
      BY <1>1, AllCounted
    <2>2. Uncounted' = {}
      <3>1. \A u \in Threads : pc[u] # "add"
        BY <2>1 DEF Uncounted
      <3>2. \A u \in Threads : pc'[u] # "add"
        BY <1>3, <3>1 DEF SlotInv, SlotTypes
      <3> QED
        BY <3>2 DEF Uncounted
    <2>3. Sum(size, found) <= Sum(size, Ids) /\ Sum(size, found) \in Nat /\ Sum(size, Ids) \in Nat
      BY <1>1, IdsFinite, SumPart, SumNat
    <2>4. Sum(size, found) <= bytes
      BY <1>1, <2>1, <2>3
    <2>5. Ids \ Uncounted' = Ids
      BY <2>2
    <2>6. ASSUME NEW u \in Threads, pc'[u] = "remove" PROVE Sum(size, victims'[u]) <= total'[u]
      <3>1. CASE u = t
        BY <1>3, <2>4, <3>1 DEF ByteInv, SlotInv, SlotTypes
      <3>2. CASE u # t
        BY <1>3, <2>6, <3>2 DEF ByteInv, SlotInv, SlotTypes
      <3> QED
        BY <3>1, <3>2
    <2>7. total' \in [Threads -> Nat]
      BY <1>1, <1>3 DEF ByteInv
    <2> QED
      BY <1>1, <2>1, <2>5, <2>6, <2>7 DEF ByteInv
  <1> QED
    BY <1>2, <1>3 DEF Evict, Goto

LEMMA RemoveBytes ==
    ASSUME SlotInv, ByteInv, NEW t \in Threads, Remove(t) \/ RemoveAll(t)
    PROVE ByteInv'
  <1>1. /\ readers = {} /\ pc[t] \in {"remove", "removeAll"} /\ id' = id
        /\ \A u \in Threads : pc[u] = "remove" => u = t
    BY Apart DEF Remove, RemoveAll, threadVars, SlotInv, SlotTypes, LockInv
  <1>2. PICK i \in victims[t] :
           /\ size' = [size EXCEPT ![i] = 0] /\ bytes' = bytes - size[i]
           /\ \/ /\ pc[t] = "remove" /\ pc' = pc
                 /\ victims' = [victims EXCEPT ![t] = victims[t] \ {i}]
                 /\ total' = [total EXCEPT ![t] = total[t] - size[i]]
              \/ /\ pc[t] = "removeAll" /\ pc' = pc
                 /\ total' = total \/ total' = [total EXCEPT ![t] = 0]
              \/ /\ pc' = [pc EXCEPT ![t] = "done"]
                 /\ total' = total \/ total' = [total EXCEPT ![t] = 0]
    <2>1. CASE Remove(t)
      BY <2>1 DEF Remove, DropPage, Goto
    <2>2. CASE RemoveAll(t)
      BY <2>2 DEF RemoveAll, DropPage, Goto, ByteInv
    <2> QED
      BY <2>1, <2>2
  <1>3. /\ size \in [Ids -> Nat] /\ bytes \in Nat /\ total \in [Threads -> Nat]
        /\ victims \in [Threads -> SUBSET Ids] /\ victims[t] \in SUBSET Ids /\ i \in Ids
    BY DEF ByteInv, SlotInv, SlotTypes
  <1>4. size' \in [Ids -> Nat] /\ size'[i] = 0 /\ \A x \in Ids : x # i => size'[x] = size[x]
    BY <1>2, <1>3
  <1>5. \A S \in SUBSET Ids : i \in S => /\ Sum(size, S) = size[i] + Sum(size, S \ {i})
                                         /\ Sum(size', S \ {i}) = Sum(size, S \ {i})
                                         /\ Sum(size, S \ {i}) \in Nat
    <2>1. ASSUME NEW S \in SUBSET Ids, i \in S
          PROVE /\ Sum(size, S) = size[i] + Sum(size, S \ {i})
                /\ Sum(size', S \ {i}) = Sum(size, S \ {i})
                /\ Sum(size, S \ {i}) \in Nat
      <3>1. Sum(size, S) = size[i] + Sum(size, S \ {i})
        BY <1>3, <2>1, IdsFinite, SumMember
      <3>2. PICK R \in SUBSET Ids : R = S \ {i} /\ \A x \in R : size'[x] = size[x]
        <4>1. S \ {i} \in SUBSET Ids /\ \A x \in S \ {i} : size'[x] = size[x]
          BY <1>4
        <4> QED
          BY <4>1
      <3>3. Sum(size', R) = Sum(size, R) /\ Sum(size, R) \in Nat
        BY <1>3, <3>2, IdsFinite, SumSame, SumNat
      <3> QED
        BY <3>1, <3>2, <3>3
    <2> QED
      BY <2>1
  <1>6. Uncounted = {} /\ Sum(size, Ids) <= bytes
    BY <1>1, AllCounted
  <1>7. Uncounted' = {} /\ Ids \ Uncounted' = Ids
    <2>1. \A u \in Threads : pc[u] # "add"
      BY <1>6 DEF Uncounted
    <2>2. \A u \in Threads : pc'[u] # "add"
      BY <1>2, <2>1 DEF SlotInv, SlotTypes
    <2> QED
      BY <2>2 DEF Uncounted
  <1>8. Sum(size', Ids) = Sum(size', Ids \ {i})
    <2>1. Sum(size', Ids) = size'[i] + Sum(size', Ids \ {i}) /\ Sum(size', Ids \ {i}) \in Nat
      BY <1>3, <1>4, IdsFinite, SumMember, SumNat
    <2> QED
      BY <1>4, <2>1
  <1>9. Sum(size', Ids) <= bytes - size[i] /\ bytes - size[i] \in Nat
    <2>1. PICK r, k \in Nat : r = Sum(size, Ids \ {i}) /\ k = size[i] /\ Sum(size, Ids) = k + r
      BY <1>3, <1>5
    <2>2. k + r <= bytes /\ Sum(size', Ids) = r
      BY <1>3, <1>5, <1>6, <1>8, <2>1
    <2>3. r <= bytes - k /\ bytes - k \in Nat
      BY <1>3, <2>2
    <2> QED
      BY <2>1, <2>2, <2>3
  <1>10. CASE /\ pc[t] = "remove" /\ pc' = pc
              /\ victims' = [victims EXCEPT ![t] = victims[t] \ {i}]
              /\ total' = [total EXCEPT ![t] = total[t] - size[i]]
    <2>1. PICK r, k \in Nat : /\ r = Sum(size, victims[t] \ {i}) /\ k = size[i]
                              /\ Sum(size, victims[t]) = k + r
      BY <1>3, <1>5
    <2>2. k + r <= total[t] /\ total[t] \in Nat
      BY <1>3, <1>10, <2>1 DEF ByteInv
    <2>3. r <= total[t] - k /\ total[t] - k \in Nat
      BY <2>2
    <2>4. total' \in [Threads -> Nat] /\ total'[t] = total[t] - k /\ victims'[t] = victims[t] \ {i}
      BY <1>3, <1>10, <2>1, <2>3
    <2>5. Sum(size', victims'[t]) <= total'[t]
      BY <1>3, <1>5, <2>1, <2>3, <2>4
    <2> QED
      BY <1>1, <1>2, <1>4, <1>7, <1>9, <1>10, <2>4, <2>5 DEF ByteInv
  <1>11. CASE /\ \/ pc[t] = "removeAll" /\ pc' = pc
                 \/ pc' = [pc EXCEPT ![t] = "done"]
              /\ total' = total \/ total' = [total EXCEPT ![t] = 0]
    <2>1. total' \in [Threads -> Nat] /\ \A u \in Threads : pc'[u] # "remove"
      BY <1>1, <1>3, <1>11 DEF SlotInv, SlotTypes
    <2> QED
      BY <1>2, <1>4, <1>7, <1>9, <2>1 DEF ByteInv
  <1> QED
    BY <1>2, <1>10, <1>11

LEMMA ByteStep == SlotInv /\ ByteInv /\ [Next]_vars => ByteInv'
  <1> SUFFICES ASSUME SlotInv, ByteInv, [Next]_vars PROVE ByteInv'
    OBVIOUS
  <1>1. ASSUME NEW t \in Threads, Step(t) PROVE ByteInv'
    BY <1>1, QuietBytes, OpenBytes, AddBytes, EvictBytes, RemoveBytes DEF Step
  <1>2. CASE UNCHANGED vars
    BY <1>2, SameBytes DEF vars, cellVars, evictVars, threadVars, Uncounted
  <1> QED
    BY <1>1, <1>2, QuietBytes DEF Next

(* The subtractions of evict never wrap: cached_bytes, unless a reader is  *)
(* about to add to it, and the total_size of an eviction are never less    *)
(* than what they are the sum of, whatever the sizes of the pages.         *)
THEOREM BytesAreCovered == Spec => []BytesCover
  <1>1. SlotInv /\ ByteInv => BytesCover
    <2> SUFFICES ASSUME SlotInv, ByteInv PROVE BytesCover
      OBVIOUS
    <2>1. size \in [Ids -> Nat] /\ bytes \in Nat /\ total \in [Threads -> Nat]
          /\ victims \in [Threads -> SUBSET Ids]
      BY DEF ByteInv, SlotInv, SlotTypes
    <2>2. readers = {} => bytes >= Sum(size, Ids)
      <3>1. Sum(size, Ids) \in Nat
        BY <2>1, IdsFinite, SumNat
      <3> QED
        BY <2>1, <3>1, AllCounted
    <2>3. \A t \in Threads : pc[t] = "remove" => total[t] >= Sum(size, victims[t])
      <3>1. \A t \in Threads : Sum(size, victims[t]) \in Nat
        BY <2>1, IdsFinite, SumNat
      <3> QED
        BY <2>1, <3>1 DEF ByteInv
    <2> QED
      BY <2>2, <2>3 DEF BytesCover, Sum
  <1>2. Init => SlotInv /\ ByteInv
    BY InitSlot, InitBytes
  <1>3. SlotInv /\ ByteInv /\ [Next]_vars => (SlotInv /\ ByteInv)'
    BY SlotStep, ByteStep
  <1> QED
    BY <1>1, <1>2, <1>3, PTL DEF Spec

(* The rest of the types. *)
RestTypes ==
    /\ readers \subseteq Threads
    /\ dirty \subseteq Objects /\ allowed \subseteq Objects /\ forced \subseteq Objects
    /\ ops \in 0 .. MaxOps

LEMMA RestStep == RestTypes /\ [Next]_vars => RestTypes'
  <1> SUFFICES ASSUME RestTypes, [Next]_vars PROVE RestTypes'
    OBVIOUS
  <1> USE DEF RestTypes, lockVars, objectVars
  <1>1. ASSUME NEW t \in Threads, Step(t) PROVE RestTypes'
    <2>1. CASE Lookup(t) \/ Insert(t) \/ Fill(t) \/ Done(t) \/ Evict(t)
      BY <2>1 DEF Lookup, Insert, Fill, Done, Evict
    <2>2. CASE Open(t) \/ Add(t)
      BY <2>2 DEF Open, Add, NewIsDirty, GiveBack
    <2>3. CASE Remove(t) \/ RemoveAll(t)
      BY <2>3 DEF Remove, RemoveAll, DropPage
    <2> QED
      BY <1>1, <2>1, <2>2, <2>3 DEF Step
  <1>2. ASSUME NEW t \in Threads, Call(t) PROVE ops' \in 0 .. MaxOps
    BY <1>2, CacheConstants DEF Call
  <1>3. ASSUME NEW t \in Threads, NEW i \in Ids, Get(t, i) \/ \E v \in Values : NewPage(t, i, v)
        PROVE RestTypes'
    BY <1>2, <1>3 DEF Get, NewPage
  <1>4. ASSUME NEW t \in Threads, NEW o \in Objects,
               \/ LetGo(t, o) \/ AllowFree(t, o) \/ ForceFree(t, o)
               \/ \E v \in Values : Write(t, o, v)
        PROVE RestTypes'
    BY <1>2, <1>4 DEF LetGo, AllowFree, ForceFree, Write
  <1>5. ASSUME NEW t \in Threads, Flush(t) PROVE RestTypes'
    BY <1>2, <1>5 DEF Flush
  <1>6. CASE UNCHANGED vars
    BY <1>6 DEF vars
  <1> QED
    BY <1>1, <1>3, <1>4, <1>5, <1>6 DEF Next

(* The state of the cache stays one the program can be in; that the two    *)
(* sums of bytes stay natural numbers rests on BytesAreCovered's argument. *)
THEOREM CacheTypeCorrect == Spec => []TypeOK
  <1>1. Init => RestTypes
    BY CacheConstants DEF Init, RestTypes
  <1>2. SlotInv /\ DataInv /\ ByteInv /\ RestTypes => TypeOK
    BY DEF SlotInv, SlotTypes, DataInv, ItemTypes, ByteInv, RestTypes, TypeOK
  <1>3. Init => SlotInv /\ IdInv /\ DataInv /\ ByteInv
    BY InitSlot, InitId, InitData, InitBytes
  <1>4. SlotInv /\ IdInv /\ DataInv /\ ByteInv /\ [Next]_vars
          => (SlotInv /\ IdInv /\ DataInv /\ ByteInv)'
    BY SlotStep, IdStep, DataStep, ByteStep
  <1> QED
    BY <1>1, <1>2, <1>3, <1>4, RestStep, PTL DEF Spec
=============================================================================
