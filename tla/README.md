# A verification of tiny-maps

tiny-maps turns an OpenStreetMap extract into a small on-disk map and shows it.
A compressor reads the extract in parallel and stores each element in two
trees, whose leaves are pages of a paged file; a viewer opens the same trees and
loads the objects in view.  This directory holds TLA+ modules for the parts of
that program whose correctness is hard to test, the TLC configurations that
check them on small instances, and proofs about them for every instance.

Paths below are relative to the repository, which `PROJECT.json` calls `src/`.

## The system

| component | state | operations | used by |
|---|---|---|---|
| page allocator and chains, `storage/src/paged_storage.rs` | `PageUse`: the lowest page never allocated, the heap of freed pages, the file; in the file, a header of two links per page | `alloc_new`, `alloc_new_after`, `free_page`, `truncate_unused`, `condense`, `Page::open`, `Page::flush` | both trees |
| page cache, `storage/src/cache/mod.rs` | a map from ids to cells behind a read-write lock, a byte counter | `get_or_insert`, `evict`, `evict_all_possible` | paged storage |
| multi-type storage, `storage/src/multitype_paged_storage.rs` | one `PageUse` shared by several caches | the same, by type; `sub_view` | sparse tree |
| dense tree, `tree/src/dense/` | a binary tree of nodes in memory, each with an optional page, a count and a write-once split; a structure file | `insert`, `get`, `find_entries_in_box`, `find_entries_touching_box`, `flush`, reopening | compressor, viewer |
| sparse tree, `tree/src/sparse/` | the same, but the nodes are an item in page 1 | the same, and `condense` | compressor |
| keys and boxes, `tree/src/bbox.rs`, `point_range.rs`, `tree_traits.rs` | none | splitting, containment, overlap, deltas | both trees |
| `BTreeVec`, `btree_vec/src/` | nested sorted lists of keys with values | `push`, `get`, three iterators | both trees |
| value pool, `storage/src/pooled_storage.rs`, `lru_cache/src/topn.rs` | a file of blocks of values, two small recency caches | `insert`, `get`, `flush` | compressor |
| single-value storage, `storage/src/storage.rs` | a value, a dirty flag, a generation counter, a file | `flush`, `deref`, `ref_mut`, `modify` | nothing at present |
| codecs, `storage/src/varint.rs`, `bit_sections.rs`, `lutmorton/` | none | varints, Morton codes, bit fields | everything stored |
| tag schema, `osm_schema_builder/`, `osm_tags_to_fields/` | none when it runs; the code is generated from `osm_tags_to_fields/id-tagging-schema-data/` by the build | `parse_tags_to_fields`, `apply_deprecations`, the bytes of an `AnyOsmField` | OSM element compression |
| OSM element compression, `osm_tag_compression/`, `osm_value_atom/` | none but the pools and the boxes it is given | `make_from_obj`, `minimally_serialize`, `decompress_way_points`, `deserialize_way` | compressor, viewer |
| compressor, `src/compressor/mod.rs`, `src/bin/main.rs` | the trees, the pools, a queue of elements to retry | `write_element` from many threads, `flush_to_storage`, `attempt_retry_queue` | the program |
| viewer loader, `viewer/src/loader/mod.rs` | three threads, three channels, a buffer and a flag | pan, zoom, resize; debounce; reload | the viewer |

The compressor's threads call `insert` on both trees at once.  An insert walks
down the tree, may split a leaf (a write-once cell), gets the leaf's page from
the paged storage and changes its item under the page's own lock.  Getting a
page goes through the cache; a miss opens the page under the `pageuse` mutex; an
overfull cache drops pages, and dropping a dirty page writes it, under the same
mutex.  Between two chunks of input, and at the end, one thread flushes
everything.

### What is hard about it

* **The file.** An item is stored in a chain of fixed-size pages, which grows and
  shrinks each time it is written.  The allocator is in memory, only its high
  mark is in the file, and the links are written one by one.  A page that gets
  two uses destroys somebody's data much later.
* **Crashes.** A chunk takes minutes and a run takes hours, so the file does get
  reopened after a run that was stopped.
* **Concurrency in the trees.** A leaf is chosen first and changed later, and
  may be split in between; a leaf without a page gets one without a lock held
  since the check; the count of an inner page is kept outside of it.
* **Two copies of the truth.** The structure file counts what the pages hold; the
  cache of each view holds its own copy of a page.
* **Waiting.** Locks of four kinds are nested; the retry queue must drain; the
  viewer must show the last position, not an earlier one, although two threads
  compute it, each for itself.

### What makes each component correct

* allocator and chains: no page has two uses; links and lists agree; an item
  that was written is read back; only a crash loses pages.
* cache: every caller that uses an id at the same time has the same page; a page
  is written before it is opened again; nobody waits forever.
* trees: an inserted entry is found by `get` and by a search of a box that
  holds it, whatever is split or evicted; each entry is in one node; after a
  flush and a reopening nothing is missing.
* boxes: the two halves of a box cover it; the side chosen for a key is the side
  a search takes; deltas are inverses.
* `BTreeVec`: `get` finds what was pushed, iterators yield it once in key order.
* pool: an id yields the value it was given for.
* tag schema: a known field is read back as it was written, and what it holds tells the tag
  it was made of.
* compressor: an element whose parts are all known is stored, exactly once.
* loader: what is shown is, in the end, what the last request asks for.

`PROJECT.json` lists the hazards one by one, with their lines and the
properties that cover them.

## The modules

| module | models | composes | theorems, instance |
|---|---|---|---|
| `PageStore` | what `StoreByPage` promises its users: a map from ids to items, of which a crash keeps what was saved | | |
| `PageFile`, `PageFileInv` | the paged file, and its inductive invariant in named parts | implements `PageStore` | `PageFileProofs`, `MCPageFile` |
| `PageCache` | the cache with the threads that use it | implements `PageStore` | `PageCacheProofs`, `MCPageCache` |
| `DenseTree` | the dense tree with threads and files, boxes as sets | stands on `PageStore`'s promise | `DenseTreeProofs`, `MCDenseTree` |
| `SparseTree` | the sparse tree with threads and its root page | stands on `PageStore`'s promise | `SparseTreeProofs`, `MCSparseTree` |
| `Multimap` | what a `BTreeVec` promises | | |
| `BTreeVec` | the children of a page of either tree | implements `Multimap` | `BTreeVecProofs`, `MCBTreeVec` |
| `Regions` | boxes, ranges and keys | | `ElementStoreProofs` |
| `Codecs` | integers, boxes, strings and literals as bytes | `Regions` | |
| `ValuePool` | `Pool` on its file | `Codecs` | `ElementStoreProofs` |
| `TagSchema` | what the generated code makes of tags: deprecations, known fields and their bytes | `ValuePool` | `ElementStoreProofs`, `MCElementStore` |
| `ElementStore` | what becomes of an element: its box, its bytes, the pools and the dense tree with real boxes | all four above | `ElementStoreProofs`, `MCElementStore` |
| `Compressor` | the program: rounds, tasks, the retry queue | | `CompressorProofs`, `MCCompressor` |
| `ViewerLoader` | the viewer's three threads | | `ViewerLoaderProofs`, `MCViewerLoader` |

`PageFile` and `PageCache` each implement `PageStore`, one for crashes and
chains, the other for threads, and both trees are written on top of what it
promises.  The trees with threads know of boxes only what lies in what;
`ElementStore` runs the dense tree with one thread and with the boxes, keys and
bytes of the code, so that what the one leaves out the other has.  `Compressor`
has the order in which elements are written, `ElementStore` what writing is.

### PageFile

| code | model |
|---|---|
| `PageUse.lowest_unallocated_id`, its copy in page 0 | `lowest`, `fileLowest` |
| `PageUse.freed_pages` | `freed`, a bag: a heap can hold a page twice |
| the header of page p: next and previous page | `next[p]`, `prev[p]`; 0 is none, as `as_valid` reads it |
| a page's bytes | `data[p]`: which block of which item was written there last |
| the cache's entries, `Page.item`, `Page.dirty` | `cached`, `item`, `dirty` |
| `Page.free_state`, bits 0 and 1 | `allowed`, `forced` |
| `Page.component_pages` | `chain[id]` |
| the ids a caller still holds | `known` |
| `PageWriter`, `WriterState` | `step`, `wItem`, `wBlock`, `todo` |
| `Begin`, `WritingAllocated` | `todo` holds the pages of the chain not yet reached |
| `NeedsNewAllocation` | `todo` is empty |

Operations of a caller are one action each: `NewPage`, `Open` (a `get` that
misses), `Write`, `AllowFree`, `ForceFree`.  Eviction removes a page from the
cache and drops it, and `Page::flush` then runs as a sequence of steps, one
write to the file at a time, so that a crash can come between any two:

    EvictDirty -> WriteBlock | GrowChain LinkNext LinkPrev ... -> EndData
               -> (FreePage ZeroHeader)* -> EndFlush
    EvictForced -> (FreePage ZeroHeader)* -> EndFlush

The pageuse mutex is held throughout, so at most one flush is under way and
nothing is allocated or opened meanwhile; changes to other cached pages do
interleave with it.

Abstractions, each with its reason:

* An item is the number of pages its bytes reach (`blocks`) and whether the last
  one is filled exactly (`exact`).  The writer's state depends on no more.
* `data[p]` is a whole page.  `BufWriter` hands over up to 8 KiB, a page; when it
  hands over less the steps in between write the same page.
* The three writes of `alloc_new` (the high mark, the length, the empty header)
  are one step.  A crash between them leaves a page beyond the high mark, or
  one without a link, that nothing names yet.
* After a crash callers only use ids whose last flush ended and on which no
  flush has begun since.  An id whose flush was cut short may hold a mixture of
  two items, and nothing in the code can tell; `SavedReadable` and `PageStore`
  make no promise about it (`Drop`).
* `saved` and `crashes` are history variables.
* Which page is evicted, and when, is left open: the cache picks by size and by
  use, and no property here depends on it.
* `condense` and `truncate_unused` are not modelled yet.  The one caller, the
  sparse tree's `condense`, works on a `SingleTypeView`, where both are the
  trait's defaults and do nothing.

### DenseTree

`DenseTree` has one thread variable of each kind per inserting thread, and
stands on `PageStore`'s promise: a page is an item that changes only when it is
written.  Nodes have the code's own ids, the halves of n being 2n and 2n+1, and
`Within[n]` is the set of entries whose box lies in the box of n.  It is a
constant, and the only thing the model knows of geometry: the assumption
`DenseConstants` asks that a half's box lies in its node's, and lets the halves
share entries, as boxes that share their middle line do.

| code | model |
|---|---|
| `Node.page_id`, `children_count` | `pageId[n]`, `count[n]` |
| `Node.left_right_split`, a `OnceLock` | `split[n]`: "leaf", "splitting" while one thread runs its initializer, "split" |
| the read locks on `page_id` | `reading[n]`, the threads that hold one |
| `Inner.children` of a page; the lock on its item | `children[p]`, `holder[p]` |
| the structure file, the data file, `structure_dirty` | `fileNodes`, `filePages`, `structureDirty` |
| `tree`, then `leaf`, in `insert`; the page it got | `at[t]`, `page[t]` |
| `left_children`, `right_children` of a split | `moving[t]` |
| `get_key_leaf_splitting_if_needed`, `try_split_left_right` | `Begin`, `Descend`, `TrySplit` |
| `split_left_right_unchecked` | `AlreadySplit`, or `BeginSplit`, `LockPage`, `Partition`, `GiveBack`, `Publish` |
| `insert_to_existing_page` | `Store`, `Push` |
| `insert_to_new_page` | `PushToNewPage` |
| `search_leaf_for_key`, `get`; `find_entries_in_box` | `LeafFor`, `FoundByGet`; `FoundBySearch` |
| `flush`, opening the files | `Flush`, `Reopen` |

A step ends where another thread can come in between: before a lock is taken, and
after a lock-free read.  A lock that is taken and given back within one step is
not part of the state.  `Store` keeps its read lock on `page_id` until `Push`
has stored the entry; `BeginSplit` keeps it until it has the page; and `GiveBack`
takes the page from the node only when nobody has one, which is what makes it
safe to empty a page under the eyes of a thread that is about to store in it.

Abstractions:

* `Publish` drops the page's lock and publishes the halves in one step.  In
  between, a thread can at most store in the page it has locked by then, and
  that step commutes with the making of the halves.
* Pages leave memory in `Flush` only, and `Flush` comes between rounds, as it
  takes the tree `&mut`.  Evicting earlier is `PageFile`'s subject.
* Page ids are not used twice.  `allow_free` is called on an emptied page, but
  an empty `Inner` still writes its length (`tree_serde.rs:39`), so that the
  page keeps one block and is never returned.
* A second new page for one node is what a release build does, in which the
  assertion on line 199 is not compiled; `overwrote` remembers it.
* `get` and the searches are predicates on a state and not processes: no program
  reads while it inserts.  The window of `find_entries_in_box` is one entry's
  box, which every node that holds the entry overlaps.
* The files are opened again only after a flush, and only while they can be
  read: a page of which the structure file claims more entries than it has
  fails to parse, or yields made-up entries, and no property says anything
  after that.
* `expand_to_depth`, which the compressor calls once, before it inserts, and which
  does nothing to an empty tree, is in `ElementStore`, where the axes are.

### PageCache

`PageFile` lets any page leave memory at any time; `PageCache` is what decides that,
with the threads that ask for pages meanwhile.  A page is an item and a state
here, and its chain in the file is `PageFile`'s subject.

| code | model |
|---|---|
| the `RwLock` around the map | `writer`, `readers` |
| an entry: no entry, an empty `OnceLock`, one being filled, a filled one | `cell[i]`: "absent", "empty", "filling", "filled" |
| the pair in a cell | `size[i]`, `object[i]` |
| `cached_bytes` | `bytes` |
| a `Page` in memory, its item and flags | `pageOf`, `item`, `dirty`, `allowed`, `forced`, by object |
| the `Arc`s outside the cache | `hands[t]` |
| `alloc_new`, the file | `free`, `file` |
| `get_or_insert`, line by line | `Lookup`, `Insert`, `Fill`, `Open`, `Add` |
| `get`, `new_page_with` | `Get` or `NewPage` at the beginning, `Done` at the end |
| `evict`, `evict_all_possible` | `Evict`, then `Remove` or `RemoveAll` for each page |
| `Drop for Page` with `Page::flush` | `DropPage` |
| `write` and `write_arc`, `allow_free`, `force_free` | `Write`, `AllowFree`, `ForceFree` |

Objects are told apart even when they have the same id: that an id has one
object is a property (`OneCopy`) and not how the model is built.  A thread that
waits for a cell keeps its read lock, as line 76 does, so that an eviction waits
for the filling of every cell.

Abstractions:

* The pageuse mutex is taken and given back within a step: nothing that holds it
  waits for the cache.  The lock on an item is left to `DenseTree`.
* `evict` goes through a `BinaryHeap` with `for`, which yields its elements in no
  particular order; `Remove` takes any of them.
* `AllowFree` empties the item as well, as its comment demands; an item that still
  writes bytes when it is empty is `PageFile`'s.
* A thread does not get a page that it holds already; a second `Arc` of one thread
  would change nothing that `hands` is used for.
* After a free nobody starts a call with the id (`Inaccessible`), as the comment on
  `allow_free` demands.
* There is one cache.  Two views of one file have a cache each; the programs use no
  id through both.

### SparseTree

The sparse tree is used for one thing, the compressor's cache of boxes
(`StoredBinaryTree`), so its keys are numbers and its boxes ranges.  Nodes and
threads are named as in `DenseTree`.  Three things differ in the code and so in
the model: a node keeps its page for good (`page_id` is a `OnceLock`), a split
takes the entries out under the page's lock and counts down at once, and the
nodes are an item in page 1 of the same file, which insert changes without
marking it as changed.

| code | model |
|---|---|
| `Node.page_id`, `child_count`, `bbox`, `left_right_split` | `hasPage[n]`, `count[n]`, `box[n]`, `split[n]` |
| `Inner.children` of a page | `children[n]`: a page is named after its node |
| the root's page in memory and in the file, its dirty flag | the node variables, `savedRoot`, `rootDirty` |
| `get_key_leaf_splitting_if_needed`, `try_split_left_right` | `Begin`, `Walk`, `TrySplit` |
| `split_left_right_unchecked`, by halves or at the limit by count | `AlreadySplit`, or `TakeOut`, `Publish`; `Shares`, `AtLimit` |
| the end of `insert` | `Store` |
| `expand_to_depth` | `Expand`, then `ExpandPast` or `ExpandSplit` node by node |
| `condense`, of which `free_all_empty` is all that does something | `Condense` |
| dropping the tree, opening it | `Reopen`: a root that is not dirty is not written |
| `search_leaf_for_key` and `get_owned`; a search for everything | `LeafFor`, `FoundByGet`; `Visited` |

The boxes of nodes that were read from the file, those a search works out on its
way and those in memory are three different things here (`HalvedBox`,
`SearchBox`, `box`), as they are in the code, where they differ once a box could
not be halved.

### BTreeVec

`BTreeVec` models the one data structure both trees keep their entries in, node
by node.  A node is a list of places, each with its range and either the values of a leaf
or the number of the list below; `itms` is the sequence of these lists, the root's first, so a
child list, which the code has inside its parent's vector, comes later in the sequence than its parent.
The recursive methods (`push`, `get`, `iter`) are recursive functions on the numbers of
lists, the loops of `from_iter` and `stateless_next` on the number of rounds.
Modelled are both searches (from the
front, or by halves when a node has more than twice the limit), the leaf that
becomes a list when a full node gets a key below it, and the three ways a tree
is built anew when a page is read or split.  `stateless_next` is a step of its own, so
that pushes may come between two of them.  `get` is kept in the history variable
`got`, which is how the refinement sees the tree.  `MAX_ITEMS_FOR_INSERT` is the
constant `MaxInsert`.  `begin_range`, which nobody calls, is left out.

### Regions, Codecs, ValuePool

These are operators and no state machines.

* `Regions`: boxes of two dimensions with their halves, ranges of one, the four
  functions that choose a side, Morton keys relative to a node.  A coordinate has
  `W` bits (32 in the code); sums wrap where the code wraps.
* `Codecs`: varints, offsets of keys, boxes, the eight packings of strings and
  literal values.  A writer is a sequence of bytes, a reader gives what it read
  and the bytes that are left, and `Then` hands both to the next one.  Words have 28 bits (64 in the code): a multiple
  of seven that is the length of a whole number of groups, so that the longest
  integers have the redundant first byte the code writes.  What the code reads or writes in a
  loop is a recursive function on the number of turns: of what is read so far and the bytes that are
  left (`Repeated`), or of the number of bytes taken.
* `ValuePool`: a pool is a record of its file, its one cursor, the number of the
  next value, where the block under way begins, and the two recency lists, which
  `TopNHeap` keeps; `Get` reads by that cursor and leaves it where it is.  A block has at most
  2^19 values (3000 in the code), so that its size fits the bytes of its header.

### TagSchema

`osm_schema_builder/` is a build script's library: it reads the schema in
`osm_tags_to_fields/id-tagging-schema-data/` and writes Rust, one struct for each field and the functions
`apply_deprecations` and `parse_tags_to_fields`.  The module is what that Rust does when it runs, for any schema.

| code | model |
|---|---|
| a field of the schema, its `FIELD_ID`, its `FieldData` | a record of `Schema`: `id`, `kind`, `keys`, `options` |
| a `Deprecation`: renamings, removals, expansions, `ArbitraryStateful` | a record of `Rules`: the tags it wants (`from`), the key whose value it copies (`copy`), what it gives (`to`) |
| `state_i` of a stateful one; `make_drain_state_code` | `Captured`, `Matched`; `LeftOver` |
| `apply_deprecations` | `ApplyDeprecations` |
| `try_into_field`, `update_state`, `end_state` | `SingleField`, `FlagsOf` and `Flags`, `ManyField` |
| `tags.collect()` into `Tags` | `Collected` |
| `parse_tags_to_fields`, and the loop that puts its two results together | `ParseTags` |
| `Field::Field` and `Field::Other` | `Known`, `Other` |
| `SerializeMinimal` for `Field` and `AnyOsmField`, and the field's own | `KnownField` |
| `DeserializeFromMinimal` for the same | `ReadField`, `ReadKnown` |

A known field begins with two bytes that hold a bit, the ten bits of its id and five bits for the field.  The
second one, with the id's last three bits, is handed to the field, which writes it: whole, as the
header of a string, or as a *number* in a varint.  The last is the trouble: a varint of 64 or more has two bytes.

* The kinds that are modelled are text, checkbox, combo, several flags and localized string: the types of 478 of the schema's 594 fields.
  The others that are written (number, colour, number with a unit, date, list of combos, address) are not.
  Their values are floats, dates and lists, and the reader of an address is `todo!()`.
  `DirectionalCombo` never makes a field (its `update_state` gives every tag back and its `end_state`
  of nothing gives nothing), and `make_field_structs` skips `Access`.
* `id` is any number below 1024 that is unique: ids are counted in the order of a `HashMap`
  (`mod_tree.rs:5`), so every build has others.  The order of `Schema` is that of the fields' names, as in the code.
* Options that the schema does not have are asked of taginfo.openstreetmap.org at build time
  (`load_field_data.rs:148`): they are constants, like the rest of the schema.
* Flags are at most one word (the code has one word for each 32 of them).
* A tag's value has at most 255 characters of four bytes, which is the limit of OpenStreetMap (`MaxTagBytes`).
* A tag's value is a literal from the start, which in the code only a `Field::Other` has.  A text field of a
  number has the characters of that number as `Characters` writes it, without a leading zero.
* `Tags` of `osmpbfreader` is external: a map by keys, of which the last value stays.

### ElementStore

| code | model |
|---|---|
| `cache_bboxes` | `cache` |
| `Pool<Field>`, `Pool<LiteralValue>` | `literals`, `values` |
| `geography`, its nodes, their pages | `tree` |
| `write_element` with `make_from_obj` | `Write`, `WriteEmptyNode` |
| `serialize_node`, `serialize_way`, `serialize_relation`, `Field`'s own | `NodeBlob`, `WayBlob`, `RelationBlob`, `FieldBlob` with `KnownField` and `OtherField` |
| `insert` and its splits; one turn of the loop that goes down | `Descend`, `Split`, `ShareEntry`, `Push`; `Nearer` |
| a page as bytes, the structure | `PageBytes`, `ReadPage`; `BoxOfNode`, `Loaded` |
| a second run of the program on its own map | `Rerun`: `Loaded`, then `Expand`, and pools from their files |
| `find_entries_touching_box`, `search_leaf_for_key` | `Found`, `LeafFor` |
| `decompress_way_points`, what the viewer draws | `WayPoints` |
| `deserialize_way` and `Pool::get` | `ReadTags` |

`written` and `read` are what was stored and read, for the properties.
`Found` searches the tree as the next program would read it from the file at
that moment, so that every state checks the bytes of pages and structure.

* The fields of an element are what `TagSchema` makes of its stored tags (`FieldsOf`).  A known field keeps what
  it holds in its bytes, strings included; of the others the pool has the key and the value.
* `Rerun` keeps the boxes of the elements: their cache is the sparse tree.
* `ReadTags` can only happen once writing is over, since no program does
  both.  In fact nothing calls it yet: its only way in is
  `UncompressedOsmData::compress`, which has no caller.

### Compressor

One action for what a thread does between two accesses to what it shares: a
lookup of one part in the cache of boxes (`LookUp`), the box of the element itself (`PutBox`), the tree
(`Store`), the end of the queue (`PushBack`).  `StartRound` gives the next
`WRITE_EVERY_N_CHUNKS` blobs to a task each and waits for all of them; `StartRetry`,
`PopFront`, `PassAgain` and `Report` are `attempt_retry_queue` and the drain into
`incomplete_relations.note` after it.  An element is in the file once (`EachOnce`),
as the format demands.  A flush between two rounds moves nothing from one place to
another that is a variable here.

### ViewerLoader

| code | model |
|---|---|
| `State.view_bbox`, the window's size | `view`, `sizes`: how many there were before |
| the pinches whose two factors differ | `astray`, a history |
| the flag whether to draw, the objects taken out | `rerender`, `hand` |
| both channels and the debouncer's | `messages`, `ticks`, `passed` |
| `objects`, `has_updates` | `buffer`, `hasUpdates` |
| the loader's position, size, level and iterator | `bbox`, `size`, `level`, `search` |
| `debounce`'s `send` | `waiting` |
| events of the window, `State::render` | `Move`, `Pinch`, `Resize`, `Redraw`; `Take`, `PutBack` |
| `debounce` | `Receive`, `PassOn` |
| `start_object_loading`, `reload_objects` | `Tick`, `Load`, `Store`, `Flag`, `Message` |

The window and the loader each keep a box of their own, and the window sends what
to do with it.  For a drag and the wheel both do the same.  For a pinch
(`TouchpadMagnify`, `cartography/mod.rs:139-155`) they do not: the factor is
`convert_pixels_to_view(delta)`, which depends on the place and the height of the
view, and it is computed once for the window's box and once more, *from the box
already zoomed*, for the message.  From then on the loader's box is not the
window's, and every later move starts from there.  The two factors are the same
only when the first is above 1, since `zoom` then returns without doing
anything (`bbox.rs:288`), or when the view keeps its `y` and its height; such a pinch is
a `Move` like a drag, every other one is a `Pinch`.

An area is the number of moves that led to it and at how many of these the
loader was told another one (so the window's have none), a level a pair of an area and a
size: all that matters is which ones are told apart.  Time is left out: the
condition in `debounce` (lines 86-88) is the wrong way round, so that a tick is
passed on at once just after another, and the model lets it be passed on at any
moment.  The objects are those of one search, or nothing.

## The runs

### The paged file

`page_file` (`MCPageFile.cfg`): three pages beside the header page, one crash,
and three items: one page filled exactly, a little over one page, and a little
over two.  142,889 states.

Three pages are enough for the cases that matter: two items at once, an item
that grows over a page the other has freed, a shrinking item that returns two
pages in one flush, a spare page kept behind an item that ends on a page
boundary, and a chain whose pages are not in ascending order.  With one crash
the freed heap is lost while chains exist; a second crash finds no new kind of
state.  `VIEW MCView` leaves out the contents of pages nobody reads before they
are written again: `Open` reads the blocks of saved items, the flush under way
reads none, and the properties read those blocks only, so two states with the
same view have the same futures.  Deadlock is not checked, because a
flush that needs a fourth page stops at the bound `MaxPage`.

| property | what it says |
|---|---|
| `TypeOK` | types |
| `NoSharedPage` | a page is in one chain at one place, or on the heap once, or about to be freed |
| `LinksMatch` | the file's links agree with `component_pages` both ways, up to the link being changed |
| `SavedReadable` | a saved item's blocks are all in its chain, in order, until its id is freed or written again |
| `NoLeak` | without a crash no page below the high mark is lost |
| `ReopenFindsChain` | reading a page finds the list of pages it had when it was evicted |
| `StoreSpec` | the paged file implements `PageStore`, where the value of an evicted page is what the file says |

`StoreSpec` is the strongest of them: it takes the item of every id that is not
in memory from the file, by the reader's own rule (`IsReadChain`), and demands
that it never changes but by a write, a crash or a free.  There is no fairness
in this module: nothing obliges a caller to act, and no liveness is claimed.

### The dense tree

Five entries (`MCDenseTree.tla`): one in a quarter, one on the line between two
quarters and so in both, one across that line in a half, one in the other half
and one across the first line, which stays at the root.  Together they take
every branch of `Share` and `Side`.  `Saturation = 1` makes a leaf split once it has
two entries, so that with five entries the root splits and its half splits
again; `MaxNode = 7` makes three levels, whose last does not split.  Six pages
are enough for every step: an insert that wanted a seventh would stop, and
`InsertsEnd` or, with one thread, the deadlock check would say so.  Deadlock is
checked in all of these runs: `Flush` is possible only when no insert is under way,
so that threads that wait in a circle are a deadlock.

| run | instance | shows |
|---|---|---|
| `dense_tree` | two threads, one round, fair; 242,462 states | with two inserts in any order of steps: entries are in one place (`OnlyOnce`) and in a node whose box holds them (`InItsBox`), leaves are bounded although the limit is checked without a lock (`LeafBound`), counts match pages that are not locked (`CountsMatch`), a search finds everything (`NoneLost`), and all inserts end (`InsertsEnd`) |
| `dense_reopen` | one thread, two reopenings; 40,286 states | with one thread `get` finds what a search finds (`GetFindsStored`), and what was flushed is there after a reopening, unless the structure file was older than the tree |
| `dense_overwrite` | two threads | violates `NewPageWhereNone`, the assertion in `tree.rs:199` |
| `dense_stale` | one thread | violates `ChildLenAgrees`, the assertion in `tree_serde.rs:87` |

The two violations are findings about the code:

* *Two new pages.*  Both threads see that a leaf has no page, under a read lock
  that is given back; each then makes one, and the second replaces the first,
  with its entry.  `NoneLost` and `CountsMatch` are stated for states in which
  this did not happen (`overwrote`), which says that it is the only way for
  concurrent inserts to lose an entry.
* *An old count.*  `structure_dirty` is set only by an insert that makes a new
  page.  A later insert into an existing page, or a split on the way to one,
  leaves the structure file as it was; once the tree is opened again it
  reads as many entries of a page as the old count says.  `NoneLost` excludes
  this, too (`stale`).

`GetFindsStored` is checked with one thread only, since it does not hold with two: a thread
chooses a leaf, another splits it, and the first stores its entry in what is now
an inner node.  A box search visits inner nodes too and finds it; `get` goes down
to the half and does not.  No program calls `get` of this tree, so this is a remark
and not a finding.

The second debug assertion of `split_left_right_unchecked` (`tree.rs:625`) reads
the count after the page was given up; another thread may have given the node a
new page and a new count by then.  That is the same window as the first finding
and has no run of its own.

`InsertsEnd` assumes weak fairness of `Step(t)` for each thread: a thread that
can take its next step is scheduled in the end.  Locks need no more, since a thread
waits only for a lock whose holder can always go on, and every walk is as short as
the tree is deep.  Nothing is assumed of `Begin`: no insert has to come.  That
splitting itself ends is not shown: `MaxNode` stops it in the model, and in
the code more than `NODE_SATURATION_POINT` entries with the same box
split for ever (listed among the hazards).

### The page cache

`page_cache` (`MCPageCache.cfg`): two threads, two ids, three objects, one more than
the ids, so that a second copy of a page would have a place to be, pages of size
1 and 2 in a cache of 1, so that an eviction can stop early or go on, and
six calls.  190,109 states.  Six calls are enough for two threads to miss one id at
the same time while a page is written, evicted, freed, and its id used again.
Calls are counted, so the system stops in the end and deadlock is not
checked; a call that waits for ever would violate `CallsEnd`.

| property | what it says |
|---|---|
| `TypeOK` | types; among them, that `cached_bytes` does not wrap below zero |
| `OneCopy` | an id has at most one page in memory, in the cache or in somebody's hands |
| `VictimsUnused` | a page found unused by an eviction stays unused until it is removed |
| `BytesCover` | `cached_bytes` and `total_size` are never less than what is subtracted from them |
| `NewPageInserts` | `new_page_with` never finds an old page in the cache, as its comment claims |
| `StoreSpec` | seen by the threads, the cache is a `PageStore`: a get sees the last write to its id |
| `CallsEnd` | every call ends |

`cached_bytes` may become larger than what is in the cache: a thread that waited
for another to fill a cell adds the size once more.  The comment on lines 82-84
accepts that.  The surplus is never taken back, so a cache that has seen many
such races evicts at every miss.

`CallsEnd` assumes weak fairness of `Step(t)` for each thread, that is, that a
thread which can take its next step is scheduled in the end.  Since calls are
counted, the cache's lock is free for good at some point, and weak fairness of
the thread that waits is enough.  Nothing is assumed of new calls.  Whether a thread
can be overtaken by others for ever is up to `parking_lot` and not claimed.

### The sparse tree

`sparse_tree` (`MCSparseTree.cfg`): two threads insert six entries with the keys 0,
1 and 2, four of them under the key 0, so that the halves of the root, `<<0, 1>>` and
`<<1, 2>>`, cannot be halved again and the left one splits by count.  Three levels,
a limit of four, which makes a quarter of a full leaf one entry, and two
reopenings, the second of which reads what was inserted after the first.  Deadlock
is checked: `Reopen` and `Expand` need all threads idle, so threads that waited for each
other would be found.

| property | what it says |
|---|---|
| `TypeOK` | types |
| `SearchFindsOnce` | a search for everything finds each entry once, over splits of both kinds, freed pages and reopenings |
| `GetFinds` | so does `get`, where the code allows it |
| `CountsMatch` | the count that decides on a split is the page's length |

What the code does not allow is in the history variables.  `raced`: an entry stored
in a node that was split meanwhile is above its leaf, as in the dense tree.
`rounded`: of two halves with one and the same box, `insert` goes to the left one and
`get` goes by the middle.  The compressor asks this tree for the box of each
part, so an entry that `get` misses is an element that waits in the queue for ever.
`unsaved`: insert changes the root's item under a read lock, which does not mark it as
dirty; a tree that is opened and only inserted into loses the new
nodes.  `Compressor::new` calls `expand_to_depth` on each tree, which does mark it.
No fairness is stated here.

### BTreeVec

`btree_vec` (`MCBTreeVec.cfg`): every order of five pushes of six keys into nodes that
are full with two keys and are searched by halves with five (in the code 32 and 65), rebuilt once, with a walk under way.  469,643 states.
Five pushes fill a node, turn a leaf of it into a list and fill that one; six keys
leave room below, between and above all of them; `FromSortedIter` makes a node
longer than a push does, which is what is searched by halves.

| property | what it says |
|---|---|
| `RangesOrdered` | the ranges of a node follow one another and are those of its children, however deep; `len` is the number of values |
| `WalkExact` | a walk over an undisturbed tree yields each key once, in order, with all its values |
| `MultimapSpec` | `get` and `len` are those of `Multimap`: a push adds one value, a rebuilding none |

A walk that pushes disturb may skip or repeat, and no property says otherwise; no
caller pushes while it walks.

`RangesOrdered` disagrees with the repository's tests.  `validate_assumptions_on_node`
(`btree_vec/src/tests/mod.rs:18-36`) asserts of each two neighbouring keys of a node that the first lies before
the second, which `RangesOrdered` says too, and that *each has a minimum below its maximum*
(`first_min < first_max`, line 26, and `second_min < second_max`, line 28).  `push` gives a leaf the range
`(key, key)` (`btree_vec.rs:103`), and `RangesOrdered` demands that of every leaf, so that two
pushes of different keys violate the assertion.  The file the test reads is from a time when the key of a leaf had
no maximum at all (`(980034117,None)`).  The code, not the test, is what the searches and the
other methods agree with.

### What is stored of the map

`map_data` (`MCElementStore.cfg`): four nodes, four ways and two relations in every
order that their parts allow, with one second run of the program and two reads of
tags.  Coordinates have 8 bits, a leaf holds one element (`Sat`), the tree has
three levels, and blocks of the pool have two values.  6548 states, each of which encodes and
decodes the whole map.  The data were chosen for the cases: a way with two corners on
one line, one that crosses the middle, one with a node at (0, 0), two
ways with one corner; tags that are left out, have a code, are numbers on both sides of
each limit, two letters or strings; a relation with a role for each packing and
one with packings that do not end.  The blocks are small so that a pool has several.
The schema has a field of each modelled kind, and combos with few and with many options; one with few has an id that the
varint runs over, one has not.  A key is removed, a key is renamed into one of a combo, and two tags that
must come together become two others: one way has both of them, another has one.

`lost_tags` (`MCLostTags.cfg`) is the same instance with one property that fails.

| property | what it says | but not |
|---|---|---|
| `BoxesKept` | a search finds each stored element with its box, as often as it was stored, in the node where `get` looks | under a key that another size already has (`Merged`), or after `expand_to_depth` split along the wrong axis (`askew`) |
| `PointsRead` | the viewer reads a way's corners in their order, and none of anything else | for a way whose first node is at (0, 0), a box that `extend` takes for an empty one |
| `TagsRead` | a way's known fields come back as they were, its other tags come back from the pools, and of each tag that no rule replaces one of these fields tells (`Tells`) | a way with a field that does not come back (`Survives`: see below); a literal that does not survive its own bytes (`KeepsItsValue`), one beyond the first block (`ReadRight`), one from an earlier run of the program |
| `RolesRead` | the roles of a relation, read one after another, are those written | when one is packed by half bytes and of even length (`EndsItself`) |
| `BlocksWalk` | by the sizes before them one gets from block to block of a pool, up to the cursor | |
| `LiteralsKept` | (violated) every literal in reach comes back | |

Each exception is needed: without it the property fails, and the counterexample is
what the code does.  They are this project's list of what the format loses:

* two elements with the same corner and different sizes share a key, and with it
  the first one's size (`bbox.rs:577`);
* `expand_to_depth` hands the same axis to every level (`dense/tree.rs:521`), while the
  reader of the structure alternates;
* a way that begins at (0, 0) gets a box without its first node (`bbox.rs:412`);
* small numbers are or-ed into half a byte that is too short for them, specific
  values are masked to nothing and strings are dropped (`literal_value.rs:132-161`; the
  last is the finding of `lost_tags`);
* `Pool::get` skips each block's header twice (`pooled_storage.rs:98`), and
  `Pool::new` begins a file again that has values (line 140);
* a string of half bytes ends at a half byte of ones, which an even one does not have;
* a combo and a localized string write the byte with bits of their id as a varint (`load_field.rs:688`, 692 and
  199): if the id's last three bits are 2 or more, that is two bytes, of which the reader takes the first for
  the second half of the head, so that it finds another id, or none and panics
  (in the run: `w3`, a combo with the id 10, whose bytes are 129, 128, 65).  The comment on line 686 says of the first
  kind that it adds no byte;
* a checkbox keeps yes in the high bit of that byte, which is a bit of its id (`load_field.rs:141`), and the reader
  looks for it after the id has been cut off: yes is read as no, and the id as another one if it had a 0 there;
* the high bit of the head is one the reader's section does not have: with debug assertions
  (`bit_sections.rs:174`), reading any known field panics (`field.rs:48`).  The model reads as a build without them;
* a stateful deprecation that has replaced its tags still holds those it matched and gives them
  back at the end (`deprecations/mod.rs:391-401`).  So the old tags are stored beside the new ones, or, under
  the same key, instead of them.

`TagsRead` follows the reader through all of this, since the bytes are read as they are; a way with such a field is
only left out of what the property demands (`Survives`).  The last item is why the property is about tags that no rule
replaces and whose keys no rule gives (`Lasting`); among them are those that a rule holds until the last tag, and
then has to give back.

Beside them: a node with several tags is stored without its id; the number of
fields in its first varint runs over from a nibble, so that a reader of the first byte sees
0x81 and the number behind it; the test at `varint.rs:145-148` expects 0x80 for 0,
where the code writes 0.  Deadlock is not checked: writing ends.

### The compressor

`compressor` (`MCCompressor.cfg`): eight elements in four blobs, three of them in the
first round and so in three tasks at once, the fourth in a second round; two
relations before their parts, two that need each other, and a way whose node is
not in the file.  Two attempts without progress.  1975 states.  Deadlock is checked;
`Done` stutters.

| property | what it says |
|---|---|
| `OneFate` | an element is in one place: file, worker, queue, tree or note; what is in the tree has a box |
| `LeftOutOnlyIfStuck` | the elements that have a box in the end are exactly those that could have one in any order |
| `RetryEnds` | the retries end |

Fairness is `WF_vars(Step)`: some thread that can take a step takes one in the end,
which is all that a pool of threads needs that is joined before main goes on.
`RetryEnds` rests on the queue: a pass that shortens it may be followed by another,
and it can be shortened only so often.  After a pass that shortens nothing no further one
can do anything, so that one attempt would be enough (proved, see below).

### The viewer

`viewer_loader` (`MCViewerLoader.cfg`): three moves and two sizes of the window, an area
in which nothing is found, searches of one batch and of two, each move with the same effect on
both boxes or not.  591,031 states.

`QuietIsRight`: when no move, tick, search or redraw is on its way any more, the picture is
of the area that is seen and, unless nothing is found there, its objects are those of the area all moves
have led the loader to (`Heard`), at a level not older than the last move.  Without a
pinch of the kind above that is the area that is seen.  After one it is **not**: the objects of
another area are drawn into the view, for good, since nothing brings the two boxes
together again.  No comment, doc or test says that they agree, so this is reported
here and among the hazards and not as a violated property.  The property still says that no
move is lost and no older area's objects stay.  It fails when a tick that comes during a search is taken and
forgotten, which is its mutant: hence the search of two batches before the last move.

`LastAreaDrawn`: in the end, and for good, what is drawn is what a search of `Heard`, the last area
the loader is led to, finds, at a level for that area and for a size the window had then or later.  It fails when
`render` puts the objects back over newer ones, which is its mutant.  Two
exceptions are in the property itself, since the code has them: when the last search
finds nothing, what was drawn before may be put back in the place of nothing and stay;
and a resize changes the level of the next search but asks for none, so the
objects may be those of the size before.  The same shows at the start: the first search has
the level of a window of size one by one, and until the first move
its objects are what is seen.

Fairness: the window redraws and asks for the next redraw each time
(`window.rs:42-66`), so `WF` of its steps; the debouncer's and the loader's loops run
on, the former passing its tick on at the latest 100 ms after the last one; each is a
thread of its own and has `WF` of its own.  Nothing is assumed of moves and sizes.

## The proofs

Each theorem is about every value of the constants that satisfies the assumption of its
module, which TLC evaluates in the module's runs.  TLC checked the
invariants, as far as it can enumerate them, before they were proved.

### The paged file

`PageFileProofs` proves, for every `MaxPage`, `MaxCrashes` and set of items
that satisfies `ConstantsOK` (items have at least one page, the empty one has none):

* `TypeCorrect`: `Spec => []TypeOK`.  `TypeOK` is not inductive: the steps of a
  flush take the head of `todo` and the page before the last of a chain, which
  need not exist in a state that is merely well typed.  `ShapeInv` says they
  do: a cached page has a chain, so a flush starts with one; the flushed id is
  not in the cache, so nothing else touches its chain; links are made with one
  page in `todo` and two in the chain.
* `FileInvariant`: `Spec => []IInv`, and from it `PagesHaveOneUse` (`NoSharedPage`),
  `HeadersMatchChains` (`LinksMatch`) and `SavedItemsSurvive` (`SavedReadable`).
* `NoPageLost` (`NoLeak`), by `LeakInv`, which says the same of each page below the mark,
  with the places a flush has for the pages it cuts off.
* `ReadBackFindsChain` (`ReopenFindsChain`): what `Open` reads along the headers is the
  chain the id had.  Both are chains along `next` from the id, so they agree as far as both
  go (`SameLinks`, by the least place where they differ), and both end where a link
  is 0 or the item's pages are counted off.
* `FileIsAStore`: `Spec => StoreSpec`, the refinement.  `Open` of a known id is `Load`; `NewPage`
  is `New`, `Write` is `Write`, either free `Forget`; an eviction is `Drop`, the end of its flush `EndSave`;
  a crash is one; the steps of a flush between them leave what the store has of every id as it is.

The properties alone are not inductive.  `PageFileInv!IInv` adds to
`ShapeInv` which headers are zero (`HeapInv`: a page on the heap has an empty
header, for otherwise a new item would start with a link to somebody else's
page), that the chains are apart and below the mark (`ChainInv`), the links one by one
(`NextInv`, `PrevInv`), where in its chain a flush is and what it has written (`WriteInv`), and
that the pages being cut off belong to nobody, the one before the first of them being the
last page of the flushed item or none (`CutInv`).  `AllocFresh` is the lemma the rest leans on:
what `alloc_new` hands out is in no chain and has an empty header.

### The cache

`PageCacheProofs` proves, for all threads, ids, objects, values, sizes and limits
that satisfy `CacheConstants`:

* `CacheIsAStore`: `Spec => StoreSpec`, the refinement.  Each step is shown to be one
  of `PageStore`'s or none: `Open` of a known id is `Load`, `Done` of a new page
  `New`, the removal of a known id `Drop`, either free `Forget`, and the rest
  leave what is read of known ids alone.
* `CacheHasOneCopy`, `EvictionSparesUsedPages` and `NewPagesAreNew`: `OneCopy`,
  `VictimsUnused` and `NewPageInserts` always hold.
* `BytesAreCovered`: `BytesCover`, so that the subtractions of `evict`, which are on
  unsigned numbers, never wrap; and with it `CacheTypeCorrect`: `TypeOK`.

The invariant has layers.  `SlotInv` is about locks and cells: whoever has a
page has the one in the cell of its id (`HandsInv`), a cell is opened by one
thread (`FillInv`), and while a thread removes pages nobody is between inserting
a cell and counting it (`LockInv`).  `IdInv` is about ids: one that is being made
belongs to one thread and is not known (`MakerInv`), a free one has no cell
(`FreeInv`), and nobody comes for one that was marked as free (`MarkedInv`).  `DataInv`
says that a page which is not dirty has the item the file has (`CleanInv`), which is
why dropping it without a write loses nothing.  None of these uses the
counters: which pages are evicted, and when, does not matter to what is read.  `ByteInv`
is about nothing else: `bytes` is at least the sum of `size` over the ids whose bytes
no thread is still about to add, and an eviction's total at least the sum over what it still
has to remove.  By `LockInv` nobody is about to add while an eviction subtracts, so
the first sum is then the whole.

### The trees

`DenseTreeProofs` proves, for all threads, entries, limits, depths and boxes that
satisfy `DenseConstants`:

* `EntriesInTheirBox`: `Spec => []InItsBox`.  The property speaks of the pages that
  nodes have; the invariant has to speak of those that a thread still has at hand
  (a node may have lost its page since) and of those the structure file names.
  `Uses` is the union of the three, and `PlaceInv` says that only one node ever uses a
  page (`OwnInv`), that the page and its copy in the file hold nothing from outside
  that node's box (`BoxInv`), and that a page not yet created is used nowhere
  (`FreshInv`).  `HandInv` says what a thread has in its hands when, `DepthInv`
  that a node which is split has halves.
* `EntriesInOnePlace`: `Spec => []OnlyOnce`, by `OnceInv`.  A page that was not changed
  counts with what the file holds of it, since opening an old structure file
  cuts the page in memory but not the one in the file.
* `DenseTypeCorrect`: `Spec => []TypeOK`, from the same invariant.
* `NoEntryLost` (`NoneLost`), `DenseCountsMatch` (`CountsMatch`) and `LeavesAreBounded`
  (`LeafBound`), from `DenseInvariant`.
* `OneThreadFindsAll`: with one thread, `GetFindsStored`.

Where an entry is, and that it is there once, rests on each step's moving entries from one
place to another under the page's lock, and on page ids being used once; not on who
holds which lock between two steps.  Losses and counts do.  `LockInv` says which thread holds which
lock at which of its steps (`ReadingInv`, `HolderInv`), that one thread fills the cell of a
node (`SplitterInv`), that nobody is at a half before its node is split (`ReachInv`), and that a page
is empty when its splitter gives it back (`EmptiedInv`).  On these stands `LiveInv`: counts are
those of pages, also after a reopening (`CountInv`), a leaf that may still be split has room for every thread that has decided
to store there (`FullInv`: the limit and one for each thread, which is `LeafBound`), and each entry
is waiting, in somebody's hands or at a node (`KeptInv`).

`LiveInv` has the exceptions the code has: the counts and bounds hold unless a node's page was
replaced by another (`overwrote`, what `dense_overwrite` shows), and no entry is lost unless,
besides, an old structure file was read (`stale`).  The properties have the same two.

`GetInv` says that a thread is on the way its entry takes from the root (`OnWay`, the least set of
nodes that has the root and the half of each of its nodes) and that what is stored is where that way ends, in memory
and, as of the time it was written, in the file.  `get` walks down by a recursive function;
that there is such a function, and that it comes to the node where the entry is, is proved
by such least elements as there are none of.  With two threads the property is false: one that was about to
store in a leaf stores there after another has split it, and `get` does not look above a leaf.  That is why the theorem
has one thread, and `GetFindsStored` stands in the run with one.

`SparseTreeProofs` proves, for all threads, entries, keys, root boxes and depths that satisfy
`SparseConstants`:

* `SparseTypeCorrect`: `TypeOK`, with what a thread has in its hands when (`ShapeInv`).
* `SearchesFindOnce` (`SearchFindsOnce`) and `SparseCountsMatch` (`CountsMatch`), by
  `PlaceInv`: each entry is in one place (`OnceInv`) and in some place (`KeptInv`), and only nodes that hang
  in the tree have any (`TreeInv`), unless a root that was not written was read again
  (`unsaved`, as in the properties).
* `GetsFind` (`GetFinds`), by `WayInv`: an entry is at a node its key belongs to, where a key on
  the line between two halves belongs to the left one.  An insert and a split choose the half
  by testing the entry against the box of the left one, `get` by comparing the key with the middle; `FitsLeft` says that these agree.
  The boxes `get` works out on its way are a recursive function on nodes, the leaf it comes to another one; what they yield is
  proved by the least node where it would be wrong, or the least number of nodes, from the last one up, with no solution.  The exceptions
  (`raced`, `rounded`, `unsaved`) are those of the property.

### Boxes, ranges and the value pools

`ElementStoreProofs` proves, for every width of a coordinate and every box, what the trees
rely on when they choose a side:

* `SidesAgree`: insertion and search use two functions to choose a half (by
  testing the halves, and by one coordinate), and these agree on every box that lies in the
  node's, also on the line that both halves share.
* `PointsGoDown`: a point always goes down to a half.  So elements at one place, more
  than a leaf holds, are split for ever: the tree's depth has no bound for them.
* `KeyInItsSide`: the half of a range that a key is sent to contains it.
* `RangeSideSwapped`, `OneKeyOverlapsNothing`: the same functions for ranges
  send a range to the half that does not contain it, and find that a range of one key
  overlaps nothing.  Both would break a search of the sparse tree for a range; the
  programs make none.  `SparseTree`'s `TouchesAll` has the second one.

The same module proves, for every map, every order of writing and of second runs, every
schema, all deprecations and every `BlockWrite` that satisfy `ElementConstants`, `FieldsAreFew`, `SchemaConstants` and `BlockWriteOK`:

* `BlocksWalkCorrect`: `Spec => []BlocksWalk`.

The invariant is `PoolsGood`: both pools are good until something is read (a read moves the one cursor, and no
program writes after it).  A pool is good (`GoodPools`) if there is a walk from the first byte of the file, a
function that goes on by the header it finds at each place (`IsWalk`), to the block under way, and that block, with
the header to come and the bytes counted so far, ends at the cursor (`Holds`).  What could break it, and the
lemma that says it does not:

* An insert writes behind the cursor, and a walk looks only at headers before it; so the old walk is one of the new
  file (`WalkKept`, with `WriteAtFacts` for which bytes a write leaves alone).
* `post_insert` goes back to write the header of the block that is full.  The walk up to
  that block does not see it, and from there it takes one step more, to the next block (`PostInsertIsGood`, `WalkOn`).  That
  step is right only if the size is read back as it was written (`SizeIsRead`): the reader takes four bytes, of the
  last only six bits.  So the size must be below 2^30; the blobs are short (`Blobs`), and
  `BlockWriteOK` bounds their number.  A literal is a byte and a varint or two letters (`LiteralIsShort`): strings would not
  be short, but the code does not write them there.  A field of the kind Other is a byte and two varints.  A known field
  is two bytes, a string's own header and the string, whatever packing it gets (`KnownFieldIsShort`); it is
  at most 1030 bytes, because a value has no more than `MaxTagBytes`.
* That a known field holds what its kind holds, whatever the schema, the rules and the tags are, is `ParsedAreFields`:
  a rule gives pairs of a key and a value when it is given such (`DeprecationsGivePairs`), a tag that is taken gives a field
  of the kind that took it (`SingleFieldIsField`), flags are as many as keys (`ManyFieldIsField`), and
  the characters of a number are bytes (`CharactersAreBytes`).
* A list of blobs goes through the pool one by one (`InsertBlobsIsGood`), and so do the fields of an
  element, whose keys and values go to one pool and whose bytes to the other (`FieldBlobsAreGood`, `BlobIsGood`).

What such a recursive function comes to is proved without an induction over an operator: there is a function that
takes the steps (`UpwardRecursion`, by a least number), and all that do are the same up to the end
(`Determined`, `WalkIsOne`).

### What is written is read

`ElementStoreProofs` also proves, for every map and schema that satisfy the same assumptions and for words
of the modelled length:

* `VarintRead`: a varint is read as what a word holds of the number, and the bytes after it are left.
* `StringRead`: a string that ends itself (`EndsItself`) is read out of the packing chosen for it, whatever
  follows.  Each packing has a lemma: the codes of half bytes and the end in the last one, the
  triples with the mark in the last pair and the rest split between a byte and the header, the
  high bit of the last letter, the length before the bytes.
* `RolesReadCorrect`: `Spec => []RolesRead`.  The invariant is `RelationsKept`: the bytes stored of a relation are its id, the
  number and the ids of its fields, the number of its members, the
  roles and the members (`IsRelationBlob`).  That the fields' ids are sequences of numbers is what it
  takes from `PoolsGood`.  A loop of readers reads what a loop of writers wrote, by the least place where it would not.
* `WayPointsRead`: `Spec => []PointsInBytes`, which is `PointsRead` without the tree: what the viewer reads out of the
  bytes and the box a way was stored with are the places of its nodes, in their order, and
  it reads none out of a node or a relation (`TypeOf` of their first bytes).  `PlacesKept` says that the boxes of the
  nodes in `cache_bboxes` are their places; `BoxHasPoints` that `from_iter` over these makes a box whose first corner is below all of
  them, unless the first one is at (0, 0), so that the next one begins the box anew; `Distances` that an absolute
  difference added with wrapping gives the coordinate back, though a distance may be longer than a coordinate's positive half.

Of the constants this takes that lengths, and the number of an element's fields, are words, that the parts of a way are nodes (`way.nodes` in `way.rs` is a list of node
ids), that a distance between two coordinates is a word (32 bits and 64 in the code), and that the codes of
tags that are not stored by their ids are 1 to 7 (`inline_node_tags`), which is what tells a node's first byte from a way's.

### BTreeVec

`BTreeVecProofs` proves, for every set of integer keys, every `MaxInsert` and all bounds that
satisfy `BTreeVecConstants`:

* `RangesCorrect`: `Spec => []RangesOrdered`.
* `MultimapImplemented`: `Spec => MultimapSpec`, the refinement.
* `WalkCorrect`: `Spec => []WalkExact`.
* `PushKeeps`, the heart of the first two: a push into any good tree leaves a good tree, in
  which `get` finds one value more under the key and what it found before under every other.

A tree is good (`Good`) if the places of each list are `Sorted`, a leaf has one key and some value,
a place above a list has the limits of that list (`Fits`), and each list but the root
hangs in one place (`Hang`), below one that comes before it.  The last conjunct is what the
code has by ownership and the model has to say.  Push breaks `Fits` on its way
down: it stretches a range before the list below has the new key, so `Shape`
allows one list to have a first key above its place's range, and `After` says what the
recursive call repairs.

The inductive invariant of the tree is `TreeInv` (`TreeCorrect`): `Holding`, that the tree is good and
`get` finds each of `Entries` once, and that `len` counts them.  That `len` is also what `iter` yields, and
that the three ways of building a tree anew keep what is in it, goes through lists of pairs:
`iter` yields a `Listing`, each pair once, with rising keys; pushing the pairs of a listing makes a
tree that holds it (`FromIterHolds`), and grouping them makes the same as pushing when keys rise
(`FromSortedIterSame`).

The invariant of a walk is `WalkInv`: a path leads from the root through places whose lists are
the next ones of the path (`Leads`), all that lies before the path in any of its lists has been seen, and
nothing that lies behind it (`WalkAt`).  Each turn of `stateless_next`, into a list, past its end or over a leaf,
keeps that (`TurnWalks`).

Both searches are the same function on a sorted list: the one by halves keeps a window that has the place of
the key, and is left with one place after as many halvings as there are places.  A recursive function is shown to
exist, and to have a property everywhere, by the least place where it would not (`UpwardRecursion`,
`DownwardRecursion`), which takes the place of an induction.

### The compressor

`CompressorProofs` proves, for every file, number of blobs, round size and number of
attempts that satisfy `CompressorConstants` and `EachOnce`:

* `OnlyTheStuckAreLeftOut`: `Spec => []LeftOutOnlyIfStuck`.  That the set of elements with a
  box is *closed* in the end is the hard half.  The invariant (`CompressorInvariant`) says
  that no element is lost from sight (`Accounted`), that one gets a box after all its
  parts (`Known`) and only if every closed set has it (`Least`), and, for the
  passes, that as long as the queue and the element in hand add up to the
  length at the beginning of the pass, everything put back in this pass is stuck: had
  anything got a box, the sum would be smaller (`Passes`).  At the end of a pass that
  shortened nothing this is the whole queue.
* `ElementsHaveOneFate`: `Spec => []OneFate`, by `OneInv`.  The property counts the places an
  element is in; the invariant has no counting in it.  It says that each of the lists has an element
  once (`LeftOnce`, `HandOnce`, `Once`), that no two of them share one (`Apart`), and which
  elements are in the cache and the tree (`HasBox`).  That `EachOnce` holds of the
  file is what makes the lists disjoint at the beginning.

### The viewer

`ViewerLoaderProofs` proves, for any number of moves and sizes, any bare areas and any batches that
satisfy `ViewerConstants`:

* `QuietShowsLastArea`: `Spec => []QuietIsRight`, the safety part of `LastAreaDrawn`.  The
  messages that are still to be heard lead the loader from the area and the size it has to `Heard` and the size of the
  window: `CourseInv` says so with a course, one area and one size for each message, and that a course that has come to
  the last area has a size of the time after the last move.  `SearchInv` says that unless a search is asked for, by a
  message, a tick or the debouncer, the one under way is of that area; `BufferInv` and `DrawInv` follow what it found
  to the buffer, the window's hand and the picture; `SeenInv` follows the area.

### What is model-checked only

* Liveness and `ENABLED` are out of the prover's reach: `InsertsEnd`, `CallsEnd`, `RetryEnds` and
  `LastAreaDrawn` stay with TLC.
* `ElementStore`: `BoxesKept` and `PointsRead` go through the pages of the tree, as they come back from the file, and
  through `Morton`, which mixes the bits of two coordinates.  Its inverse needs the laws of
  exponents, which the provers do not have, as well as an induction over the bits.  What of `PointsRead` is not about the tree, the bytes of
  a way and its box, is `WayPointsRead`.
* `TagsRead`: it also needs what the bytes at each id of a pool are.  Its form for all constants would not be true of
  the model: the id of a literal of four bytes takes up to 31 bits, and a modelled word has 28, because
  TLC's integers have 32; in the code a word has 64.  The literals of the instance are chosen to fit.
* Where a recursive function over numbers will do, as in the trees, in `BTreeVec`, in the pools and in the readers, what it
  yields is proved through a least element; a general induction over an operator is not available.
* `Rerun` keeps good pools good, but begins to overwrite their files (`pooled_storage.rs:140`): `BlocksWalk` is about
  the pool under way, not about what an earlier run has put there.

## The plan

What was planned has a module now, and the safety properties of the paged file, the cache, both trees, `BTreeVec`, the compressor
and the viewer have proofs.  What is left, most important first:

1. `DenseTree`: pages that leave memory between two flushes, and a crash after that,
   when the data file is newer than the structure file.
2. That the pages of the tree are read as they were written, beginning with an inverse of `Morton` that needs no
   exponents: with `WayPointsRead` this gives `PointsRead`, and most of `BoxesKept`.

## Not modelled

* `condense` and `truncate_unused` of `PageUse`: no program reaches them.  The one
  caller works on a `SingleTypeView`, where they do nothing.
* Several caches over one `PageUse`.  The views of `MultitypePagedStorage` share the
  allocator and not the cache; the programs use no page through two views, and
  with that one view is what `PageCache` has.
* A crash between two pages of a tree's flush.  What it leaves of one page is
  `PageFile`'s; what it leaves of a tree is a mixture of pages of two times, about
  which the code promises nothing.
* Three hazards of the list have no property, for the reason given with each: a crash of the dense tree, as above, and two of
  which the property one would want does not hold: more elements at one place than
  a leaf takes, where the code does not end, and a pinch that leaves the loader with another
  area than the window.
* What no program does yet: a search of the sparse tree for a range, which would go the wrong way
  (`point_range.rs:173`; `RangeSideSwapped` proves it), and an insert after a `get` of the value pool, which would be written
  where the `get` has left the file (`pooled_storage.rs:85`).
* Two builds of the program: each gives the fields of the schema other ids, and nothing in a map's files says
  which build wrote it.
* `Storage<T>` (`storage.rs`), a single value in a file: no crate of the workspace uses it.
* `Compressed`, `serialize_fast.rs` and the six-bit alphabet of the packed
  strings: nothing reaches them.  The fixed-width bytes of primitives are
  `to_be_bytes` and back; the SIMD form of `lutmorton` computes the function `Morton`.
* How `osm_schema_builder` reads the schema's JSON files, names things and prints Rust; `TagSchema` has the
  code that comes out.  Of that code, the kinds of fields `TagSchema`'s section names: numbers, colours, numbers with a
  unit, dates, lists of combos, and the addresses of `osm_structures`, which are
  read by `todo!()`.  Dates, times and lists of `osm_value_atom` are `todo!()`.
* The viewer's drawing and the arithmetic of its floating-point boxes: they keep no
  state beyond what `ViewerLoader` has, and their correctness is about pictures.
* `debug_logs` writes logs, and the tester is a program to try a tree by hand.
