---------------------------- MODULE ElementStore ----------------------------
(***************************************************************************)
(* What becomes of an element of the map: make_from_obj of                 *)
(* osm_tag_compression/ gives it a box from the boxes of its parts and     *)
(* remembers that box, minimally_serialize turns it into bytes with its    *)
(* tags as the fields of TagSchema and in the two value pools, and the     *)
(* tree of boxes, whose pages and structure go through a file, keeps them. *)
(* The tree is the dense one, run by one thread: DenseTree has the         *)
(* interleavings.                                                          *)
(***************************************************************************)
EXTENDS TagSchema

CONSTANTS Elements,   \* names of the elements of the map
          Data,       \* what each is: its kind, id, place, parts and tags
          Root,       \* EARTH_BBOX
          Sat,        \* DATA_SATURATION
          NonStored,  \* NON_STORED_TAGS
          SingleInlined, \* the tags a node has a code for, 1 to 7
          MaxDepth,   \* bound: the tree has no deeper nodes
          MaxReruns,  \* bound
          MaxReads    \* bound

ASSUME ElementConstants ==
    /\ Root \in Boxes
    /\ {Sat, MaxDepth, MaxReruns, MaxReads} \subseteq Nat
    /\ 2 * 2 ^ (W - 1) <= 2 ^ WordBits   \* distances are words
    /\ \A tag \in DOMAIN SingleInlined : SingleInlined[tag] \in 1 .. 7
    /\ \A e \in Elements :
         LET d == Data[e]
         IN /\ d.kind \in {"node", "way", "relation"} /\ d.id \in Int
            /\ d.tags \in Seq(Tags \X Values)
            /\ IsInjective([i \in DOMAIN d.tags |-> d.tags[i][1]])
            /\ {tag[1] : tag \in ToSet(d.tags)} \subseteq ToSet(KeyOrder)
            /\ d.members \in Seq(Elements)
            /\ d.roles \in Seq(Seq(0 .. 255))
            /\ d.kind = "node" => d.at \in Coords \X Coords
            /\ d.kind = "way" => \A m \in ToSet(d.members) : Data[m].kind = "node"
            /\ d.kind = "relation" => Len(d.roles) = Len(d.members)
            /\ {Len(d.members)} \cup {Len(s) : s \in ToSet(d.roles)}
                  \subseteq 0 .. 2 ^ WordBits - 1   \* lengths are words

(* remove_non_stored_tags *)
Stored(tags) ==
    Within(tags, {tag \in ToSet(tags) : tag[1] \notin NonStored})

FieldsOf(d) == ParseTags(Stored(d.tags))

ASSUME FieldsAreFew ==   \* their number is a word
    \A e \in Elements : Len(FieldsOf(Data[e])) \in 0 .. 2 ^ WordBits - 1

VARIABLES cache,      \* cache_bboxes: the boxes of the elements seen
          literals,   \* Pool<Field>
          values,     \* Pool<LiteralValue>
          tree,       \* geography: the nodes that are there, by their ids
          written,    \* history: the box and the bytes of what was stored
          read,       \* the fields deserialize_way gave last
          askew,      \* history: a node was split along the wrong axis
          before,     \* history: what was stored when the pools were begun anew
          reruns, reads  \* history, for the bounds

vars == <<cache, literals, values, tree, written, read, askew, before,
          reruns, reads>>

-----------------------------------------------------------------------------
(* Tags: those that are stored, and how.                                   *)

(* A field of the kind Other: the ids of both its literals after a zero. *)
OtherField(both) ==
    [pool |-> both.pool,
     blob |-> <<0>> \o Varint(both.ids[1]) \o Varint(both.ids[2])]

(* Both literals go to the pool, the key first.  What a known field holds  *)
(* stays in its bytes.                                                     *)
FieldBlob(pool, f) ==
    IF IsKnown(f) THEN [pool |-> pool, blob |-> KnownField(f)]
    ELSE OtherField(InsertBlobs(pool, <<LiteralBytes(LiteralOf(f.key)),
                                        LiteralBytes(LiteralOf(f.value))>>))

FieldBlobs(fields) ==
    LET with(acc, new) == [pool |-> new.pool, blobs |-> Append(acc.blobs, new.blob)]
        after[n \in 0 .. Len(fields)] ==
          IF n = 0 THEN [pool |-> values, blobs |-> <<>>]
          ELSE LET was == after[n - 1] IN with(was, FieldBlob(was.pool, fields[n]))
    IN after[Len(fields)]

VarintsOf(ns) == FlattenSeq([i \in DOMAIN ns |-> Varint(ns[i])])

(* flattened_id: the kind in the two highest bits. *)
FlattenedId(e) ==
    Data[e].id + 2 ^ (WordBits - 2) *
        (CASE Data[e].kind = "node" -> 0 [] Data[e].kind = "way" -> 1
           [] Data[e].kind = "relation" -> 2)

-----------------------------------------------------------------------------
(* The bytes of an element, with the pools after they are made.            *)

(* Fields in the pools, as nodes and relations have them: by the ids of    *)
(* their bytes.                                                            *)
FieldIds(fields) ==
    LET made(fieldBytes, ids) == [ids |-> ids.ids, literals |-> ids.pool,
                                values |-> fieldBytes.pool]
        of(fieldBytes) == made(fieldBytes, InsertBlobs(literals, fieldBytes.blobs))
    IN of(FieldBlobs(fields))

(* inline_node_tags and serialize_node.  Of a node with other tags than    *)
(* one of those with a code, the id is not written.                        *)
NodeBlob(d) ==
    LET tags == Stored(d.tags)
        n == Len(FieldsOf(d))
        made(fields) ==
          [blob |-> (IF n < 15 THEN Varint(128 + n)
                     ELSE Varint(128 + 15) \o Varint(n)) \o VarintsOf(fields.ids),
           literals |-> fields.literals, values |-> fields.values]
    IN IF Len(tags) = 1 /\ tags[1] \in DOMAIN SingleInlined
       THEN [blob |-> <<128 + SingleInlined[tags[1]]>> \o SignedVarint(d.id, WordBits),
             literals |-> literals, values |-> values]
       ELSE made(FieldIds(FieldsOf(d)))

(* Fault: the distances are from the first node. *)
CornersFromFirst(d, box) ==
    LET first == cache[d.members[1]]
        corner(m) == Varint(AbsDiff(first.x, cache[m].x))
                     \o Varint(AbsDiff(first.y, cache[m].y))
    IN FlattenSeq([i \in DOMAIN d.members |-> corner(d.members[i])])

(* The corners of its nodes by their distance from the box *)
Corners(d, box) ==
    LET corner(m) == Varint(AbsDiff(box.x, cache[m].x))
                     \o Varint(AbsDiff(box.y, cache[m].y))
    IN FlattenSeq([i \in DOMAIN d.members |-> corner(d.members[i])])

(* serialize_way: the corners, then the fields themselves. *)
WayBlob(d, box) ==
    LET made(fields) ==
          [blob |-> <<64>> \o SignedVarint(d.id, WordBits) \o Varint(Len(d.members))
                    \o Corners(d, box)
                    \o Varint(Len(fields.blobs)) \o FlattenSeq(fields.blobs),
           literals |-> literals, values |-> fields.pool]
    IN made(FieldBlobs(FieldsOf(d)))

(* serialize_relation: the ids of its fields, its roles, its members. *)
RelationBlob(d) ==
    LET n == Len(d.members)
        made(fields) ==
          [blob |-> <<0>> \o SignedVarint(d.id, WordBits)
                    \o Varint(Len(fields.ids)) \o VarintsOf(fields.ids)
                    \o Varint(n) \o FlattenSeq([i \in 1 .. n |-> StringBytes(d.roles[i], 0)])
                    \o VarintsOf([i \in 1 .. n |-> FlattenedId(d.members[i])]),
           literals |-> fields.literals, values |-> fields.values]
    IN made(FieldIds(FieldsOf(d)))

Blob(d, box) == CASE d.kind = "node" -> NodeBlob(d)
                  [] d.kind = "way" -> WayBlob(d, box)
                  [] d.kind = "relation" -> RelationBlob(d)

(* determine_type *)
TypeOf(blob) == IF blob[1] >= 128 THEN "node"
                ELSE IF blob[1] >= 64 THEN "way" ELSE "relation"

ReadCorner(bytes, box) ==
    Then(ReadVarint(bytes), LAMBDA dx, afterX :
    Then(ReadVarint(afterX), LAMBDA dy, rest :
      <<<<WrappingAdd(box.x, dx), WrappingAdd(box.y, dy)>>, rest>>))

(* decompress_way_points: what the viewer draws, for a way only. *)
ReadWay(blob, box) ==
    Then(ReadSigned(Tail(blob), WordBits), LAMBDA id, afterId :
    Then(ReadVarint(afterId), LAMBDA count, rest :
           Repeated(LAMBDA bytes : ReadCorner(bytes, box), rest, count)))

WayPoints(blob, box) == IF TypeOf(blob) = "way" THEN ReadWay(blob, box)[1] ELSE <<>>

(* deserialize_way: its fields, with the ids of their literals, which are  *)
(* then got from the pool.                                                 *)
WayFields(blob, box) ==
    Then(ReadVarint(ReadWay(blob, box)[2]), LAMBDA count, rest :
           Repeated(ReadField, rest, count)[1])

PairsOf(fields) ==
    FlattenSeq([i \in DOMAIN fields |->
                  IF IsOther(fields[i]) THEN <<fields[i].key, fields[i].value>> ELSE <<>>])

KnownOf(fields) == SelectSeq(fields, IsKnown)

-----------------------------------------------------------------------------
(* The tree.  A node has the box it was made with and its page: for each   *)
(* key a group of blobs, in the order of the keys.                         *)

AxisOf(n) == IF \E k \in 0 .. MaxDepth : k % 2 = 0 /\ n \in 2 ^ k .. 2 ^ (k + 1) - 1
             THEN FirstAxis ELSE NextAxis(FirstAxis)

HasSplit(t, n) == 2 * n \in DOMAIN t

CountIn(entries) ==
    LET upTo[g \in 0 .. Len(entries)] ==
          IF g = 0 THEN 0 ELSE upTo[g - 1] + Len(entries[g].items)
    IN upTo[Len(entries)]

(* push: keys of one corner are one key, and the first of them stays. *)
Push(entries, key, blob) ==
    LET i == SelectInSeq(entries, LAMBDA g : ~KeyLess(g.key, key))
        group == [key |-> key, items |-> <<blob>>]
    IN IF i = 0 THEN Append(entries, group)
       ELSE IF SameKey(entries[i].key, key)
            THEN [entries EXCEPT ![i].items = Append(@, blob)]
            ELSE InsertAt(entries, i, group)

PushAll(entries, key, blobs) ==
    LET after[n \in 0 .. Len(blobs)] ==
          IF n = 0 THEN entries ELSE Push(after[n - 1], key, blobs[n])
    IN after[Len(blobs)]

(* split_left_right_unchecked: each entry goes to the half that has its    *)
(* box, the left one first, or stays.                                      *)
ShareEntry(page, g, b) ==
    LET half(h) == [page EXCEPT ![h].entries =
                      PushAll(@, InteriorDelta(b, page[h].box), g.items)]
    IN IF BoxContains(page["left"].box, b) THEN half("left")
       ELSE IF BoxContains(page["right"].box, b) THEN half("right")
       ELSE [page EXCEPT !["stay"].entries = Append(@, g)]

Split(t, n, axis) ==
    LET b == t[n].box
        entries == t[n].entries
        shared[g \in 0 .. Len(entries)] ==
          IF g = 0 THEN [left |-> [box |-> LeftHalf(b, axis), entries |-> <<>>],
                         right |-> [box |-> RightHalf(b, axis), entries |-> <<>>],
                         stay |-> [box |-> b, entries |-> <<>>]]
          ELSE ShareEntry(shared[g - 1], entries[g], Absolute(entries[g].key, b))
        with(page) == [m \in DOMAIN t \cup {2 * n, 2 * n + 1} |->
                         CASE m = n -> page.stay
                           [] m = 2 * n -> page.left
                           [] m = 2 * n + 1 -> page.right
                           [] OTHER -> t[m]]
    IN with(shared[Len(entries)])

IsFull(t, n) == ~HasSplit(t, n) /\ CountIn(t[n].entries) > Sat

(* get_key_leaf_splitting_if_needed: one turn of its loop splits the node  *)
(* or goes down.  Node 0 is below the bound.                               *)
Nearer(at, box) ==
    LET t == at.tree
        n == at.node
    IN IF n = 0 THEN at
       ELSE IF IsFull(t, n)
       THEN IF n >= 2 ^ MaxDepth THEN [at EXCEPT !.node = 0]
            ELSE [at EXCEPT !.tree = Split(t, n, AxisOf(n))]
       ELSE IF HasSplit(t, n) /\ BoxContains(t[2 * n].box, box)
       THEN [at EXCEPT !.node = 2 * n]
       ELSE IF HasSplit(t, n) /\ BoxContains(t[2 * n + 1].box, box)
       THEN [at EXCEPT !.node = 2 * n + 1]
       ELSE at

(* Two turns for each node on the way at most. *)
Descend(t, box) ==
    LET at[k \in 0 .. 2 * MaxDepth + 1] ==
          IF k = 0 THEN [tree |-> t, node |-> 1] ELSE Nearer(at[k - 1], box)
    IN at[2 * MaxDepth + 1]

Inserted(at, box, blob) ==
    [at.tree EXCEPT ![at.node].entries =
       Push(@, InteriorDelta(box, at.tree[at.node].box), blob)]

(* expand_to_depth(5) on a tree that was opened: every level along the     *)
(* first axis, as many levels as are modelled.  A node is split after      *)
(* those above it; in which order those of other branches are is the same. *)
Expand(t) ==
    LET after[n \in 0 .. 2 ^ MaxDepth - 1] ==
          IF n = 0 THEN t
          ELSE LET s == after[n - 1]
               IN IF n \in DOMAIN s /\ IsFull(s, n) THEN Split(s, n, FirstAxis) ELSE s
    IN after[2 ^ MaxDepth - 1]

-----------------------------------------------------------------------------
(* The pages and the structure in the file.                                *)

(* Each entry of a group, the first one by the distance from the last key. *)
GroupBytes(g, last) ==
    LET entry(i) == OffsetBytes(OffsetFrom(g.key, IF i = 1 THEN last ELSE g.key))
                    \o Varint(Len(g.items[i])) \o g.items[i]
    IN FlattenSeq([i \in DOMAIN g.items |-> entry(i)])

PageBytes(entries) ==
    LET last(g) == IF g = 1 THEN FirstKey ELSE entries[g - 1].key
    IN Varint(CountIn(entries))
       \o FlattenSeq([g \in DOMAIN entries |-> GroupBytes(entries[g], last(g))])

(* The next entry is read and pushed. *)
ReadEntry(page) ==
    Then(ReadOffset(page.bytes), LAMBDA offset, afterOffset :
    Then(ReadVarint(afterOffset), LAMBDA len, rest :
      [entries |-> Push(page.entries, AfterOffset(offset, page.last), UpTo(rest, len)),
       last |-> AfterOffset(offset, page.last),
       bytes |-> After(rest, len)]))

ReadEntries(bytes, count) ==
    LET page[n \in 0 .. count] ==
          IF n = 0 THEN [entries |-> <<>>, last |-> FirstKey, bytes |-> bytes]
          ELSE ReadEntry(page[n - 1])
    IN page[count].entries

ReadPage(bytes) ==
    Then(ReadVarint(bytes), LAMBDA count, rest : ReadEntries(rest, count))

(* The structure has the root's box only: the other boxes are worked out,  *)
(* when it is read and by every search, from the axes in their order.      *)
BoxOfNode(n) ==
    LET half(b, m) == IF m % 2 = 0 THEN LeftHalf(b, AxisOf(m \div 2))
                      ELSE RightHalf(b, AxisOf(m \div 2))
        box[m \in 1 .. n] == IF m = 1 THEN ReadBox(BoxBytes(Root))[1]
                             ELSE half(box[m \div 2], m)
    IN box[n]

Loaded(t) == [n \in DOMAIN t |-> [box |-> BoxOfNode(n),
                                  entries |-> ReadPage(PageBytes(t[n].entries))]]

(* find_entries_touching_box, in a tree as it is loaded: the entries it    *)
(* gives, by the node, the group and the place in it.                      *)
NodesTouching(t, area) ==
    LET isReached[n \in DOMAIN t] ==
          n = 1 \/ (isReached[n \div 2] /\ BoxOverlaps(t[n].box, area))
    IN {n \in DOMAIN t : isReached[n]}

Found(t, area) ==
    LET boxOf(n, g) == Absolute(t[n].entries[g].key, t[n].box)
        touching(n) == {g \in DOMAIN t[n].entries : BoxOverlaps(area, boxOf(n, g))}
        given(n, g) == {[box |-> boxOf(n, g), node |-> n,
                         blob |-> t[n].entries[g].items[i], at |-> <<g, i>>] :
                          i \in DOMAIN t[n].entries[g].items}
    IN UNION {UNION {given(n, g) : g \in touching(n)} : n \in NodesTouching(t, area)}

(* search_leaf_for_key: the node a get of the box looks at. *)
LeafFor(t, box) ==
    LET below(n, side) == IF ~HasSplit(t, n) \/ side = "Split" THEN n
                          ELSE IF side = "Left" THEN 2 * n ELSE 2 * n + 1
        node[k \in 0 .. MaxDepth] ==
          IF k = 0 THEN 1
          ELSE LET n == node[k - 1]
               IN below(n, SideByMiddle(t[n].box, AxisOf(n), box)[1])
    IN node[MaxDepth]

-----------------------------------------------------------------------------

Init ==
    /\ cache = <<>>
    /\ literals = NewPool(<<>>)
    /\ values = NewPool(<<>>)
    /\ tree = [n \in {1} |-> [box |-> Root, entries |-> <<>>]]
    /\ written = <<>>
    /\ read = <<>>
    /\ askew = FALSE
    /\ before = {}
    /\ reruns = 0 /\ reads = 0

BoxFor(d) == IF d.kind = "node" THEN FromPoint(d.at[1], d.at[2])
             ELSE BoxOfBoxes([i \in DOMAIN d.members |-> cache[d.members[i]]])

IsEmptyNode(d) == d.kind = "node" /\ Stored(d.tags) = <<>>

(* write_element of an element whose parts have boxes.  A program that     *)
(* reads from the pools does not write.                                    *)
Remember(e) ==
    /\ reads = 0
    /\ e \notin DOMAIN cache
    /\ ToSet(Data[e].members) \subseteq DOMAIN cache
    /\ cache' = [f \in DOMAIN cache \cup {e} |->
                   IF f = e THEN BoxFor(Data[e]) ELSE cache[f]]
    /\ UNCHANGED <<askew, before, reruns, reads>>

WriteEmptyNode(e) ==
    /\ IsEmptyNode(Data[e])
    /\ Remember(e)
    /\ UNCHANGED <<literals, values, tree, written, read>>

Write(e) ==
    /\ ~IsEmptyNode(Data[e])
    /\ Remember(e)
    /\ \E box \in {BoxFor(Data[e])} :
       \E made \in {Blob(Data[e], box)}, at \in {Descend(tree, box)} :
          /\ at.node # 0
          /\ literals' = made.literals
          /\ values' = made.values
          /\ tree' = Inserted(at, box, made.blob)
          /\ written' = [f \in DOMAIN written \cup {e} |->
                            IF f = e THEN [box |-> box, blob |-> made.blob] ELSE written[f]]
          /\ UNCHANGED read

(* A way is taken out of the tree and its tags are got from the pool.      *)
(* Nothing in the programs does that yet.                                  *)
ReadTags(e) ==
    /\ reads < MaxReads
    /\ Data[e].kind = "way"
    /\ \E fields \in {WayFields(written[e].blob, written[e].box)} :
       \E got \in {GetAll(values, PairsOf(fields))} :
          /\ values' = got.pool
          /\ read' = <<[way |-> e, known |-> KnownOf(fields), ids |-> PairsOf(fields),
                        values |-> got.values]>>
    /\ reads' = reads + 1
    /\ UNCHANGED <<cache, literals, tree, written, askew, before, reruns>>

(* The program ends after a flush and is run again on the same directory:  *)
(* Compressor::new.                                                        *)
Rerun ==
    /\ reruns < MaxReruns /\ reads = 0
    /\ reruns' = reruns + 1
    /\ tree' = Expand(Loaded(tree))
    /\ askew' = (askew \/ \E n \in DOMAIN tree' \ DOMAIN tree :
                            AxisOf(n \div 2) # FirstAxis)
    /\ literals' = NewPool(literals.file)
    /\ values' = NewPool(values.file)
    /\ before' = DOMAIN written
    /\ UNCHANGED <<cache, written, read, reads>>

Next == \/ \E e \in Elements : WriteEmptyNode(e) \/ Write(e)
        \/ \E e \in DOMAIN written : ReadTags(e)
        \/ Rerun

Spec == Init /\ [][Next]_vars

-----------------------------------------------------------------------------
(* What is right about it.                                                 *)

(* Two elements with one corner and boxes of two sizes may come to lie     *)
(* under one key, which has one size.                                      *)
Merged(e) == \E f \in DOMAIN written :
                LET b == written[e].box  c == written[f].box
                IN b.x = c.x /\ b.y = c.y /\ b # c

(* BoxesKept: a search of the box an element was stored with finds the     *)
(* element, as often as it was stored and with that very box, in the node  *)
(* where get looks for that box, in the tree as the next program reads it  *)
(* from its file.  Not so for an element under a key of another size, nor  *)
(* in a tree that expand_to_depth split along the wrong axis.              *)
BoxesKept ==
    LET t == Loaded(tree)
    IN \A e \in DOMAIN written :
          LET w == written[e]
              there == {x \in Found(t, w.box) : x.box = w.box /\ x.blob = w.blob}
          IN ~askew /\ ~Merged(e) =>
                /\ Cardinality(there) = Cardinality({f \in DOMAIN written : written[f] = w})
                /\ \A x \in there : x.node = LeafFor(t, w.box)

(* PointsRead: what the viewer reads out of the bytes and the box of a     *)
(* stored way are the corners of its nodes, in their order, and out of     *)
(* those of anything else it reads none.  Not so for a way whose first     *)
(* node lies at (0, 0), which is taken for no box.                         *)
PointsRead ==
    LET t == Loaded(tree)
        corners(d) == [i \in DOMAIN d.members |-> Data[d.members[i]].at]
    IN \A x \in Found(t, Root), e \in DOMAIN written :
          LET d == Data[e]
          IN /\ x.blob = written[e].blob /\ ~askew /\ ~Merged(e)
             /\ d.kind = "way" => Data[d.members[1]].at # <<0, 0>>
             => WayPoints(x.blob, x.box) = IF d.kind = "way" THEN corners(d) ELSE <<>>

(* What the fields of an element say of a tag: a known field its value,    *)
(* and any other one the key with the value.                               *)
Tells(f, tag) ==
    IF IsOther(f) THEN f = Other(tag[1], tag[2])
    ELSE LET s == Schema[f.field]
         IN /\ tag[1] \in ToSet(s.keys)
            /\ CASE s.kind = "text" -> f.v = Characters(tag[2])
                 [] s.kind = "checkbox" -> f.v = <<IF tag[2] = Text(Yes) THEN 1 ELSE 0>>
                 [] s.kind = "combo" -> s.options[f.v[1] + 1] = tag[2]
                 [] s.kind = "multi yes combo" ->
                      \E j \in DOMAIN s.keys :
                         /\ s.keys[j] = tag[1] /\ tag[2] = Text(Yes)
                         /\ f.v[j] = 1
                 [] OTHER -> FALSE

(* Tags that no rule replaces, because none takes them or the rule that    *)
(* does has not got all it wants, and whose key no rule gives.             *)
Lasting(tags) ==
    LET complete == {k \in DOMAIN Rules : IsComplete(tags, k)}
        keysGiven == {tag[1] : tag \in UNION {ToSet(Rules[k].to) : k \in complete}}
    IN {tag \in ToSet(tags) : RuleOf(tag) \notin complete /\ tag[1] \notin keysGiven}

(* TagsRead: a way that is read has the known fields it was given, as many *)
(* literals as its other tags have keys and values, and those literals,    *)
(* when their bytes keep their value and they lie in the first block; so   *)
(* of each tag that is not replaced one of the fields tells, also when a   *)
(* rule held it for a while.  Not so for a way with a field that does not  *)
(* survive, nor when the pool was begun anew since.                        *)
TagsRead ==
    \A i \in DOMAIN read :
       LET r == read[i]
           tags == Stored(Data[r.way].tags)
           fields == FieldsOf(Data[r.way])
           others == PairsOf(fields)
       IN r.way \notin before /\ (\A f \in ToSet(fields) : Survives(f)) =>
            /\ r.known = KnownOf(fields)
            /\ Len(r.ids) = Len(others)
            /\ \A j \in DOMAIN r.ids :
                 KeepsItsValue(LiteralOf(others[j])) /\ ReadRight(r.ids[j])
                    => r.values[j] = LiteralOf(others[j])
            /\ \A tag \in Lasting(tags) :
                 \E f \in ToSet(r.known) \cup {g \in ToSet(fields) : IsOther(g)} :
                    Tells(f, tag)

(* LiteralsKept: every key and value that get can reach comes back as it   *)
(* was.  The comment in the serializer says the serializer of the string   *)
(* writes the header, and with it the string, in place of this one.        *)
LiteralsKept ==
    \A i \in DOMAIN read :
       LET r == read[i]
           fields == FieldsOf(Data[r.way])
           others == PairsOf(fields)
       IN r.way \notin before /\ (\A f \in ToSet(fields) : Survives(f)) =>
            \A j \in DOMAIN r.ids :
               ReadRight(r.ids[j]) => r.values[j] = LiteralOf(others[j])

ReadText(bytes) ==
    IF bytes = <<>> THEN Ended ELSE ReadString(Head(bytes), Tail(bytes))

SkipVarints(bytes, k) == Repeated(ReadVarint, bytes, k)[2]

(* RolesRead: the strings of a stored relation, read one after another     *)
(* with the readers of the storage, are the roles of its members.  Not so  *)
(* when one is packed by half bytes and of even length, which has no end.  *)
RolesRead ==
    \A e \in DOMAIN written :
       LET d == Data[e]
           roles == Then(ReadVarint(SkipVarints(Tail(written[e].blob), 1)),
                         LAMBDA fields, rest : ReadVarint(SkipVarints(rest, fields)))
       IN d.kind = "relation" /\ (\A i \in DOMAIN d.roles : EndsItself(d.roles[i]))
            => Then(roles, LAMBDA n, rest : Repeated(ReadText, rest, n)[1]) = d.roles

BlockAt(p, k) ==
    LET at[n \in 0 .. k] ==
          IF n = 0 THEN 0
          ELSE at[n - 1] + HeaderSize + WordOf(FileFrom(p, at[n - 1]))
    IN at[k]

(* BlocksWalk: by the sizes before the blocks one gets from each block of  *)
(* a pool to the next, up to the one being filled, which ends where the    *)
(* next value goes.                                                        *)
BlocksWalk ==
    \A p \in {literals, values} :
       reads = 0 =>
          BlockAt(p, p.firstIndex \div BlockWrite) + HeaderSize + p.blockSize
             = p.cursor
=============================================================================
