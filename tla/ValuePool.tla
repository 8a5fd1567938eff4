----------------------------- MODULE ValuePool -----------------------------
(***************************************************************************)
(* Pool of storage/src/pooled_storage.rs: a file of values, each known by  *)
(* its id from then on.  A value of at most InlineBytes bytes is its own   *)
(* id; the others are written one after another, in blocks of BlockWrite   *)
(* values that begin with their size in bytes, and known by their number.  *)
(*                                                                         *)
(* A pool is a record; its operations, which run under its lock, give the  *)
(* pool afterwards and what they return.  The file is written and read at  *)
(* one cursor.                                                             *)
(***************************************************************************)
EXTENDS Codecs

CONSTANT BlockWrite   \* BLOCK_WRITE: 3000 in the code

(* The bytes of a block are counted in a word. *)
ASSUME BlockWriteOK == BlockWrite \in 1 .. 2 ^ 19

InlineBytes == 4   \* INLINING_AS_ID_THRESHOLD_BYTES
HeaderSize == 8    \* BLOCK_HEADER_SIZE

(* to_le_bytes of the low four bytes of a word, the others are zero. *)
WordBytes(n) == <<n % 256, (n \div 256) % 256, (n \div 65536) % 256,
                  n \div 16777216, 0, 0, 0, 0>>

(* from_le_bytes; what is written has small sizes only. *)
WordOf(bytes) ==
    LET byte(i) == IF i <= Len(bytes) THEN bytes[i] ELSE 0
    IN byte(1) + 256 * byte(2) + 65536 * byte(3) + 16777216 * (byte(4) % 64)

WriteAt(file, at, bytes) ==
    [i \in 1 .. Upper(Len(file), at + Len(bytes)) |->
       IF at < i /\ i <= at + Len(bytes) THEN bytes[i - at] ELSE file[i]]

(* Pool::new, on the file of an earlier run if there is one. *)
NewPool(file) ==
    [file |-> WriteAt(file, 0, WordBytes(0)), cursor |-> HeaderSize,
     valueCount |-> 0, blockValues |-> 0, blockSize |-> 0, firstIndex |-> 0,
     recentWrites |-> <<>>, recentReads |-> <<>>]

(* TopNHeap: the newest BlockWrite pairs, found by their first component. *)
HeapIndex(heap, item) == SelectInSeq(heap, LAMBDA p : p[1] = item)

(* insert_and_increase: an item that is there keeps its value. *)
InsertAndIncrease(heap, item, value) ==
    LET i == HeapIndex(heap, item)
    IN IF i # 0 THEN <<heap[i]>> \o RemoveAt(heap, i)
       ELSE <<<<item, value>>>> \o UpTo(heap, BlockWrite - 1)

-----------------------------------------------------------------------------
(* Fault: the size is written over the end of the block before. *)
PostInsertNoHeader(p) ==
    IF p.blockValues < BlockWrite THEN p
    ELSE [p EXCEPT !.file = WriteAt(WriteAt(p.file, p.cursor - p.blockSize,
                                            WordBytes(p.blockSize)),
                                    p.cursor, WordBytes(0)),
                   !.cursor = @ + HeaderSize,
                   !.firstIndex = @ + p.blockValues,
                   !.blockSize = 0, !.blockValues = 0]

(* post_insert: a full block gets its size, and a new one its header.      *)
(* current_block_first_value_byte stays at the first block's.              *)
PostInsert(p) ==
    IF p.blockValues < BlockWrite THEN p
    ELSE [p EXCEPT !.file = WriteAt(WriteAt(p.file,
                                            p.cursor - p.blockSize - HeaderSize,
                                            WordBytes(p.blockSize)),
                                    p.cursor, WordBytes(0)),
                   !.cursor = @ + HeaderSize,
                   !.firstIndex = @ + p.blockValues,
                   !.blockSize = 0, !.blockValues = 0]

IsInline(id) == id % 2 = 0

(* insert_blob; equal hashes are taken for equal blobs. *)
InsertBlob(p, blob) ==
    LET known == HeapIndex(p.recentWrites, blob)
        id == 2 * p.valueCount + 1
        n == Len(blob)
    IN CASE n <= InlineBytes -> [pool |-> p, id |-> 2 * WordOf(blob)]
         [] n > InlineBytes /\ known # 0 ->
              [pool |-> p, id |-> p.recentWrites[known][2]]
         [] OTHER ->
              [pool |-> PostInsert(
                 [p EXCEPT !.file = WriteAt(p.file, p.cursor, blob),
                           !.cursor = @ + n,
                           !.valueCount = @ + 1,
                           !.recentWrites = InsertAndIncrease(@, blob, id),
                           !.blockSize = @ + n,
                           !.blockValues = @ + 1]),
               id |-> id]

(* insert for each of a sequence of blobs *)
InsertBlobs(p, blobs) ==
    LET with(acc, new) == [pool |-> new.pool, ids |-> Append(acc.ids, new.id)]
        after[n \in 0 .. Len(blobs)] ==
          IF n = 0 THEN [pool |-> p, ids |-> <<>>]
          ELSE LET was == after[n - 1] IN with(was, InsertBlob(was.pool, blobs[n]))
    IN after[Len(blobs)]

-----------------------------------------------------------------------------
FileFrom(p, at) == SubSeq(p.file, at + 1, Len(p.file))

(* Past blocks by their sizes: past each header twice, once more than it   *)
(* is there.                                                               *)
PastBlocks(p, blocks) ==
    LET at[k \in 0 .. blocks] ==
          IF k = 0 THEN 0
          ELSE at[k - 1] + 2 * HeaderSize + WordOf(FileFrom(p, at[k - 1]))
    IN at[blocks]

(* Where get begins to read for the value with the given number. *)
ReadStart(p, index) ==
    IF index >= p.firstIndex /\ index - p.firstIndex < BlockWrite
    THEN HeaderSize
    ELSE PastBlocks(p, index \div BlockWrite) + HeaderSize

SkipLiterals(bytes, k) == Repeated(ReadLiteral, bytes, k)[2]

Missing == [t |-> "none", v |-> <<>>]

(* get: a value read from the file is remembered, and leaves the cursor    *)
(* behind it.                                                              *)
Get(p, id) ==
    LET index == id \div 2
        cached == HeapIndex(p.recentReads, index)
        remember(value, rest) ==
          [pool |-> [p EXCEPT !.cursor = Len(p.file) - Len(rest),
                              !.recentReads = InsertAndIncrease(@, index, value)],
           value |-> value]
    IN CASE IsInline(id) ->
              [pool |-> p, value |-> ReadLiteral(WordBytes(index))[1]]
         [] ~IsInline(id) /\ index >= p.valueCount ->
              [pool |-> p, value |-> Missing]
         [] ~IsInline(id) /\ index < p.valueCount /\ cached # 0 ->
              [pool |-> p, value |-> p.recentReads[cached][2]]
         [] OTHER ->
              Then(ReadLiteral(SkipLiterals(FileFrom(p, ReadStart(p, index)),
                                            index % BlockWrite)), remember)

GetAll(p, ids) ==
    LET with(acc, new) == [pool |-> new.pool,
                              values |-> Append(acc.values, new.value)]
        after[n \in 0 .. Len(ids)] ==
          IF n = 0 THEN [pool |-> p, values |-> <<>>]
          ELSE LET was == after[n - 1] IN with(was, Get(was.pool, ids[n]))
    IN after[Len(ids)]

(* The values get reads from where they are: the first block's. *)
ReadRight(id) == IsInline(id) \/ id \div 2 < BlockWrite
=============================================================================
