---------------------------- MODULE Compressor ----------------------------
(***************************************************************************)
(* The program that makes the map: main of src/bin/main.rs and Compressor  *)
(* of src/compressor/.  The blobs of the file are read in rounds, each     *)
(* blob by a task of its own; an element whose parts have boxes gets a box *)
(* and is stored, any other goes to a queue, which is gone through again   *)
(* and again after the last round.  What is left of it is reported.        *)
(*                                                                         *)
(* A step is what a thread does between two accesses to what it shares.    *)
(* Only boxes and places are kept here: ElementStore has the bytes.        *)
(***************************************************************************)
EXTENDS Naturals, Sequences, FiniteSets

CONSTANTS Elements,   \* the elements in the file
          Ids,        \* the ids they refer to, some of which are not in it
          Empty,      \* nodes without a tag that is stored
          Needs,      \* the ids of the parts of each, in their order
          Blobs,      \* the file: a sequence of sequences of elements
          RoundSize,  \* WRITE_EVERY_N_CHUNKS
          Attempts,   \* how often a pass may leave the queue as long as it was
          NoElement

ASSUME CompressorConstants ==
    /\ Elements \subseteq Ids /\ NoElement \notin Ids
    /\ IsFiniteSet(Elements)
    /\ Empty \subseteq Elements
    /\ Needs \in [Elements -> Seq(Ids)]
    /\ Blobs \in Seq(Seq(Elements))
    /\ RoundSize \in Nat \ {0} /\ Attempts \in Nat \ {0}

(* Each element is in the file once. *)
ASSUME EachOnce ==
    \A e \in Elements :
       \E b \in 1 .. Len(Blobs) : \E i \in 1 .. Len(Blobs[b]) :
          \A c \in 1 .. Len(Blobs) : \A j \in 1 .. Len(Blobs[c]) :
             Blobs[c][j] = e <=> (c = b /\ j = i)

Tasks == 1 .. Len(Blobs)
Main == 0
Workers == Tasks \cup {Main}

VARIABLES taken,      \* how many blobs have been read from the file
          left,       \* what each task has still to write
          hand,       \* the element each worker is writing
          stage,      \* and how far it is
          look,       \* its parts that have not been looked up
          cache,      \* cache_bboxes: what has a box
          geography,  \* what the tree has
          queue,      \* queue_to_handle_at_end
          phase,      \* of main
          attempt, len, togo,  \* of attempt_retry_queue
          incomplete  \* incomplete_relations.note

writing == <<left, hand, stage, look>>
vars == <<taken, writing, cache, geography, queue, phase, attempt, len, togo,
          incomplete>>

Min2(a, b) == IF a < b THEN a ELSE b

Queued == {queue[i] : i \in 1 .. Len(queue)}

Init ==
    /\ taken = 0
    /\ left = [t \in Tasks |-> <<>>]
    /\ hand = [w \in Workers |-> NoElement]
    /\ stage = [w \in Workers |-> "idle"]
    /\ look = [w \in Workers |-> <<>>]
    /\ cache = {} /\ geography = {} /\ queue = <<>>
    /\ phase = "read"
    /\ attempt = 0 /\ len = 0 /\ togo = 0
    /\ incomplete = {}

AllIdle == \A w \in Workers : stage[w] = "idle"

RoundOver == AllIdle /\ \A t \in Tasks : left[t] = <<>>

-----------------------------------------------------------------------------
(* write_element *)

Start(w, e) ==
    /\ hand' = [hand EXCEPT ![w] = e]
    /\ stage' = [stage EXCEPT ![w] = "look"]
    /\ look' = [look EXCEPT ![w] = Needs[e]]

Finish(w) ==
    /\ hand' = [hand EXCEPT ![w] = NoElement]
    /\ stage' = [stage EXCEPT ![w] = "idle"]
    /\ look' = [look EXCEPT ![w] = <<>>]
    /\ UNCHANGED left

\* The parts are looked up one by one, up to the first without a box.
LookUp(w) ==
    /\ stage[w] = "look" /\ look[w] # <<>>
    /\ IF Head(look[w]) \in cache
       THEN /\ look' = [look EXCEPT ![w] = Tail(@)]
            /\ UNCHANGED stage
       ELSE /\ stage' = [stage EXCEPT ![w] = "queue"]
            /\ UNCHANGED look
    /\ UNCHANGED <<taken, left, hand, cache, geography, queue, phase, attempt,
                   len, togo, incomplete>>

\* Fault: an element whose part is missing is given up.
PushBackNot(w) ==
    /\ stage[w] = "queue"
    /\ Finish(w)
    /\ UNCHANGED <<taken, cache, geography, queue, phase, attempt, len, togo,
                   incomplete>>

PushBack(w) ==
    /\ stage[w] = "queue"
    /\ queue' = Append(queue, hand[w])
    /\ Finish(w)
    /\ UNCHANGED <<taken, cache, geography, phase, attempt, len, togo, incomplete>>

\* insert_bbox; an empty node is done with.
PutBox(w) ==
    /\ stage[w] = "look" /\ look[w] = <<>>
    /\ cache' = cache \cup {hand[w]}
    /\ IF hand[w] \in Empty THEN Finish(w)
       ELSE /\ stage' = [stage EXCEPT ![w] = "store"]
            /\ UNCHANGED <<left, hand, look>>
    /\ UNCHANGED <<taken, geography, queue, phase, attempt, len, togo, incomplete>>

Store(w) ==
    /\ stage[w] = "store"
    /\ geography' = geography \cup {hand[w]}
    /\ Finish(w)
    /\ UNCHANGED <<taken, cache, queue, phase, attempt, len, togo, incomplete>>

-----------------------------------------------------------------------------
(* main *)

\* A round: a task for each of the next blobs.
StartRound ==
    /\ phase = "read" /\ RoundOver /\ taken < Len(Blobs)
    /\ taken' = Min2(taken + RoundSize, Len(Blobs))
    /\ left' = [t \in Tasks |-> IF taken < t /\ t <= taken' THEN Blobs[t] ELSE <<>>]
    /\ UNCHANGED <<hand, stage, look, cache, geography, queue, phase, attempt,
                   len, togo, incomplete>>

Take(t) ==
    /\ stage[t] = "idle" /\ left[t] # <<>>
    /\ Start(t, Head(left[t]))
    /\ left' = [left EXCEPT ![t] = Tail(@)]
    /\ UNCHANGED <<taken, cache, geography, queue, phase, attempt, len, togo,
                   incomplete>>

\* A round of no blobs is the last one.
StartRetry ==
    /\ phase = "read" /\ RoundOver /\ taken = Len(Blobs)
    /\ phase' = "retry"
    /\ attempt' = 1
    /\ len' = Len(queue) /\ togo' = Len(queue)
    /\ UNCHANGED <<taken, writing, cache, geography, queue, incomplete>>

PopFront ==
    /\ phase = "retry" /\ stage[Main] = "idle" /\ togo > 0
    /\ Start(Main, Head(queue))
    /\ queue' = Tail(queue)
    /\ togo' = togo - 1
    /\ UNCHANGED <<taken, left, cache, geography, phase, attempt, len, incomplete>>

PassOver == phase = "retry" /\ stage[Main] = "idle" /\ togo = 0

\* Fault: a pass that leaves the queue as it is does not count.
PassAgainUncounted ==
    /\ PassOver
    /\ len' = Len(queue) /\ togo' = Len(queue)
    /\ UNCHANGED <<taken, writing, cache, geography, queue, phase, attempt,
                   incomplete>>

PassAgain ==
    /\ PassOver
    /\ Len(queue) # len \/ attempt < Attempts
    /\ attempt' = IF Len(queue) = len THEN attempt + 1 ELSE attempt
    /\ len' = Len(queue) /\ togo' = Len(queue)
    /\ UNCHANGED <<taken, writing, cache, geography, queue, phase, incomplete>>

\* Fault: a pass may be the last although it shortened the queue.
ReportShorter ==
    /\ PassOver
    /\ phase' = "done"
    /\ incomplete' = Queued
    /\ queue' = <<>>
    /\ UNCHANGED <<taken, writing, cache, geography, attempt, len, togo>>

\* The queue is drained into the note.
Report ==
    /\ PassOver
    /\ Len(queue) = len /\ attempt = Attempts
    /\ phase' = "done"
    /\ incomplete' = Queued
    /\ queue' = <<>>
    /\ UNCHANGED <<taken, writing, cache, geography, attempt, len, togo>>

Done == phase = "done" /\ UNCHANGED vars

WriteElement(w) == LookUp(w) \/ PushBack(w) \/ PutBox(w) \/ Store(w)

Step == \/ \E w \in Workers : WriteElement(w)
        \/ \E t \in Tasks : Take(t)
        \/ StartRound \/ StartRetry \/ PopFront \/ PassAgain \/ Report

Next == Step \/ Done

(* The threads of the pool and main run on until they have no work left. *)
Fairness == WF_vars(Step)

Spec == Init /\ [][Next]_vars /\ Fairness

-----------------------------------------------------------------------------
(* What is right about it.                                                 *)

(* How many places an element is in, of those it can be in. *)
Places(e) ==
    Cardinality({p \in Tasks \X (1 .. Cardinality(Elements)) :
                    p[1] > taken /\ p[2] <= Len(Blobs[p[1]]) /\ Blobs[p[1]][p[2]] = e})
    + Cardinality({p \in Tasks \X (1 .. Cardinality(Elements)) :
                    p[2] <= Len(left[p[1]]) /\ left[p[1]][p[2]] = e})
    + Cardinality({w \in Workers : hand[w] = e})
    + Cardinality({i \in 1 .. Len(queue) : queue[i] = e})
    + Cardinality({x \in {geography} : e \in x})
    + Cardinality({x \in {incomplete} : e \in x})
    + Cardinality({x \in {cache} : e \in x /\ e \in Empty})

(* OneFate: each element is in one place: not read yet, with one worker,   *)
(* in the queue once, stored, an empty node with a box, or reported.  What *)
(* is stored has a box, and what is reported has none.                     *)
OneFate ==
    /\ \A e \in Elements : Places(e) = 1
    /\ geography \subseteq cache
    /\ incomplete \cap cache = {}

Closed(S) == \A e \in Elements : {Needs[e][i] : i \in 1 .. Len(Needs[e])} \subseteq S
                                   => e \in S

(* LeftOutOnlyIfStuck: in the end the elements with a box are those that   *)
(* can have one at all, in whatever order the tasks came to them: the      *)
(* least set with every element whose parts are all in it.                 *)
LeftOutOnlyIfStuck ==
    phase = "done" =>
       /\ Closed(cache)
       /\ \A S \in SUBSET Elements : Closed(S) => cache \subseteq S
       /\ incomplete = Elements \ cache

(* RetryEnds: the retries come to an end, although each pass that shortens *)
(* the queue is followed by another.                                       *)
RetryEnds == <>(phase = "done")
=============================================================================
