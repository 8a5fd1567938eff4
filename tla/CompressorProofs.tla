-------------------------- MODULE CompressorProofs --------------------------
(***************************************************************************)
(* Each element has one fate, and which elements the map has does not      *)
(* depend on how the tasks interleave, for every file, every number of     *)
(* blobs, rounds and attempts: OneFate and LeftOutOnlyIfStuck.             *)
(*                                                                         *)
(* No element is lost from sight (Accounted), one gets its box after all   *)
(* its parts (Known) and only if it can have one (Least).  What makes the  *)
(* end right is Passes: while a pass of the retries has not shortened the  *)
(* queue, all it has put back is stuck, since nothing has got a box.       *)
(***************************************************************************)
EXTENDS Compressor, FiniteSetTheorems, TLAPS

Members(s) == {s[i] : i \in 1 .. Len(s)}

Parts(e) == Members(Needs[e])

Stuck(e) == ~ (Parts(e) \subseteq cache)

(* What the variables are. *)
TypeOK ==
    /\ taken \in 0 .. Len(Blobs)
    /\ left \in [Tasks -> Seq(Elements)]
    /\ hand \in [Workers -> Elements \cup {NoElement}]
    /\ stage \in [Workers -> {"idle", "look", "queue", "store"}]
    /\ look \in [Workers -> Seq(Ids)]
    /\ cache \subseteq Elements /\ geography \subseteq Elements
    /\ queue \in Seq(Elements)
    /\ phase \in {"read", "retry", "done"}
    /\ attempt \in Nat /\ len \in Nat /\ togo \in Nat
    /\ incomplete \subseteq Elements
    /\ \A w \in Workers : hand[w] = NoElement <=> stage[w] = "idle"

(* How far a worker is with the parts of its element. *)
Looked ==
    \A w \in Workers :
       /\ stage[w] = "look" => /\ Parts(hand[w]) \subseteq cache \cup Members(look[w])
                               /\ Members(look[w]) \subseteq Parts(hand[w])
       /\ stage[w] = "store" => hand[w] \in cache

Known == \A e \in cache : ~ Stuck(e)

Least == \A S \in SUBSET Elements : Closed(S) => cache \subseteq S

(* An element is somewhere. *)
InFile(e) == \E b \in taken + 1 .. Len(Blobs) : e \in Members(Blobs[b])
AtWork(e) == \/ \E t \in Tasks : e \in Members(left[t])
             \/ \E w \in Workers : hand[w] = e

Accounted ==
    \A e \in Elements : \/ InFile(e) \/ AtWork(e)
                        \/ e \in Members(queue) \/ e \in cache \/ e \in incomplete

(* Main works after the tasks only. *)
Phases ==
    /\ phase = "read" => stage[Main] = "idle"
    /\ phase # "read" => /\ taken = Len(Blobs)
                         /\ \A t \in Tasks : left[t] = <<>> /\ stage[t] = "idle"
    /\ phase = "done" => stage[Main] = "idle" /\ queue = <<>>
    /\ phase # "done" => incomplete = {}
    /\ \A e \in incomplete : Stuck(e)

(* The pass under way has got a box for an element, or what it has put     *)
(* back is stuck.                                                          *)
OutOfQueue == IF stage[Main] \in {"look", "queue"} THEN 1 ELSE 0

Passes ==
    phase = "retry" =>
       /\ togo <= Len(queue)
       /\ Len(queue) + OutOfQueue <= len
       /\ stage[Main] = "queue" => Stuck(hand[Main])
       /\ Len(queue) + OutOfQueue = len =>
             \A i \in togo + 1 .. Len(queue) : Stuck(queue[i])

IInv == /\ TypeOK /\ Looked /\ Known /\ Least /\ Accounted /\ Phases /\ Passes

-----------------------------------------------------------------------------
(* Sequences and the constants. *)

(* What a sequence has is its head and what its tail has. *)
LEMMA MembersOfTail ==
    ASSUME NEW X, NEW s \in Seq(X), s # <<>>
    PROVE  /\ Head(s) \in X /\ Tail(s) \in Seq(X) /\ Len(Tail(s)) = Len(s) - 1
           /\ Len(s) \in Nat \ {0}
           /\ \A i \in 1 .. Len(s) - 1 : Tail(s)[i] = s[i + 1]
           /\ Members(s) = {Head(s)} \cup Members(Tail(s))
  <1>1. /\ Head(s) \in X /\ Tail(s) \in Seq(X) /\ Len(Tail(s)) = Len(s) - 1
        /\ Len(s) \in Nat \ {0} /\ Head(s) = s[1]
        /\ \A i \in 1 .. Len(s) - 1 : Tail(s)[i] = s[i + 1]
    OBVIOUS
  <1>2. \A i \in 1 .. Len(s) : i = 1 \/ (i - 1 \in 1 .. Len(s) - 1 /\ Tail(s)[i - 1] = s[i])
    BY <1>1
  <1>3. Members(s) \subseteq {Head(s)} \cup Members(Tail(s))
    BY <1>1, <1>2 DEF Members
  <1>4. {Head(s)} \cup Members(Tail(s)) \subseteq Members(s)
    BY <1>1 DEF Members
  <1> QED BY <1>1, <1>3, <1>4

(* Appending adds one member, at the end. *)
LEMMA MembersOfAppend ==
    ASSUME NEW X, NEW s \in Seq(X), NEW e \in X
    PROVE  /\ Append(s, e) \in Seq(X) /\ Len(Append(s, e)) = Len(s) + 1
           /\ Len(s) \in Nat
           /\ \A i \in 1 .. Len(s) : Append(s, e)[i] = s[i]
           /\ Append(s, e)[Len(s) + 1] = e
           /\ Members(Append(s, e)) = Members(s) \cup {e}
  <1>1. /\ Append(s, e) \in Seq(X) /\ Len(Append(s, e)) = Len(s) + 1
        /\ Len(s) \in Nat
        /\ \A i \in 1 .. Len(s) : Append(s, e)[i] = s[i]
        /\ Append(s, e)[Len(s) + 1] = e
    OBVIOUS
  <1>2. \A i \in 1 .. Len(s) + 1 : i \in 1 .. Len(s) \/ i = Len(s) + 1
    BY <1>1
  <1>3. Members(Append(s, e)) \subseteq Members(s) \cup {e}
    BY <1>1, <1>2 DEF Members
  <1>4. Members(s) \cup {e} \subseteq Members(Append(s, e))
    BY <1>1 DEF Members
  <1> QED BY <1>1, <1>3, <1>4

(* The empty sequence has no member. *)
LEMMA NoMembers == Members(<<>>) = {}
  BY DEF Members

(* A blob that is ahead of one mark and of another one. *)
LEMMA StillAhead ==
    ASSUME NEW m \in Nat, NEW n \in Nat, NEW last \in Nat, NEW b \in m + 1 .. last,
           b > n
    PROVE  b \in n + 1 .. last
  OBVIOUS

(* A blob that is ahead of a later mark. *)
LEMMA FurtherAhead ==
    ASSUME NEW m \in Nat, NEW n \in Nat, n <= m, NEW last \in Nat, NEW b \in m + 1 .. last
    PROVE  b \in n + 1 .. last /\ b \in 1 .. last /\ ~ (b <= m)
  OBVIOUS

(* What the proofs use of the constants. *)
LEMMA ConstantFacts ==
    /\ Main \in Workers /\ Tasks \subseteq Workers /\ Main \notin Tasks
    /\ Workers = Tasks \cup {Main}
    /\ NoElement \notin Elements
    /\ \A e \in Elements : Needs[e] \in Seq(Ids)
    /\ Len(Blobs) \in Nat
    /\ \A b \in Tasks : Blobs[b] \in Seq(Elements)
    /\ RoundSize \in Nat \ {0} /\ Attempts \in Nat \ {0}
  BY CompressorConstants DEF Main, Tasks, Workers

(* Closed, said with Parts. *)
LEMMA ClosedMeans ==
    ASSUME NEW S
    PROVE  Closed(S) <=> \A e \in Elements : Parts(e) \subseteq S => e \in S
  BY DEF Closed, Parts, Members

-----------------------------------------------------------------------------
(* One lemma for each action. *)

(* A part is looked up. *)
LEMMA LookUpKeeps ==
    ASSUME IInv, NEW w \in Workers, LookUp(w)
    PROVE  IInv'
  <1> USE ConstantFacts DEF IInv, writing
  <1>a. /\ stage[w] = "look" /\ look[w] # <<>> /\ hand[w] \in Elements
        /\ Tail(look[w]) \in Seq(Ids)
        /\ Members(look[w]) = {Head(look[w])} \cup Members(Tail(look[w]))
    BY MembersOfTail DEF LookUp, TypeOK
  <1>1. TypeOK'
    <2>1. look' \in [Workers -> Seq(Ids)]
      BY <1>a DEF LookUp, TypeOK
    <2>2. stage' \in [Workers -> {"idle", "look", "queue", "store"}]
      BY DEF LookUp, TypeOK
    <2>3. \A v \in Workers : stage'[v] = "idle" <=> stage[v] = "idle"
      BY <1>a DEF LookUp, TypeOK
    <2> QED BY <2>1, <2>2, <2>3 DEF LookUp, TypeOK
  <1>2. Looked'
    <2>1. CASE Head(look[w]) \in cache
      <3>1. stage' = stage /\ hand' = hand /\ cache' = cache
        BY <2>1 DEF LookUp
      <3>2. look'[w] = Tail(look[w]) /\ \A v \in Workers : v # w => look'[v] = look[v]
        BY <2>1 DEF LookUp, TypeOK
      <3>3. Members(look[w]) \subseteq Parts(hand[w])
        BY <1>a DEF Looked
      <3>4. Parts(hand[w]) \subseteq cache \cup Members(Tail(look[w]))
        BY <1>a, <2>1 DEF Looked
      <3>5. Members(Tail(look[w])) \subseteq Parts(hand[w])
        BY <1>a, <3>3
      <3> QED BY <1>a, <3>1, <3>2, <3>4, <3>5 DEF Looked
    <2>2. CASE Head(look[w]) \notin cache
      BY <1>a, <2>2 DEF LookUp, TypeOK, Looked
    <2> QED BY <2>1, <2>2
  <1>3. Known'
    BY DEF LookUp, TypeOK, Known, Stuck, Parts
  <1>4. Least'
    BY DEF LookUp, TypeOK, Least
  <1>5. Accounted'
    BY DEF LookUp, TypeOK, Accounted, InFile, AtWork
  <1>6. Phases'
    BY DEF LookUp, TypeOK, Phases, Stuck, Parts
  <1>7. Passes'
    <2>1. CASE Head(look[w]) \in cache
      BY <1>a, <2>1 DEF LookUp, TypeOK, Passes, OutOfQueue, Stuck
    <2>2. CASE Head(look[w]) \notin cache
      <3>1. Stuck(hand[w])
        BY <1>a, <2>2 DEF Looked, Stuck
      <3> QED BY <1>a, <2>2, <3>1 DEF LookUp, TypeOK, Passes, OutOfQueue, Stuck
    <2> QED BY <2>1, <2>2
  <1> QED BY <1>1, <1>2, <1>3, <1>4, <1>5, <1>6, <1>7 DEF IInv

(* An element goes back to the queue. *)
LEMMA PushBackKeeps ==
    ASSUME IInv, NEW w \in Workers, PushBack(w)
    PROVE  IInv'
  <1> USE ConstantFacts DEF IInv, writing
  <1>a. /\ hand[w] \in Elements /\ Append(queue, hand[w]) \in Seq(Elements)
        /\ Len(Append(queue, hand[w])) = Len(queue) + 1
        /\ \A i \in 1 .. Len(queue) : Append(queue, hand[w])[i] = queue[i]
        /\ Append(queue, hand[w])[Len(queue) + 1] = hand[w]
        /\ Members(Append(queue, hand[w])) = Members(queue) \cup {hand[w]}
    BY MembersOfAppend DEF PushBack, TypeOK
  <1>1. TypeOK'
    BY DEF PushBack, Finish, TypeOK
  <1>2. Looked'
    BY DEF PushBack, Finish, TypeOK, Looked, Stuck, Parts
  <1>3. Known'
    BY DEF PushBack, Finish, TypeOK, Known, Stuck, Parts
  <1>4. Least'
    BY DEF PushBack, Finish, TypeOK, Least
  <1>5. Accounted'
    BY <1>a DEF PushBack, Finish, TypeOK, Accounted, InFile, AtWork
  <1>6. Phases'
    BY DEF PushBack, Finish, TypeOK, Phases, Stuck, Parts
  <1>7. Passes'
    <2> SUFFICES ASSUME phase = "retry"
                 PROVE  Passes'
      BY DEF PushBack, Passes
    <2>1. w = Main
      BY DEF PushBack, Phases
    <2>2. OutOfQueue = 1 /\ OutOfQueue' = 0
      BY <2>1 DEF PushBack, Finish, OutOfQueue, TypeOK
    <2>3. Stuck(hand[w]) /\ \A e : Stuck(e)' <=> Stuck(e)
      BY <2>1 DEF PushBack, Passes, Stuck
    <2>4. stage'[Main] = "idle"
      BY <2>1 DEF PushBack, Finish, TypeOK
    <2> QED BY <1>a, <2>2, <2>3, <2>4 DEF PushBack, Passes, TypeOK
  <1> QED BY <1>1, <1>2, <1>3, <1>4, <1>5, <1>6, <1>7 DEF IInv

(* An element gets its box. *)
LEMMA PutBoxKeeps ==
    ASSUME IInv, NEW w \in Workers, PutBox(w)
    PROVE  IInv'
  <1> USE ConstantFacts DEF IInv, writing
  <1>a. hand[w] \in Elements /\ Parts(hand[w]) \subseteq cache
    BY NoMembers DEF PutBox, TypeOK, Looked
  <1>b. /\ w \in Workers /\ cache' = cache \cup {hand[w]}
        /\ UNCHANGED <<left, taken, geography, queue, phase, attempt, len, togo, incomplete>>
        /\ \/ /\ hand[w] \in Empty /\ hand' = [hand EXCEPT ![w] = NoElement]
              /\ stage' = [stage EXCEPT ![w] = "idle"]
              /\ look' = [look EXCEPT ![w] = <<>>]
           \/ /\ stage' = [stage EXCEPT ![w] = "store"]
              /\ UNCHANGED <<hand, look>>
    BY DEF PutBox, Finish
  <1>1. TypeOK'
    <2>1. <<>> \in Seq(Ids)
      OBVIOUS
    <2>2. /\ hand' \in [Workers -> Elements \cup {NoElement}]
          /\ stage' \in [Workers -> {"idle", "look", "queue", "store"}]
          /\ look' \in [Workers -> Seq(Ids)]
      <3>1. /\ hand \in [Workers -> Elements \cup {NoElement}]
            /\ stage \in [Workers -> {"idle", "look", "queue", "store"}]
            /\ look \in [Workers -> Seq(Ids)]
        BY DEF TypeOK
      <3>2. hand' = hand \/ hand' = [hand EXCEPT ![w] = NoElement]
        BY <1>b
      <3>3. stage' = [stage EXCEPT ![w] = "idle"] \/ stage' = [stage EXCEPT ![w] = "store"]
        BY <1>b
      <3>4. look' = look \/ look' = [look EXCEPT ![w] = <<>>]
        BY <1>b
      <3>5. hand' \in [Workers -> Elements \cup {NoElement}]
        BY <3>1, <3>2
      <3>6. stage' \in [Workers -> {"idle", "look", "queue", "store"}]
        BY <3>1, <3>3
      <3>7. look' \in [Workers -> Seq(Ids)]
        BY <2>1, <3>1, <3>4
      <3> QED BY <3>5, <3>6, <3>7
    <2>3. \A v \in Workers : hand'[v] = NoElement <=> stage'[v] = "idle"
      <3> TAKE v \in Workers
      <3>1. hand[v] = NoElement <=> stage[v] = "idle"
        BY DEF TypeOK
      <3>2. CASE v # w
        <4>1. hand'[v] = hand[v] /\ stage'[v] = stage[v]
          BY <1>b, <3>2 DEF TypeOK
        <4> QED BY <3>1, <4>1
      <3>3. CASE v = w
        <4>1. \/ hand'[v] = NoElement /\ stage'[v] = "idle"
              \/ hand'[v] = hand[w] /\ stage'[v] = "store"
          BY <1>b, <3>3 DEF TypeOK
        <4> QED BY <1>a, <4>1
      <3> QED BY <3>2, <3>3
    <2> QED BY <1>a, <1>b, <2>2, <2>3 DEF TypeOK
  <1>2. Looked'
    <2> SUFFICES ASSUME NEW v \in Workers
                 PROVE  /\ stage'[v] = "look" =>
                             /\ Parts(hand'[v]) \subseteq cache' \cup Members(look'[v])
                             /\ Members(look'[v]) \subseteq Parts(hand'[v])
                        /\ stage'[v] = "store" => hand'[v] \in cache'
      BY DEF Looked
    <2>1. CASE v = w
      <3>1. \/ stage'[v] = "idle"
            \/ stage'[v] = "store" /\ hand'[v] = hand[w]
        BY <1>b, <2>1 DEF TypeOK
      <3> QED BY <1>b, <3>1
    <2>2. CASE v # w
      <3>1. stage'[v] = stage[v] /\ hand'[v] = hand[v] /\ look'[v] = look[v]
        BY <1>b, <2>2 DEF TypeOK
      <3> QED BY <1>b, <3>1 DEF Looked
    <2> QED BY <2>1, <2>2
  <1>3. Known'
    BY <1>a DEF PutBox, Finish, TypeOK, Known, Stuck, Parts
  <1>4. Least'
    <2>1. \A S \in SUBSET Elements : Closed(S) => hand[w] \in S
      BY <1>a, ClosedMeans DEF Least
    <2> QED BY <2>1 DEF PutBox, Least, Closed
  <1>5. Accounted'
    <2> SUFFICES ASSUME NEW e \in Elements
                 PROVE  \/ InFile(e)' \/ AtWork(e)'
                        \/ e \in Members(queue)' \/ e \in cache' \/ e \in incomplete'
      BY DEF Accounted
    <2>1. InFile(e) \/ AtWork(e) \/ e \in Members(queue) \/ e \in cache \/ e \in incomplete
      BY DEF Accounted
    <2>2. CASE \E v \in Workers : hand[v] = e
      <3> PICK v \in Workers : hand[v] = e
        BY <2>2
      <3>1. CASE v = w
        BY <1>b, <3>1
      <3>2. CASE v # w
        <4>1. hand'[v] = hand[v]
          BY <1>b, <3>2 DEF TypeOK
        <4> QED BY <4>1 DEF AtWork
      <3> QED BY <3>1, <3>2
    <2> QED BY <1>b, <2>1, <2>2 DEF InFile, AtWork
  <1>6. Phases'
    BY DEF PutBox, Finish, TypeOK, Phases, Stuck, Parts
  <1>7. Passes'
    <2> SUFFICES ASSUME phase = "retry"
                 PROVE  Passes'
      BY DEF PutBox, Passes
    <2>1. w = Main
      BY DEF PutBox, Phases
    <2>2. OutOfQueue = 1 /\ OutOfQueue' = 0 /\ stage'[Main] # "queue"
      BY <2>1 DEF PutBox, Finish, OutOfQueue, TypeOK
    <2> QED BY <2>2 DEF PutBox, Passes, TypeOK
  <1> QED BY <1>1, <1>2, <1>3, <1>4, <1>5, <1>6, <1>7 DEF IInv

(* An element is stored. *)
LEMMA StoreKeeps ==
    ASSUME IInv, NEW w \in Workers, Store(w)
    PROVE  IInv'
  <1> USE ConstantFacts DEF IInv, writing
  <1>1. TypeOK'
    BY DEF Store, Finish, TypeOK
  <1>2. Looked'
    BY DEF Store, Finish, TypeOK, Looked, Stuck, Parts
  <1>3. Known'
    BY DEF Store, Finish, TypeOK, Known, Stuck, Parts
  <1>4. Least'
    BY DEF Store, Finish, TypeOK, Least
  <1>5. Accounted'
    <2>1. hand[w] \in cache
      BY DEF Store, Looked
    <2>2. \A e : AtWork(e) => AtWork(e)' \/ e = hand[w]
      BY DEF Store, Finish, AtWork, TypeOK
    <2> QED BY <2>1, <2>2 DEF Store, Accounted, InFile
  <1>6. Phases'
    BY DEF Store, Finish, TypeOK, Phases, Stuck, Parts
  <1>7. Passes'
    BY DEF Store, Finish, TypeOK, Passes, OutOfQueue, Stuck, Parts
  <1> QED BY <1>1, <1>2, <1>3, <1>4, <1>5, <1>6, <1>7 DEF IInv

(* A task takes its next element. *)
LEMMA TakeKeeps ==
    ASSUME IInv, NEW t \in Tasks, Take(t)
    PROVE  IInv'
  <1> USE ConstantFacts DEF IInv, writing
  <1>a. /\ left[t] # <<>> /\ Head(left[t]) \in Elements
        /\ Members(left[t]) = {Head(left[t])} \cup Members(Tail(left[t]))
    BY MembersOfTail DEF Take, TypeOK
  <1>1. TypeOK'
    BY DEF Take, Start, TypeOK
  <1>2. Looked'
    BY DEF Take, Start, TypeOK, Looked, Stuck, Parts
  <1>3. Known'
    BY DEF Take, Start, TypeOK, Known, Stuck, Parts
  <1>4. Least'
    BY DEF Take, Start, TypeOK, Least
  <1>5. Accounted'
    <2>1. hand'[t] = Head(left[t]) /\ left'[t] = Tail(left[t]) /\ hand[t] = NoElement
      BY DEF Take, Start, TypeOK
    <2>2. \A v \in Workers : v # t => hand'[v] = hand[v]
      BY DEF Take, Start, TypeOK
    <2>3. \A u \in Tasks : u # t => left'[u] = left[u]
      BY DEF Take, TypeOK
    <2>4. \A e \in Elements : AtWork(e) => AtWork(e)'
      BY <1>a, <2>1, <2>2, <2>3 DEF AtWork
    <2> QED BY <2>4 DEF Take, Accounted, InFile
  <1>6. Phases'
    BY DEF Take, Start, TypeOK, Phases, Stuck, Parts
  <1>7. Passes'
    BY DEF Take, Start, TypeOK, Passes, OutOfQueue, Stuck, Parts
  <1> QED BY <1>1, <1>2, <1>3, <1>4, <1>5, <1>6, <1>7 DEF IInv

(* A round begins. *)
LEMMA StartRoundKeeps ==
    ASSUME IInv, StartRound
    PROVE  IInv'
  <1> USE ConstantFacts DEF IInv, writing
  <1>1. TypeOK'
    BY DEF StartRound, RoundOver, AllIdle, Min2, TypeOK
  <1>2. Looked'
    BY DEF StartRound, RoundOver, AllIdle, Min2, TypeOK, Looked, Stuck, Parts
  <1>3. Known'
    BY DEF StartRound, RoundOver, AllIdle, Min2, TypeOK, Known, Stuck, Parts
  <1>4. Least'
    BY DEF StartRound, RoundOver, AllIdle, Min2, TypeOK, Least
  <1>5. Accounted'
    <2>1. \A e \in Elements : AtWork(e) => \E w \in Workers : hand[w] = e
      BY NoMembers DEF StartRound, RoundOver, AtWork
    <2>2. ~ \E e \in Elements, w \in Workers : hand[w] = e
      BY DEF StartRound, RoundOver, AllIdle, TypeOK
    <2>3. ASSUME NEW e \in Elements, InFile(e) PROVE InFile(e)' \/ AtWork(e)'
      <3>1. PICK b \in taken + 1 .. Len(Blobs) : e \in Members(Blobs[b])
        BY <2>3 DEF InFile
      <3>2. taken' \in Nat /\ taken \in Nat /\ b \in Tasks
        BY DEF StartRound, Min2, TypeOK, Tasks
      <3>3. CASE b <= taken'
        <4>1. left'[b] = Blobs[b]
          BY <3>1, <3>2, <3>3 DEF StartRound
        <4> QED BY <3>1, <3>2, <4>1 DEF AtWork
      <3>4. CASE b > taken'
        <4>1. b \in taken' + 1 .. Len(Blobs)
          BY <3>2, <3>4, StillAhead
        <4> QED BY <3>1, <4>1 DEF InFile
      <3> QED BY <3>2, <3>3, <3>4
    <2> QED BY <2>1, <2>2, <2>3 DEF StartRound, Accounted
  <1>6. Phases'
    BY DEF StartRound, RoundOver, AllIdle, Min2, TypeOK, Phases, Stuck, Parts
  <1>7. Passes'
    BY DEF StartRound, RoundOver, AllIdle, Min2, TypeOK, Passes, OutOfQueue, Stuck, Parts
  <1> QED BY <1>1, <1>2, <1>3, <1>4, <1>5, <1>6, <1>7 DEF IInv

(* The retries begin. *)
LEMMA StartRetryKeeps ==
    ASSUME IInv, StartRetry
    PROVE  IInv'
  <1> USE ConstantFacts DEF IInv, writing
  <1>1. TypeOK'
    BY DEF StartRetry, RoundOver, AllIdle, TypeOK
  <1>2. Looked'
    BY DEF StartRetry, RoundOver, AllIdle, TypeOK, Looked, Stuck, Parts
  <1>3. Known'
    BY DEF StartRetry, RoundOver, AllIdle, TypeOK, Known, Stuck, Parts
  <1>4. Least'
    BY DEF StartRetry, RoundOver, AllIdle, TypeOK, Least
  <1>5. Accounted'
    BY DEF StartRetry, RoundOver, AllIdle, TypeOK, Accounted, InFile, AtWork
  <1>6. Phases'
    BY DEF StartRetry, RoundOver, AllIdle, TypeOK, Phases, Stuck, Parts
  <1>7. Passes'
    BY DEF StartRetry, RoundOver, AllIdle, TypeOK, Passes, OutOfQueue, Stuck, Parts
  <1> QED BY <1>1, <1>2, <1>3, <1>4, <1>5, <1>6, <1>7 DEF IInv

(* Main takes from the queue. *)
LEMMA PopFrontKeeps ==
    ASSUME IInv, PopFront
    PROVE  IInv'
  <1> USE ConstantFacts DEF IInv, writing
  <1>a. /\ queue # <<>> /\ Head(queue) \in Elements /\ Tail(queue) \in Seq(Elements)
        /\ Len(Tail(queue)) = Len(queue) - 1
        /\ \A i \in 1 .. Len(queue) - 1 : Tail(queue)[i] = queue[i + 1]
        /\ Members(queue) = {Head(queue)} \cup Members(Tail(queue))
    BY MembersOfTail DEF PopFront, TypeOK, Passes
  <1>1. TypeOK'
    BY <1>a DEF PopFront, Start, TypeOK
  <1>2. Looked'
    BY DEF PopFront, Start, TypeOK, Looked, Stuck, Parts
  <1>3. Known'
    BY DEF PopFront, Start, TypeOK, Known, Stuck, Parts
  <1>4. Least'
    BY DEF PopFront, Start, TypeOK, Least
  <1>5. Accounted'
    <2>1. hand'[Main] = Head(queue) /\ queue' = Tail(queue) /\ hand[Main] = NoElement
      BY DEF PopFront, Start, TypeOK
    <2>2. \A v \in Workers : v # Main => hand'[v] = hand[v]
      BY DEF PopFront, Start, TypeOK
    <2>3. \A e \in Elements : AtWork(e) \/ e = Head(queue) => AtWork(e)'
      BY <2>1, <2>2 DEF PopFront, AtWork
    <2> QED BY <1>a, <2>1, <2>3 DEF PopFront, Accounted, InFile
  <1>6. Phases'
    BY DEF PopFront, Start, TypeOK, Phases, Stuck, Parts
  <1>7. Passes'
    <2>1. OutOfQueue = 0 /\ OutOfQueue' = 1 /\ stage'[Main] = "look"
      BY DEF PopFront, Start, OutOfQueue, TypeOK
    <2>2. \A e : Stuck(e)' <=> Stuck(e)
      BY DEF PopFront, Stuck
    <2>3. /\ phase = "retry" /\ queue' = Tail(queue) /\ togo' = togo - 1 /\ len' = len
          /\ togo \in Nat \ {0} /\ len \in Nat /\ Len(queue) \in Nat
      BY DEF PopFront, TypeOK
    <2>4. Len(queue) = len => \A i \in togo + 1 .. Len(queue) : Stuck(queue[i])
      BY <2>1, <2>3 DEF Passes
    <2>5. \A i \in togo' + 1 .. Len(queue') : /\ i \in 1 .. Len(queue) - 1
                                            /\ i + 1 \in togo + 1 .. Len(queue)
                                            /\ queue'[i] = queue[i + 1]
      BY <1>a, <2>3
    <2>6. Len(queue') + OutOfQueue' = len' =>
             \A i \in togo' + 1 .. Len(queue') : Stuck(queue'[i])
      BY <1>a, <2>1, <2>3, <2>4, <2>5
    <2>7. togo <= Len(queue) /\ Len(queue) + OutOfQueue <= len
      BY <2>3 DEF Passes
    <2>8. togo' <= Len(queue') /\ Len(queue') + OutOfQueue' <= len'
      BY <1>a, <2>1, <2>3, <2>7
    <2> QED BY <2>1, <2>2, <2>6, <2>8 DEF Passes
  <1> QED BY <1>1, <1>2, <1>3, <1>4, <1>5, <1>6, <1>7 DEF IInv

(* Another pass begins. *)
LEMMA PassAgainKeeps ==
    ASSUME IInv, PassAgain
    PROVE  IInv'
  <1> USE ConstantFacts DEF IInv, writing
  <1>1. TypeOK'
    BY DEF PassAgain, PassOver, TypeOK
  <1>2. Looked'
    BY DEF PassAgain, PassOver, TypeOK, Looked, Stuck, Parts
  <1>3. Known'
    BY DEF PassAgain, PassOver, TypeOK, Known, Stuck, Parts
  <1>4. Least'
    BY DEF PassAgain, PassOver, TypeOK, Least
  <1>5. Accounted'
    BY DEF PassAgain, PassOver, TypeOK, Accounted, InFile, AtWork
  <1>6. Phases'
    BY DEF PassAgain, PassOver, TypeOK, Phases, Stuck, Parts
  <1>7. Passes'
    BY DEF PassAgain, PassOver, TypeOK, Passes, OutOfQueue, Stuck, Parts
  <1> QED BY <1>1, <1>2, <1>3, <1>4, <1>5, <1>6, <1>7 DEF IInv

(* The queue is reported. *)
LEMMA ReportKeeps ==
    ASSUME IInv, Report
    PROVE  IInv'
  <1> USE ConstantFacts DEF IInv, writing
  <1>a. Queued = Members(queue)
    BY DEF Queued, Members
  <1>b. \A e \in Queued : Stuck(e)
    BY DEF Report, PassOver, OutOfQueue, Queued, Passes, TypeOK
  <1>c. Queued \subseteq Elements /\ <<>> \in Seq(Elements)
    BY DEF Queued, TypeOK
  <1>1. TypeOK'
    BY <1>c DEF Report, TypeOK
  <1>2. Looked'
    BY DEF Report, PassOver, OutOfQueue, TypeOK, Looked, Stuck, Parts
  <1>3. Known'
    BY DEF Report, PassOver, OutOfQueue, TypeOK, Known, Stuck, Parts
  <1>4. Least'
    BY DEF Report, PassOver, OutOfQueue, TypeOK, Least
  <1>5. Accounted'
    BY <1>a DEF Report, PassOver, Phases, Accounted, InFile, AtWork
  <1>6. Phases'
    BY <1>b DEF Report, PassOver, Phases, Stuck
  <1>7. Passes'
    BY DEF Report, Passes
  <1> QED BY <1>1, <1>2, <1>3, <1>4, <1>5, <1>6, <1>7 DEF IInv

-----------------------------------------------------------------------------
(* The invariant, and what it says of the end. *)

(* The invariant holds at the start. *)
LEMMA InitIInv == Init => IInv
  <1> SUFFICES ASSUME Init PROVE IInv
    OBVIOUS
  <1> USE ConstantFacts DEF Init
  <1>1. TypeOK
    BY DEF TypeOK
  <1>2. Looked /\ Known /\ Least /\ Phases /\ Passes
    BY DEF Looked, Known, Least, Phases, Passes
  <1>3. ASSUME NEW e \in Elements PROVE InFile(e)
    <2>1. PICK b \in 1 .. Len(Blobs) : \E i \in 1 .. Len(Blobs[b]) : Blobs[b][i] = e
      BY EachOnce
    <2> QED BY <2>1 DEF InFile, Members
  <1> QED BY <1>1, <1>2, <1>3 DEF IInv, Accounted

(* Every step keeps it. *)
LEMMA NextIInv == IInv /\ [Next]_vars => IInv'
  <1> SUFFICES ASSUME IInv, [Next]_vars PROVE IInv'
    OBVIOUS
  <1>1. ASSUME NEW w \in Workers, WriteElement(w) PROVE IInv'
    BY <1>1, LookUpKeeps, PushBackKeeps, PutBoxKeeps, StoreKeeps DEF WriteElement
  <1>2. ASSUME NEW t \in Tasks, Take(t) PROVE IInv'
    BY <1>2, TakeKeeps
  <1>3. CASE StartRound \/ StartRetry \/ PopFront \/ PassAgain \/ Report
    BY <1>3, StartRoundKeeps, StartRetryKeeps, PopFrontKeeps, PassAgainKeeps, ReportKeeps
  <1>4. CASE UNCHANGED vars
    <2> USE <1>4 DEF vars, writing, IInv
    <2>1. TypeOK' /\ Looked' /\ Known'
      BY DEF TypeOK, Looked, Known, Stuck
    <2>2. Least' /\ Phases' /\ Passes'
      BY DEF Least, Phases, Passes, OutOfQueue, Stuck
    <2>3. Accounted'
      BY DEF Accounted, InFile, AtWork
    <2> QED BY <2>1, <2>2, <2>3
  <1> QED BY <1>1, <1>2, <1>3, <1>4 DEF Next, Step, Done

(* Whatever happens in which order, an element is never lost from sight,   *)
(* has its box after all its parts, and gets no box it could not have; a   *)
(* pass that shortened nothing has put back stuck elements only.           *)
THEOREM CompressorInvariant == Spec => []IInv
  <1> QED BY InitIInv, NextIInv, PTL DEF Spec

(* In the end the elements with a box are the least closed set, and the    *)
(* note has all others, for every file, every order of the tasks and every *)
(* number of attempts, one being enough.                                   *)
THEOREM OnlyTheStuckAreLeftOut == Spec => []LeftOutOnlyIfStuck
  <1>1. IInv => LeftOutOnlyIfStuck
    <2> SUFFICES ASSUME IInv, phase = "done"
                 PROVE  /\ Closed(cache)
                        /\ \A S \in SUBSET Elements : Closed(S) => cache \subseteq S
                        /\ incomplete = Elements \ cache
      BY DEF LeftOutOnlyIfStuck
    <2> USE ConstantFacts DEF IInv
    <2>1. ASSUME NEW e \in Elements PROVE e \in cache \/ e \in incomplete
      <3>1. ~ InFile(e)
        BY DEF InFile, Phases
      <3>2. ~ AtWork(e)
        BY NoMembers DEF AtWork, Phases, TypeOK
      <3>3. e \notin Members(queue)
        BY NoMembers DEF Phases
      <3> QED BY <3>1, <3>2, <3>3 DEF Accounted
    <2>2. incomplete \cap cache = {}
      BY DEF Phases, Known
    <2>3. incomplete = Elements \ cache
      BY <2>1, <2>2 DEF TypeOK
    <2>4. Closed(cache)
      BY <2>1, ClosedMeans DEF Phases, Stuck
    <2> QED BY <2>3, <2>4 DEF Least
  <1> QED BY <1>1, CompressorInvariant, PTL

-----------------------------------------------------------------------------
(* OneFate: an element is in no two places.                                *)

Once(s) == \A i, j \in 1 .. Len(s) : s[i] = s[j] => i = j

(* Before an element has a box. *)
InLeft(e) == \E t \in Tasks : e \in Members(left[t])
InHand(e) == \E w \in Workers : hand[w] = e

(* No place has an element twice, *)
LeftOnce ==
    /\ \A t \in Tasks : Once(left[t])
    /\ \A t, u \in Tasks : t # u => Members(left[t]) \cap Members(left[u]) = {}
HandOnce == \A v, w \in Workers : hand[v] = hand[w] => v = w \/ hand[v] = NoElement

(* and no two places have it. *)
Apart ==
    \A e \in Elements :
       /\ InFile(e) => ~ InLeft(e) /\ ~ InHand(e) /\ e \notin Members(queue)
       /\ InLeft(e) => ~ InHand(e) /\ e \notin Members(queue)
       /\ InHand(e) => e \notin Members(queue)
       /\ InFile(e) \/ InLeft(e) \/ e \in Members(queue) => e \notin cache
       /\ e \in incomplete => ~ InHand(e)

(* What has a box is stored, or a worker is about to store it, unless it   *)
(* is an empty node.                                                       *)
HasBox ==
    /\ geography \subseteq cache \ Empty
    /\ \A w \in Workers : /\ stage[w] = "store" => hand[w] \notin Empty \cup geography
                          /\ hand[w] \in cache => stage[w] = "store"
    /\ \A e \in cache : e \in geography \/ e \in Empty \/ InHand(e)

OneInv == LeftOnce /\ HandOnce /\ Once(queue) /\ Apart /\ HasBox

(* The tail has what the head is not. *)
LEMMA TailOnce ==
    ASSUME NEW X, NEW s \in Seq(X), s # <<>>, Once(s)
    PROVE  Once(Tail(s)) /\ Head(s) \notin Members(Tail(s))
  <1>1. /\ Head(s) = s[1] /\ Len(s) \in Nat \ {0} /\ Len(Tail(s)) = Len(s) - 1
        /\ \A i \in 1 .. Len(s) - 1 : Tail(s)[i] = s[i + 1]
    OBVIOUS
  <1>2. \A i \in 1 .. Len(s) - 1 : i + 1 \in 1 .. Len(s) /\ i + 1 # 1 /\ 1 \in 1 .. Len(s)
    BY <1>1
  <1>3. Once(Tail(s))
    BY <1>1, <1>2 DEF Once
  <1>4. Head(s) \notin Members(Tail(s))
    BY <1>1, <1>2 DEF Once, Members
  <1> QED BY <1>3, <1>4

(* A new element may be appended. *)
LEMMA AppendOnce ==
    ASSUME NEW X, NEW s \in Seq(X), NEW e \in X, Once(s), e \notin Members(s)
    PROVE  Once(Append(s, e))
  <1>1. /\ Len(Append(s, e)) = Len(s) + 1 /\ Len(s) \in Nat
        /\ \A i \in 1 .. Len(s) : Append(s, e)[i] = s[i] /\ s[i] # e
        /\ Append(s, e)[Len(s) + 1] = e
    BY MembersOfAppend DEF Members
  <1>2. \A i \in 1 .. Len(s) + 1 : i \in 1 .. Len(s) \/ i = Len(s) + 1
    BY <1>1
  <1> QED BY <1>1, <1>2 DEF Once

(* No element is in two blobs, or twice in one. *)
LEMMA BlobsOnce ==
    /\ \A b \in Tasks : Once(Blobs[b])
    /\ \A b, c \in Tasks : b # c => Members(Blobs[b]) \cap Members(Blobs[c]) = {}
  <1>1. \A b \in Tasks : \A i \in 1 .. Len(Blobs[b]) : Blobs[b][i] \in Elements
    BY ConstantFacts
  <1>2. ASSUME NEW b \in Tasks, NEW c \in Tasks,
               NEW i \in 1 .. Len(Blobs[b]), NEW j \in 1 .. Len(Blobs[c]),
               Blobs[b][i] = Blobs[c][j]
        PROVE  b = c /\ i = j
    BY <1>1, <1>2, EachOnce DEF Tasks
  <1> QED BY <1>2 DEF Once, Members

(* A part is looked up. *)
LEMMA LookUpOnce ==
    ASSUME IInv, OneInv, NEW w \in Workers, LookUp(w)
    PROVE  OneInv'
  <1> USE ConstantFacts DEF OneInv
  <1>1. \A v \in Workers : stage'[v] = stage[v] \/ (v = w /\ stage[v] = "look" /\ stage'[v] = "queue")
    BY DEF LookUp, IInv, TypeOK
  <1>2. LeftOnce' /\ HandOnce' /\ Once(queue)'
    BY DEF LookUp, LeftOnce, HandOnce
  <1>3. Apart'
    BY DEF LookUp, Apart, InFile, InLeft, InHand
  <1>4. HasBox'
    BY <1>1 DEF LookUp, HasBox, InHand
  <1> QED BY <1>2, <1>3, <1>4

(* An element goes back to the queue. *)
LEMMA PushBackOnce ==
    ASSUME IInv, OneInv, NEW w \in Workers, PushBack(w)
    PROVE  OneInv'
  <1> USE ConstantFacts DEF OneInv
  <1>1. /\ hand[w] \in Elements /\ queue \in Seq(Elements)
        /\ hand[w] \notin cache /\ stage[w] = "queue"
    BY DEF PushBack, IInv, TypeOK, HasBox
  <1>2. /\ hand'[w] = NoElement /\ stage'[w] = "idle"
        /\ \A v \in Workers : v # w => hand'[v] = hand[v] /\ stage'[v] = stage[v]
        /\ left' = left /\ taken' = taken /\ cache' = cache /\ geography' = geography
        /\ queue' = Append(queue, hand[w]) /\ incomplete' = incomplete
    BY DEF PushBack, Finish, IInv, TypeOK
  <1>3. Members(queue') = Members(queue) \cup {hand[w]} /\ Once(queue')
    <2>1. hand[w] \notin Members(queue)
      BY <1>1 DEF Apart, InHand
    <2> QED BY <1>1, <1>2, <2>1, MembersOfAppend, AppendOnce
  <1>4. \A e \in Elements : InHand(e)' <=> InHand(e) /\ e # hand[w]
    BY <1>1, <1>2 DEF InHand, HandOnce
  <1>5. LeftOnce' /\ HandOnce'
    BY <1>2 DEF LeftOnce, HandOnce
  <1>6. Apart'
    <2>1. \A e : (InFile(e)' <=> InFile(e)) /\ (InLeft(e)' <=> InLeft(e))
      BY <1>2 DEF InFile, InLeft
    <2>2. InHand(hand[w])
      BY DEF InHand
    <2> QED BY <1>1, <1>2, <1>3, <1>4, <2>1, <2>2 DEF Apart
  <1>7. HasBox'
    <2>1. \A v \in Workers : /\ stage'[v] = "store" => hand'[v] \notin Empty \cup geography'
                             /\ hand'[v] \in cache' => stage'[v] = "store"
      BY <1>1, <1>2 DEF HasBox, IInv, TypeOK
    <2>2. \A e \in cache' : e \in geography' \/ e \in Empty \/ InHand(e)'
      BY <1>1, <1>2, <1>4 DEF HasBox, IInv, TypeOK
    <2> QED BY <1>2, <2>1, <2>2 DEF HasBox
  <1> QED BY <1>3, <1>5, <1>6, <1>7

(* An element gets its box. *)
LEMMA PutBoxOnce ==
    ASSUME IInv, OneInv, NEW w \in Workers, PutBox(w)
    PROVE  OneInv'
  <1> USE ConstantFacts DEF OneInv
  <1>1. /\ hand[w] \in Elements /\ hand[w] \notin cache /\ stage[w] = "look"
        /\ cache \subseteq Elements /\ geography \subseteq Elements
    BY DEF PutBox, IInv, TypeOK, HasBox
  <1>2. /\ left' = left /\ taken' = taken /\ geography' = geography
        /\ queue' = queue /\ incomplete' = incomplete /\ cache' = cache \cup {hand[w]}
    BY DEF PutBox, Finish
  <1>3. /\ \A v \in Workers : v # w => hand'[v] = hand[v] /\ stage'[v] = stage[v]
        /\ hand[w] \in Empty => hand'[w] = NoElement /\ stage'[w] = "idle"
        /\ hand[w] \notin Empty => hand'[w] = hand[w] /\ stage'[w] = "store"
    BY DEF PutBox, Finish, IInv, TypeOK
  <1>4. \A e \in Elements : InHand(e)' <=> InHand(e) /\ ~ (e = hand[w] /\ e \in Empty)
    BY <1>1, <1>3 DEF InHand, HandOnce
  <1>5. LeftOnce' /\ HandOnce' /\ Once(queue)'
    BY <1>2, <1>3 DEF LeftOnce, HandOnce
  <1>6. Apart'
    <2>1. \A e : (InFile(e)' <=> InFile(e)) /\ (InLeft(e)' <=> InLeft(e))
      BY <1>2 DEF InFile, InLeft
    <2>2. InHand(hand[w])
      BY DEF InHand
    <2> QED BY <1>1, <1>2, <1>4, <2>1, <2>2 DEF Apart
  <1>7. HasBox'
    <2>1. ASSUME NEW v \in Workers
          PROVE  /\ stage'[v] = "store" => hand'[v] \notin Empty \cup geography'
                 /\ hand'[v] \in cache' => stage'[v] = "store"
      <3>1. CASE v = w
        BY <1>1, <1>2, <1>3, <3>1 DEF HasBox
      <3>2. CASE v # w
        BY <1>1, <1>2, <1>3, <3>2 DEF HasBox, HandOnce
      <3> QED BY <3>1, <3>2
    <2>2. \A e \in cache' : e \in geography' \/ e \in Empty \/ InHand(e)'
      <3>1. InHand(hand[w])
        BY DEF InHand
      <3> QED BY <1>1, <1>2, <1>4, <3>1 DEF HasBox
    <2> QED BY <1>2, <2>1, <2>2 DEF HasBox
  <1> QED BY <1>5, <1>6, <1>7

(* An element is stored. *)
LEMMA StoreOnce ==
    ASSUME IInv, OneInv, NEW w \in Workers, Store(w)
    PROVE  OneInv'
  <1> USE ConstantFacts DEF OneInv
  <1>1. /\ hand[w] \in Elements /\ stage[w] = "store" /\ hand[w] \in cache
        /\ hand[w] \notin Empty /\ cache \subseteq Elements
    BY DEF Store, IInv, TypeOK, HasBox, Looked
  <1>2. /\ hand'[w] = NoElement /\ stage'[w] = "idle"
        /\ \A v \in Workers : v # w => hand'[v] = hand[v] /\ stage'[v] = stage[v]
        /\ left' = left /\ taken' = taken /\ cache' = cache
        /\ geography' = geography \cup {hand[w]}
        /\ queue' = queue /\ incomplete' = incomplete
    BY DEF Store, Finish, IInv, TypeOK
  <1>4. \A e \in Elements : InHand(e)' <=> InHand(e) /\ e # hand[w]
    BY <1>1, <1>2 DEF InHand, HandOnce
  <1>5. LeftOnce' /\ HandOnce' /\ Once(queue)'
    BY <1>2 DEF LeftOnce, HandOnce
  <1>6. Apart'
    <2>1. \A e : (InFile(e)' <=> InFile(e)) /\ (InLeft(e)' <=> InLeft(e))
      BY <1>2 DEF InFile, InLeft
    <2> QED BY <1>2, <1>4, <2>1 DEF Apart
  <1>7. HasBox'
    <2>1. \A v \in Workers : /\ stage'[v] = "store" => hand'[v] \notin Empty \cup geography'
                             /\ hand'[v] \in cache' => stage'[v] = "store"
      BY <1>1, <1>2 DEF HasBox, HandOnce, IInv, TypeOK
    <2>2. \A e \in cache' : e \in geography' \/ e \in Empty \/ InHand(e)'
      BY <1>1, <1>2, <1>4 DEF HasBox
    <2> QED BY <1>1, <1>2, <2>1, <2>2 DEF HasBox
  <1> QED BY <1>5, <1>6, <1>7

(* A task takes its next element. *)
LEMMA TakeOnce ==
    ASSUME IInv, OneInv, NEW t \in Tasks, Take(t)
    PROVE  OneInv'
  <1> USE ConstantFacts DEF OneInv
  <1> DEFINE h == Head(left[t])
  <1>1. /\ left[t] \in Seq(Elements) /\ left[t] # <<>> /\ h \in Elements
        /\ Members(left[t]) = {h} \cup Members(Tail(left[t]))
        /\ Once(Tail(left[t])) /\ h \notin Members(Tail(left[t]))
    <2>1. left[t] \in Seq(Elements) /\ left[t] # <<>> /\ Once(left[t])
      BY DEF Take, LeftOnce, IInv, TypeOK
    <2> QED BY <2>1, MembersOfTail, TailOnce
  <1>2. /\ hand'[t] = h /\ stage'[t] = "look" /\ hand[t] = NoElement /\ t \in Workers
        /\ \A v \in Workers : v # t => hand'[v] = hand[v] /\ stage'[v] = stage[v]
        /\ left'[t] = Tail(left[t]) /\ \A u \in Tasks : u # t => left'[u] = left[u]
        /\ taken' = taken /\ cache' = cache /\ geography' = geography
        /\ queue' = queue /\ incomplete' = incomplete
    BY DEF Take, Start, IInv, TypeOK
  <1>3. InLeft(h) /\ \A u \in Tasks : u # t => h \notin Members(left[u])
    BY <1>1 DEF InLeft, LeftOnce
  <1> HIDE DEF h
  <1>4. \A e \in Elements : /\ InHand(e)' <=> InHand(e) \/ e = h
                            /\ InLeft(e)' <=> InLeft(e) /\ e # h
                            /\ InFile(e)' <=> InFile(e)
    <2>1. \A e \in Elements : InHand(e)' <=> InHand(e) \/ e = h
      BY <1>2 DEF InHand
    <2>2. \A e \in Elements : InLeft(e)' <=> InLeft(e) /\ e # h
      BY <1>1, <1>2, <1>3 DEF InLeft
    <2> QED BY <1>2, <2>1, <2>2 DEF InFile
  <1>5. h \notin cache /\ h \notin incomplete /\ ~ InHand(h)
    <2>1. incomplete = {}
      BY <1>1 DEF Take, IInv, Phases
    <2> QED BY <1>1, <1>3, <2>1 DEF Apart
  <1>6. LeftOnce'
    BY <1>1, <1>2 DEF LeftOnce
  <1>7. HandOnce' /\ Once(queue)'
    BY <1>2, <1>5 DEF HandOnce, InHand
  <1>8. Apart'
    BY <1>1, <1>2, <1>3, <1>4, <1>5 DEF Apart
  <1>9. HasBox'
    <2>1. \A v \in Workers : /\ stage'[v] = "store" => hand'[v] \notin Empty \cup geography'
                             /\ hand'[v] \in cache' => stage'[v] = "store"
      BY <1>2, <1>5 DEF HasBox
    <2>2. \A e \in cache' : e \in geography' \/ e \in Empty \/ InHand(e)'
      BY <1>2, <1>4 DEF HasBox, IInv, TypeOK
    <2> QED BY <1>2, <2>1, <2>2 DEF HasBox
  <1> QED BY <1>6, <1>7, <1>8, <1>9

(* A round begins: its blobs go from the file to the tasks. *)
LEMMA StartRoundOnce ==
    ASSUME IInv, OneInv, StartRound
    PROVE  OneInv'
  <1> USE ConstantFacts DEF OneInv
  <1>1. /\ taken' \in Nat /\ taken \in Nat /\ taken <= taken'
        /\ UNCHANGED <<hand, stage, cache, geography, queue, incomplete>>
    BY DEF StartRound, Min2, IInv, TypeOK
  <1>2. \A t \in Tasks : /\ t \in Nat
                         /\ taken < t /\ t <= taken' => left'[t] = Blobs[t]
                         /\ ~ (taken < t /\ t <= taken') => left'[t] = <<>>
    BY DEF StartRound, Tasks
  <1>3. \A e \in Elements : InLeft(e)' => InFile(e)
    <2> SUFFICES ASSUME NEW t \in Tasks, NEW e \in Members(left'[t])
                 PROVE  InFile(e)
      BY DEF InLeft
    <2>1. taken < t /\ t <= taken' /\ e \in Members(Blobs[t])
      BY <1>2, NoMembers
    <2> QED BY <1>1, <1>2, <2>1 DEF InFile, Tasks
  <1>4. \A e \in Elements : InFile(e)' => InFile(e) /\ ~ InLeft(e)'
    <2> SUFFICES ASSUME NEW e \in Elements, NEW b \in taken' + 1 .. Len(Blobs),
                        e \in Members(Blobs[b])
                 PROVE  InFile(e) /\ ~ InLeft(e)'
      BY DEF InFile, StartRound
    <2>0. Len(Blobs) \in Nat
      OBVIOUS
    <2>1. b \in taken + 1 .. Len(Blobs) /\ b \in Tasks /\ ~ (b <= taken')
      BY <1>1, <2>0, FurtherAhead DEF Tasks
    <2>2. ASSUME NEW t \in Tasks, e \in Members(left'[t]) PROVE FALSE
      <3>1. t <= taken' /\ e \in Members(Blobs[t])
        BY <1>2, <2>2, NoMembers
      <3> QED BY <2>1, <3>1, BlobsOnce
    <2> QED BY <2>1, <2>2 DEF InFile, InLeft
  <1>5. LeftOnce'
    <2>1. Once(<<>>)
      BY DEF Once
    <2> QED BY <1>2, <2>1, NoMembers, BlobsOnce DEF LeftOnce
  <1>6. Apart'
    <2>1. \A e : InHand(e)' <=> InHand(e)
      BY <1>1 DEF InHand
    <2> QED BY <1>1, <1>3, <1>4, <2>1 DEF Apart
  <1>7. HandOnce' /\ Once(queue)' /\ HasBox'
    BY <1>1 DEF HandOnce, HasBox, InHand
  <1> QED BY <1>5, <1>6, <1>7

(* Main takes from the queue. *)
LEMMA PopFrontOnce ==
    ASSUME IInv, OneInv, PopFront
    PROVE  OneInv'
  <1> USE ConstantFacts DEF OneInv
  <1> DEFINE h == Head(queue)
  <1>1. /\ queue \in Seq(Elements) /\ queue # <<>> /\ h \in Elements
        /\ Members(queue) = {h} \cup Members(Tail(queue))
        /\ Once(Tail(queue)) /\ h \notin Members(Tail(queue))
    <2>1. queue \in Seq(Elements) /\ queue # <<>>
      BY DEF PopFront, Passes, IInv, TypeOK
    <2> QED BY <2>1, MembersOfTail, TailOnce
  <1>2. /\ hand'[Main] = h /\ stage'[Main] = "look" /\ hand[Main] = NoElement
        /\ \A v \in Workers : v # Main => hand'[v] = hand[v] /\ stage'[v] = stage[v]
        /\ left' = left /\ taken' = taken /\ cache' = cache /\ geography' = geography
        /\ queue' = Tail(queue) /\ incomplete' = incomplete
    BY DEF PopFront, Start, IInv, TypeOK
  <1> HIDE DEF h
  <1>3. \A e \in Elements : /\ InHand(e)' <=> InHand(e) \/ e = h
                            /\ InLeft(e)' <=> InLeft(e)
                            /\ InFile(e)' <=> InFile(e)
    <2>1. \A e \in Elements : InHand(e)' <=> InHand(e) \/ e = h
      BY <1>2 DEF InHand
    <2> QED BY <1>2, <2>1 DEF InLeft, InFile
  <1>4. /\ h \notin cache /\ h \notin incomplete
        /\ ~ InHand(h) /\ ~ InLeft(h) /\ ~ InFile(h)
    <2>1. incomplete = {}
      BY DEF PopFront, IInv, Phases
    <2> QED BY <1>1, <2>1 DEF Apart
  <1>5. LeftOnce' /\ HandOnce' /\ Once(queue)'
    <2>1. LeftOnce' /\ Once(queue)'
      BY <1>1, <1>2 DEF LeftOnce
    <2>2. HandOnce'
      BY <1>2, <1>4 DEF HandOnce, InHand
    <2> QED BY <2>1, <2>2
  <1>6. Apart'
    BY <1>1, <1>2, <1>3, <1>4 DEF Apart
  <1>7. HasBox'
    <2>1. \A v \in Workers : /\ stage'[v] = "store" => hand'[v] \notin Empty \cup geography'
                             /\ hand'[v] \in cache' => stage'[v] = "store"
      BY <1>2, <1>4 DEF HasBox
    <2>2. \A e \in cache' : e \in geography' \/ e \in Empty \/ InHand(e)'
      BY <1>2, <1>3 DEF HasBox, IInv, TypeOK
    <2> QED BY <1>2, <2>1, <2>2 DEF HasBox
  <1> QED BY <1>5, <1>6, <1>7

(* The queue is reported. *)
LEMMA ReportOnce ==
    ASSUME IInv, OneInv, Report
    PROVE  OneInv'
  <1> USE ConstantFacts DEF OneInv
  <1>1. /\ UNCHANGED <<taken, left, hand, stage, cache, geography>>
        /\ queue' = <<>> /\ incomplete' = Members(queue)
    BY DEF Report, writing, Queued, Members
  <1>2. LeftOnce' /\ HandOnce' /\ HasBox'
    BY <1>1 DEF LeftOnce, HandOnce, HasBox, InHand
  <1>4. Once(queue)'
    BY <1>1 DEF Once
  <1>3. Apart'
    BY <1>1, NoMembers DEF Apart, InFile, InLeft, InHand
  <1> QED BY <1>2, <1>3, <1>4

(* It holds at the start. *)
LEMMA InitOneInv == Init => OneInv
  <1> SUFFICES ASSUME Init PROVE OneInv
    OBVIOUS
  <1> USE ConstantFacts, NoMembers DEF Init
  <1>1. LeftOnce /\ HandOnce /\ Once(queue)
    BY DEF LeftOnce, HandOnce, Once
  <1>2. Apart /\ HasBox
    BY DEF Apart, HasBox, InFile, InLeft, InHand
  <1> QED BY <1>1, <1>2 DEF OneInv

(* Every step keeps it. *)
LEMMA NextOneInv == IInv /\ OneInv /\ [Next]_vars => OneInv'
  <1> SUFFICES ASSUME IInv, OneInv, [Next]_vars PROVE OneInv'
    OBVIOUS
  <1>1. ASSUME NEW w \in Workers, WriteElement(w) PROVE OneInv'
    BY <1>1, LookUpOnce, PushBackOnce, PutBoxOnce, StoreOnce DEF WriteElement
  <1>2. ASSUME NEW t \in Tasks, Take(t) PROVE OneInv'
    BY <1>2, TakeOnce
  <1>3. CASE StartRound \/ PopFront \/ Report
    BY <1>3, StartRoundOnce, PopFrontOnce, ReportOnce
  <1>4. CASE StartRetry \/ PassAgain \/ UNCHANGED vars
    <2>1. UNCHANGED <<taken, left, hand, stage, cache, geography, queue, incomplete>>
      BY <1>4 DEF StartRetry, PassAgain, vars, writing
    <2> QED BY <2>1 DEF OneInv, LeftOnce, HandOnce, Apart, HasBox, InFile, InLeft, InHand
  <1> QED BY <1>1, <1>2, <1>3, <1>4 DEF Next, Step, Done

(* A sequence of different elements is no longer than there are elements. *)
LEMMA ShortEnough ==
    ASSUME NEW s \in Seq(Elements), Once(s)
    PROVE  Len(s) <= Cardinality(Elements) /\ Cardinality(Elements) \in Nat
  <1>1. Len(s) \in Nat /\ s \in [1 .. Len(s) -> Elements]
    OBVIOUS
  <1>2. s \in Injection(1 .. Len(s), Elements)
    BY <1>1 DEF Once, Injection, IsInjective
  <1>3. Cardinality(1 .. Len(s)) <= Cardinality(Elements)
    BY <1>2, CompressorConstants, FS_Injection
  <1>4. Cardinality(1 .. Len(s)) = Len(s)
    BY <1>1, FS_Interval
  <1> QED BY <1>1, <1>3, <1>4, CompressorConstants, FS_CardinalityType

(* A set with one member, or none. *)
LEMMA CountsOne ==
    ASSUME NEW S, NEW P \in BOOLEAN, \A x, y \in S : x = y, P <=> S # {}
    PROVE  Cardinality(S) = IF P THEN 1 ELSE 0
  <1>1. CASE S = {}
    BY <1>1, FS_EmptySet
  <1>2. CASE S # {}
    <2>1. PICK x : S = {x}
      BY <1>2
    <2> QED BY <1>2, <2>1, FS_Singleton
  <1> QED BY <1>1, <1>2

(* However the tasks and the retries interleave, each element has one      *)
(* fate: write_element neither drops one nor lets two threads have it,     *)
(* what is in the tree has a box, and what is reported has none.           *)
THEOREM ElementsHaveOneFate == Spec => []OneFate
  <1>1. IInv /\ OneInv => OneFate
    <2> SUFFICES ASSUME IInv, OneInv PROVE OneFate
      OBVIOUS
    <2> USE ConstantFacts DEF OneInv
    <2>1. geography \subseteq cache /\ incomplete \cap cache = {}
      BY DEF HasBox, IInv, Phases, Known
    <2>2. ASSUME NEW e \in Elements PROVE Places(e) = 1
      <3> DEFINE Spots == Tasks \X (1 .. Cardinality(Elements))
                 A == {p \in Spots : /\ p[1] > taken /\ p[2] <= Len(Blobs[p[1]])
                                     /\ Blobs[p[1]][p[2]] = e}
                 B == {p \in Spots : p[2] <= Len(left[p[1]]) /\ left[p[1]][p[2]] = e}
                 C == {w \in Workers : hand[w] = e}
                 D == {i \in 1 .. Len(queue) : queue[i] = e}
                 F == {x \in {geography} : e \in x}
                 G == {x \in {incomplete} : e \in x}
                 H == {x \in {cache} : e \in x /\ e \in Empty}
      <3>1. Cardinality(A) = IF InFile(e) THEN 1 ELSE 0
        <4>1. ASSUME NEW p \in A, NEW q \in A PROVE p = q
          <5>1. /\ p[1] \in Tasks /\ p[2] \in 1 .. Len(Blobs[p[1]]) /\ Blobs[p[1]][p[2]] = e
                /\ q[1] \in Tasks /\ q[2] \in 1 .. Len(Blobs[q[1]]) /\ Blobs[q[1]][q[2]] = e
                /\ p = <<p[1], p[2]>> /\ q = <<q[1], q[2]>>
            BY DEF IInv, TypeOK
          <5>2. e \in Members(Blobs[p[1]]) /\ e \in Members(Blobs[q[1]])
            BY <5>1 DEF Members
          <5>3. p[1] = q[1]
            BY <5>1, <5>2, BlobsOnce
          <5> QED BY <5>1, <5>3, BlobsOnce DEF Once
        <4>2. ASSUME InFile(e) PROVE A # {}
          <5>1. PICK b \in taken + 1 .. Len(Blobs) : e \in Members(Blobs[b])
            BY <4>2 DEF InFile
          <5>2. b \in Tasks /\ b > taken
            BY <5>1 DEF Tasks, IInv, TypeOK
          <5>3. PICK i \in 1 .. Len(Blobs[b]) : Blobs[b][i] = e
            BY <5>1 DEF Members
          <5>4. i \in 1 .. Cardinality(Elements) /\ i <= Len(Blobs[b])
            BY <5>2, BlobsOnce, ShortEnough
          <5>5. <<b, i>> \in A
            BY <5>2, <5>3, <5>4
          <5> QED BY <5>5
        <4>3. ASSUME NEW p \in A PROVE InFile(e)
          <5>1. p[1] \in taken + 1 .. Len(Blobs) /\ p[2] \in 1 .. Len(Blobs[p[1]])
            BY DEF Tasks, IInv, TypeOK
          <5> QED BY <5>1 DEF InFile, Members
        <4> QED BY <4>1, <4>2, <4>3, CountsOne DEF InFile
      <3>2. Cardinality(B) = IF InLeft(e) THEN 1 ELSE 0
        <4>1. ASSUME NEW p \in B, NEW q \in B PROVE p = q
          <5>1. /\ p[1] \in Tasks /\ p[2] \in 1 .. Len(left[p[1]]) /\ left[p[1]][p[2]] = e
                /\ q[1] \in Tasks /\ q[2] \in 1 .. Len(left[q[1]]) /\ left[q[1]][q[2]] = e
                /\ p = <<p[1], p[2]>> /\ q = <<q[1], q[2]>>
            BY DEF IInv, TypeOK
          <5>2. e \in Members(left[p[1]]) /\ e \in Members(left[q[1]])
            BY <5>1 DEF Members
          <5>3. p[1] = q[1]
            BY <5>1, <5>2 DEF LeftOnce
          <5> QED BY <5>1, <5>3 DEF LeftOnce, Once
        <4>2. ASSUME InLeft(e) PROVE B # {}
          <5>1. PICK t \in Tasks : e \in Members(left[t])
            BY <4>2 DEF InLeft
          <5>2. left[t] \in Seq(Elements) /\ Once(left[t])
            BY DEF LeftOnce, IInv, TypeOK
          <5>3. PICK i \in 1 .. Len(left[t]) : left[t][i] = e
            BY <5>1 DEF Members
          <5>4. i \in 1 .. Cardinality(Elements) /\ i <= Len(left[t])
            BY <5>2, ShortEnough
          <5>5. <<t, i>> \in B
            BY <5>1, <5>3, <5>4
          <5> QED BY <5>5
        <4>3. ASSUME NEW p \in B PROVE InLeft(e)
          BY DEF InLeft, Members, IInv, TypeOK
        <4> QED BY <4>1, <4>2, <4>3, CountsOne DEF InLeft
      <3>3. Cardinality(C) = IF InHand(e) THEN 1 ELSE 0
        <4>1. (\A p, q \in C : p = q) /\ (InHand(e) <=> C # {})
          BY DEF InHand, HandOnce
        <4> QED BY <4>1, CountsOne DEF InHand
      <3>4. Cardinality(D) = IF e \in Members(queue) THEN 1 ELSE 0
        <4>1. (\A p, q \in D : p = q) /\ (e \in Members(queue) <=> D # {})
          BY DEF Once, Members
        <4> QED BY <4>1, CountsOne
      <3>5. Cardinality(F) = IF e \in geography THEN 1 ELSE 0
        <4>1. (\A p, q \in F : p = q) /\ (e \in geography <=> F # {})
          OBVIOUS
        <4> QED BY <4>1, CountsOne
      <3>6. Cardinality(G) = IF e \in incomplete THEN 1 ELSE 0
        <4>1. (\A p, q \in G : p = q) /\ (e \in incomplete <=> G # {})
          OBVIOUS
        <4> QED BY <4>1, CountsOne
      <3>7. Cardinality(H) = IF e \in cache /\ e \in Empty THEN 1 ELSE 0
        <4>1. (\A p, q \in H : p = q) /\ (e \in cache /\ e \in Empty <=> H # {})
          OBVIOUS
        <4> QED BY <4>1, CountsOne
      <3>8. Places(e) = Cardinality(A) + Cardinality(B) + Cardinality(C) + Cardinality(D)
                        + Cardinality(F) + Cardinality(G) + Cardinality(H)
        BY DEF Places
      <3> HIDE DEF A, B, C, D, F, G, H
      <3>9. /\ InFile(e) \/ InLeft(e) \/ InHand(e) \/ e \in Members(queue)
                \/ e \in geography \/ e \in incomplete \/ (e \in cache /\ e \in Empty)
            /\ InFile(e) => ~ InLeft(e) /\ ~ InHand(e) /\ e \notin Members(queue)
            /\ InLeft(e) => ~ InHand(e) /\ e \notin Members(queue)
            /\ InHand(e) => e \notin Members(queue)
        BY DEF IInv, Accounted, AtWork, InLeft, InHand, HasBox, Apart
      <3>10. /\ InFile(e) \/ InLeft(e) \/ e \in Members(queue) \/ e \in incomplete
                  => e \notin cache
             /\ InFile(e) \/ InLeft(e) \/ InHand(e) \/ e \in Members(queue)
                  => e \notin incomplete
             /\ InHand(e) => e \notin geography /\ ~ (e \in cache /\ e \in Empty)
             /\ e \in geography => e \in cache /\ e \notin Empty
        <4>1. InFile(e) \/ InLeft(e) \/ e \in Members(queue) => e \notin incomplete
          BY NoMembers DEF IInv, Phases, InFile, InLeft
        <4>2. InHand(e) => e \notin incomplete /\ e \notin geography /\ ~ (e \in cache /\ e \in Empty)
          BY DEF InHand, Apart, HasBox
        <4> QED BY <2>1, <4>1, <4>2 DEF Apart, HasBox
      <3> QED BY <3>1, <3>2, <3>3, <3>4, <3>5, <3>6, <3>7, <3>8, <3>9, <3>10
    <2> QED BY <2>1, <2>2 DEF OneFate
  <1>2. Spec => [](IInv /\ OneInv)
    BY InitIInv, NextIInv, InitOneInv, NextOneInv, PTL DEF Spec
  <1> QED BY <1>1, <1>2, PTL
=============================================================================
