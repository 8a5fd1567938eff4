--------------------------- MODULE BTreeVecProofs ---------------------------
(***************************************************************************)
(* Theorems about BTreeVec, for every set of keys and number of pushes and *)
(* rebuildings, and whatever number of keys a list is full with.           *)
(***************************************************************************)
EXTENDS BTreeVec, SequenceTheorems, FiniteSetTheorems, WellFoundedInduction, TLAPS

-----------------------------------------------------------------------------
(* Recursion: functions whose values are defined from those below, or from *)
(* those above.                                                            *)

(* A set of naturals that is not empty has a least member.                 *)
LEMMA LeastNat ==
  ASSUME NEW T, T \subseteq Nat, T # {}
  PROVE  \E x \in T : \A y \in T : x <= y
  <1> DEFINE R == OpToRel(<, Nat)
  <1>1. IsWellFoundedOn(R, Nat)
    BY NatLessThanWellFounded
  <1>2. \A x, y \in Nat : <<y, x>> \in R <=> y < x
    BY DEF OpToRel
  <1> HIDE DEF R
  <1>3. PICK x \in T : \A y \in T : ~ (<<y, x>> \in R)
    BY <1>1, WFMin
  <1>4. \A y \in T : ~ (y < x)
    BY <1>2, <1>3
  <1>5. QED
    BY <1>3, <1>4

(* A set of naturals that holds zero and with each of its members below n  *)
(* the next one holds all that are up to n.                                *)
LEMMA UpTo ==
  ASSUME NEW n \in Nat, NEW T, 0 \in T,
         \A i \in 0 .. n - 1 : i \in T => i + 1 \in T
  PROVE  \A i \in 0 .. n : i \in T
  <1> DEFINE Out == {i \in 0 .. n : i \notin T}
  <1>1. SUFFICES ASSUME Out # {} PROVE FALSE
    OBVIOUS
  <1>2. PICK x \in Out : \A y \in Out : x <= y
    <2>1. Out \subseteq Nat
      OBVIOUS
    <2> HIDE DEF Out
    <2>2. QED
      BY <1>1, <2>1, LeastNat
  <1>3. x # 0 /\ x - 1 \in 0 .. n - 1
    BY <1>2
  <1>4. x - 1 \in T
    BY <1>2, <1>3
  <1>5. QED
    BY <1>2, <1>3, <1>4

(* The same downwards.                                                     *)
LEMMA DownFrom ==
  ASSUME NEW n \in Nat, NEW T,
         \A l \in 1 .. n : (\A m \in l + 1 .. n : m \in T) => l \in T
  PROVE  \A l \in 1 .. n : l \in T
  <1> DEFINE Out == {i \in 0 .. n - 1 : n - i \notin T}
  <1>1. SUFFICES ASSUME NEW l \in 1 .. n, l \notin T PROVE FALSE
    OBVIOUS
  <1>2. n - l \in Out
    BY <1>1
  <1>3. PICK x \in Out : \A y \in Out : x <= y
    <2>1. Out \subseteq Nat
      OBVIOUS
    <2> HIDE DEF Out
    <2>2. QED
      BY <1>2, <2>1, LeastNat
  <1>4. n - x \in 1 .. n /\ n - x \notin T
    BY <1>3
  <1>5. \A m \in n - x + 1 .. n : m \in T
    <2>1. SUFFICES ASSUME NEW m \in n - x + 1 .. n, m \notin T PROVE FALSE
      OBVIOUS
    <2>2. n - m \in Out /\ ~ (x <= n - m)
      BY <1>3, <2>1
    <2>3. QED
      BY <1>3, <2>2
  <1>6. QED
    BY <1>4, <1>5

(* What makes a value from the one before, and from all that come after.   *)
Stepwise(n, S, G) == G \in [1 .. n -> [S -> S]]

FromAbove(n, S, G) == G \in [1 .. n -> [[1 .. n -> S] -> S]]

Above(n, f, l, d) == [m \in 1 .. n |-> IF m > l THEN f[m] ELSE d]

LEMMA UpwardRecursion ==
  ASSUME NEW n \in Nat, NEW S, NEW b \in S, NEW G, Stepwise(n, S, G)
  PROVE  \E f \in [0 .. n -> S] : f[0] = b /\ \A i \in 1 .. n : f[i] = G[i][f[i - 1]]
  <1> DEFINE Up(f, k) == f[0] = b /\ \A i \in 1 .. k : f[i] = G[i][f[i - 1]]
             T == {k \in 0 .. n : \E f \in [0 .. k -> S] : Up(f, k)}
  <1>1. 0 \in T
    <2>1. [i \in 0 .. 0 |-> b] \in [0 .. 0 -> S]
      OBVIOUS
    <2>2. Up([i \in 0 .. 0 |-> b], 0)
      OBVIOUS
    <2> HIDE DEF Up
    <2>3. QED
      BY <2>1, <2>2
  <1>2. ASSUME NEW k \in 0 .. n - 1, k \in T PROVE k + 1 \in T
    <2>1. PICK f \in [0 .. k -> S] : Up(f, k)
      BY <1>2
    <2> DEFINE g == [i \in 0 .. k + 1 |-> IF i = k + 1 THEN G[k + 1][f[k]] ELSE f[i]]
    <2>2. G[k + 1][f[k]] \in S
      BY <2>1 DEF Stepwise
    <2>3. g \in [0 .. k + 1 -> S]
      BY <2>1, <2>2
    <2>4. Up(g, k + 1)
      <3>1. g[0] = b
        BY <2>1
      <3>2. \A i \in 1 .. k + 1 : g[i - 1] = f[i - 1]
        OBVIOUS
      <3>3. \A i \in 1 .. k + 1 : g[i] = G[i][f[i - 1]]
        BY <2>1
      <3> HIDE DEF g
      <3>4. QED
        BY <3>1, <3>2, <3>3
    <2> HIDE DEF Up, g
    <2>5. QED
      BY <2>3, <2>4
  <1>3. n \in T
    <2> HIDE DEF T
    <2>1. \A k \in 0 .. n - 1 : k \in T => k + 1 \in T
      BY <1>2
    <2>2. \A k \in 0 .. n : k \in T
      BY <1>1, <2>1, UpTo
    <2>3. QED
      BY <2>2
  <1>4. QED
    BY <1>3

LEMMA DownwardRecursion ==
  ASSUME NEW n \in Nat, NEW S, NEW d \in S, NEW G, FromAbove(n, S, G)
  PROVE  \E f \in [1 .. n -> S] :
           \A l \in 1 .. n : f[l] = G[l][Above(n, f, l, d)]
  <1> DEFINE Down(f, k) == \A l \in k + 1 .. n : f[l] = G[l][Above(n, f, l, d)]
             T == {k \in 0 .. n : \E f \in [1 .. n -> S] : Down(f, n - k)}
  <1>1. 0 \in T
    <2>1. \A f : Down(f, n - 0)
      OBVIOUS
    <2>2. [m \in 1 .. n |-> d] \in [1 .. n -> S]
      OBVIOUS
    <2>3. 0 \in 0 .. n
      OBVIOUS
    <2> HIDE DEF Down
    <2>4. QED
      BY <2>1, <2>2, <2>3
  <1>2. ASSUME NEW k \in 0 .. n - 1, k \in T PROVE k + 1 \in T
    <2> DEFINE c == n - k
    <2>1. PICK f \in [1 .. n -> S] : Down(f, c)
      BY <1>2
    <2>2. c \in 1 .. n /\ n - (k + 1) = c - 1
      OBVIOUS
    <2> HIDE DEF c
    <2> DEFINE e == G[c][Above(n, f, c, d)]
               g == [m \in 1 .. n |-> IF m = c THEN e ELSE f[m]]
    <2>3. e \in S
      <3>1. Above(n, f, c, d) \in [1 .. n -> S]
        BY <2>1 DEF Above
      <3>2. G[c] \in [[1 .. n -> S] -> S]
        BY <2>2 DEF FromAbove
      <3>3. QED
        BY <3>1, <3>2
    <2>4. g \in [1 .. n -> S]
      BY <2>1, <2>2, <2>3
    <2>5. Down(g, c - 1)
      <3>0. c - 1 + 1 = c
        BY <2>2
      <3>1. SUFFICES ASSUME NEW l \in c .. n
                     PROVE  g[l] = G[l][Above(n, g, l, d)]
        <4> HIDE DEF g
        <4>1. QED
          BY <3>0
      <3>2. Above(n, g, l, d) = Above(n, f, l, d)
        BY <2>2 DEF Above
      <3>3. CASE l = c
        <4>1. QED
          BY <2>2, <3>2, <3>3
      <3>4. CASE l # c
        <4>1. l \in c + 1 .. n /\ g[l] = f[l]
          BY <2>2, <3>4
        <4> HIDE DEF g
        <4>2. QED
          BY <2>1, <3>2, <4>1
      <3>5. QED
        BY <3>3, <3>4
    <2> HIDE DEF Down, g
    <2>6. QED
      BY <2>2, <2>4, <2>5
  <1>3. n \in T
    <2> HIDE DEF T
    <2>1. \A k \in 0 .. n - 1 : k \in T => k + 1 \in T
      BY <1>2
    <2>2. \A k \in 0 .. n : k \in T
      BY <1>1, <2>1, UpTo
    <2>3. QED
      BY <2>2
  <1>4. PICK f \in [1 .. n -> S] : Down(f, n - n)
    <2> HIDE DEF Down
    <2>1. QED
      BY <1>3
  <1>5. n - n + 1 = 1
    OBVIOUS
  <1>6. \A l \in 1 .. n : f[l] = G[l][Above(n, f, l, d)]
    <2>1. QED
      BY <1>4, <1>5
  <1>7. QED
    BY <1>4, <1>6

-----------------------------------------------------------------------------
(* Searching a list whose ranges follow one another. *)

Place == [min : Int, max : Int, leaf : Seq(Nat), list : Nat]

Sorted(places) ==
    /\ \A i \in 1 .. Len(places) : places[i].min <= places[i].max
    /\ \A i, j \in 1 .. Len(places) : i < j => places[i].max < places[j].min

(* What a search answers. *)
Answers(found, places, key) ==
    \E i \in 1 .. Len(places) + 1 :
        /\ \A j \in 1 .. i - 1 : places[j].max < key
        /\ \/ /\ found = At(i) /\ i <= Len(places)
              /\ places[i].min <= key /\ key <= places[i].max
           \/ /\ found = Missing(i)
              /\ i <= Len(places) => key < places[i].min

LEMMA PlaceFacts ==
  ASSUME NEW places \in Seq(Place)
  PROVE  /\ Len(places) \in Nat /\ DOMAIN places = 1 .. Len(places)
         /\ \A i \in 1 .. Len(places) :
              /\ places[i] \in Place /\ places[i].min \in Int /\ places[i].max \in Int
              /\ places[i].leaf \in Seq(Nat) /\ places[i].list \in Nat
  <1>1. \A i \in 1 .. Len(places) : places[i] \in Place
    BY ElementOfSeq
  <1>2. QED
    BY <1>1, LenProperties DEF Place

LEMMA LinearAnswers ==
  ASSUME NEW places \in Seq(Place), Sorted(places), NEW key \in Int
  PROVE  Answers(LinearSearch(places, key), places, key)
  <1> DEFINE I == {i \in 1 .. Len(places) : key <= places[i].max}
  <1>1. Len(places) \in Nat /\ I \subseteq Nat
    BY PlaceFacts
  <1>2. \A i \in 1 .. Len(places) : places[i].min \in Int /\ places[i].max \in Int
    BY PlaceFacts
  <1>3. CASE I = {}
    <2>1. LinearSearch(places, key) = Missing(Len(places) + 1)
      BY <1>3 DEF LinearSearch, SelectInSeq
    <2>2. \A j \in 1 .. Len(places) : places[j].max < key
      BY <1>2, <1>3
    <2>3. QED
      BY <1>1, <2>1, <2>2 DEF Answers
  <1>4. CASE I # {}
    <2>1. PICK i \in I : \A j \in I : i <= j
      <3> HIDE DEF I
      <3>1. QED
        BY <1>1, <1>4, LeastNat
    <2>2. Min(I) = i
      BY <1>1, <2>1 DEF Min
    <2>3. i # 0 /\ i \in 1 .. Len(places) /\ key <= places[i].max
      BY <2>1
    <2>4. LinearSearch(places, key) = IF key < places[i].min THEN Missing(i) ELSE At(i)
      BY <1>4, <2>2, <2>3 DEF LinearSearch, SelectInSeq
    <2>5. \A j \in 1 .. i - 1 : places[j].max < key
      <3>1. SUFFICES ASSUME NEW j \in 1 .. i - 1 PROVE places[j].max < key
        OBVIOUS
      <3>2. j \notin I /\ j \in 1 .. Len(places)
        BY <1>1, <2>1, <2>3
      <3>3. QED
        BY <1>2, <3>2
    <2>6. CASE key < places[i].min
      BY <1>1, <2>3, <2>4, <2>5, <2>6 DEF Answers
    <2>7. CASE ~ (key < places[i].min)
      <3>1. places[i].min <= key
        BY <1>2, <2>3, <2>7
      <3>2. QED
        BY <1>1, <2>3, <2>4, <2>5, <2>7, <3>1 DEF Answers
    <2>8. QED
      BY <2>6, <2>7
  <1>5. QED
    BY <1>3, <1>4

(* Halving keeps the last range that does not begin above the key.         *)
LEMMA HalvesFind ==
  ASSUME NEW places \in Seq(Place), Sorted(places), NEW key \in Int, places # <<>>
  PROVE  LET i == Halves(places, key)[Len(places)].base
         IN  /\ i \in 1 .. Len(places)
             /\ i = 1 \/ places[i].min <= key
             /\ \A j \in i + 1 .. Len(places) : key < places[j].min
  <1> DEFINE n == Len(places)
             S == [base : 1 .. n, size : 1 .. n]
             b == [base |-> 1, size |-> n]
             Half(was) == LET mid == was.base + was.size \div 2
                          IN  [base |-> IF key < places[mid].min THEN was.base ELSE mid,
                               size |-> was.size - was.size \div 2]
             Left(was) == /\ was.base + was.size <= n + 1
                          /\ was.base = 1 \/ places[was.base].min <= key
                          /\ \A j \in was.base + was.size .. n : key < places[j].min
             R == {was \in S : Left(was)}
             G == [i \in 1 .. n |-> [was \in R |-> Half(was)]]
  <1>1. n \in Nat /\ n # 0
    BY LenProperties, EmptySeq
  <1>2. \A i \in 1 .. n : places[i].min \in Int /\ places[i].max \in Int
    BY PlaceFacts
  <1>3. b \in R
    BY <1>1
  <1>4. ASSUME NEW was \in R
        PROVE  Half(was) \in R
    <2> DEFINE h == was.size \div 2
    <2>1. /\ was.base \in 1 .. n /\ was.size \in 1 .. n /\ was.base + was.size <= n + 1
          /\ was.base = 1 \/ places[was.base].min <= key
          /\ \A j \in was.base + was.size .. n : key < places[j].min
      OBVIOUS
    <2>2. h \in Nat /\ h < was.size /\ was.size - h \in 1 .. n
      BY <1>1, <2>1
    <2> HIDE DEF h
    <2>3. was.base + h \in 1 .. n
      BY <1>1, <2>1, <2>2
    <2>4. CASE key < places[was.base + h].min
      <3>1. Half(was) = [base |-> was.base, size |-> was.size - h]
        BY <2>4 DEF h
      <3>2. \A j \in was.base + (was.size - h) .. n : key < places[j].min
        <4>1. SUFFICES ASSUME NEW j \in was.base + (was.size - h) .. n PROVE key < places[j].min
          OBVIOUS
        <4>2. was.size - h >= h
          BY <2>1 DEF h
        <4>3. j \in 1 .. n /\ was.base + h <= j
          BY <2>1, <2>2, <2>3, <4>2
        <4>4. places[was.base + h].min <= places[j].min
          <5>1. CASE was.base + h = j
            BY <1>2, <2>3, <5>1
          <5>2. CASE was.base + h # j
            <6>1. was.base + h < j /\ was.base + h \in 1 .. n /\ j \in 1 .. n
              BY <2>3, <4>3, <5>2
            <6>2. places[was.base + h].min <= places[was.base + h].max
                  /\ places[was.base + h].max < places[j].min
              BY <6>1 DEF Sorted
            <6>3. QED
              BY <1>2, <6>1, <6>2
          <5>3. QED
            BY <5>1, <5>2
        <4>5. QED
          BY <1>2, <2>3, <2>4, <4>3, <4>4
      <3>3. was.base + (was.size - h) <= n + 1
        BY <2>1, <2>2
      <3>4. QED
        BY <2>1, <2>2, <3>1, <3>2, <3>3
    <2>5. CASE ~ (key < places[was.base + h].min)
      <3>1. Half(was) = [base |-> was.base + h, size |-> was.size - h]
        BY <2>5 DEF h
      <3>2. places[was.base + h].min <= key
        BY <1>2, <2>3, <2>5
      <3>3. was.base + h + (was.size - h) = was.base + was.size
        BY <2>1, <2>2
      <3>4. QED
        BY <2>1, <2>2, <2>3, <3>1, <3>2, <3>3
    <2>6. QED
      BY <2>4, <2>5
  <1>5. PICK f \in [0 .. n -> R] : f[0] = b /\ \A i \in 1 .. n : f[i] = Half(f[i - 1])
    <2>1. \A i \in 1 .. n : \A was \in R : G[i][was] = Half(was)
      OBVIOUS
    <2> HIDE DEF R, Half, b
    <2>2. Stepwise(n, R, G)
      BY <1>4 DEF Stepwise
    <2> HIDE DEF G
    <2>3. PICK f \in [0 .. n -> R] : f[0] = b /\ \A i \in 1 .. n : f[i] = G[i][f[i - 1]]
      <3>1. n \in Nat
        BY <1>1
      <3> HIDE DEF n
      <3>2. QED
        BY <3>1, <1>3, <2>2, UpwardRecursion, SMTT(30)
    <2>4. \A i \in 1 .. n : f[i - 1] \in R
      BY <1>1
    <2>5. QED
      BY <2>1, <2>3, <2>4
  <1> DEFINE H == Halves(places, key)
  <1>6. H \in [0 .. n -> R] /\ H[0] = b /\ \A i \in 1 .. n : H[i] = Half(H[i - 1])
    <2>1. f = [i \in 0 .. n |-> IF i = 0 THEN b ELSE Half(f[i - 1])]
      <3> HIDE DEF R, Half, b
      <3>1. QED
        BY <1>1, <1>5
    <2>2. H = [i \in 0 .. n |-> IF i = 0 THEN b ELSE Half(H[i - 1])]
      BY <2>1 DEF Halves
    <2> DEFINE T == {i \in 0 .. n : H[i] = f[i]}
    <2>3. \A i \in 0 .. n : i \in T
      <3> HIDE DEF H, b, Half
      <3>1. 0 \in T
        BY <1>1, <1>5, <2>2
      <3>2. \A i \in 0 .. n - 1 : i \in T => i + 1 \in T
        BY <1>1, <1>5, <2>2
      <3> HIDE DEF T
      <3>3. QED
        BY <1>1, <3>1, <3>2, UpTo
    <2> HIDE DEF H, b, Half, R
    <2>4. QED
      BY <1>1, <1>5, <2>2, <2>3
  <1> HIDE DEF H
  <1>7. \A i \in 0 .. n : H[i].size = 1 \/ H[i].size <= n - i
    <2> DEFINE T == {i \in 0 .. n : H[i].size = 1 \/ H[i].size <= n - i}
    <2>1. 0 \in T
      BY <1>1, <1>6
    <2>2. ASSUME NEW i \in 0 .. n - 1, i \in T PROVE i + 1 \in T
      <3>1. H[i + 1] = Half(H[i]) /\ H[i] \in R
        <4> HIDE DEF Half, R
        <4>1. i \in 0 .. n /\ i + 1 \in 1 .. n /\ i + 1 - 1 = i
          BY <1>1
        <4>2. QED
          BY <1>6, <4>1
      <3>2. H[i].size \in 1 .. n /\ H[i + 1].size = H[i].size - H[i].size \div 2
        BY <3>1
      <3>3. H[i].size = 1 \/ H[i].size <= n - i
        BY <2>2
      <3>4. QED
        BY <1>1, <3>2, <3>3
    <2>3. \A i \in 0 .. n - 1 : i \in T => i + 1 \in T
      BY <2>2
    <2> HIDE DEF T
    <2>4. \A i \in 0 .. n : i \in T
      BY <1>1, <2>1, <2>3, UpTo
    <2>5. QED
      BY <2>4 DEF T
  <1>8. H[n] \in R /\ H[n].size = 1
    <2>1. H[n] \in R /\ H[n].size \in 1 .. n
      BY <1>1, <1>6
    <2>2. H[n].size = 1 \/ H[n].size <= n - n
      BY <1>1, <1>7
    <2>3. QED
      BY <1>1, <2>1, <2>2
  <1>9. QED
    BY <1>8 DEF H

LEMMA SearchFinds ==
  ASSUME NEW places \in Seq(Place), Sorted(places), NEW key \in Int
  PROVE  Answers(Search(places, key), places, key)
  <1>1. CASE ~ (Len(places) > MaxInsert * 2)
    <2>1. Search(places, key) = LinearSearch(places, key)
      BY <1>1 DEF Search
    <2>2. QED
      BY <2>1, LinearAnswers
  <1>2. CASE Len(places) > MaxInsert * 2
    <2> DEFINE i == Halves(places, key)[Len(places)].base
    <2>1. Len(places) \in Nat /\ places # <<>>
      BY <1>2, PlaceFacts, BTreeVecConstants
    <2>2. /\ i \in 1 .. Len(places)
          /\ i = 1 \/ places[i].min <= key
          /\ \A j \in i + 1 .. Len(places) : key < places[j].min
      BY <2>1, HalvesFind
    <2>3. Search(places, key) = IF key < places[i].min THEN Missing(i)
                                ELSE IF key <= places[i].max THEN At(i) ELSE Missing(i + 1)
      BY <1>2 DEF Search, BinarySearch
    <2> HIDE DEF i
    <2>4. \A j \in 1 .. Len(places) : places[j].min \in Int /\ places[j].max \in Int
      BY PlaceFacts
    <2>5. \A j \in 1 .. i - 1 : places[j].max < key
      BY <2>2, <2>4 DEF Sorted
    <2>6. CASE key < places[i].min
      BY <2>1, <2>2, <2>3, <2>5, <2>6 DEF Answers
    <2>7. CASE ~ (key < places[i].min) /\ key <= places[i].max
      BY <2>1, <2>2, <2>3, <2>4, <2>5, <2>7 DEF Answers
    <2>8. CASE ~ (key < places[i].min) /\ ~ (key <= places[i].max)
      <3> DEFINE k == i + 1
      <3>1. Search(places, key) = Missing(k)
        BY <2>3, <2>8
      <3>2. places[i].max < key
        BY <2>2, <2>4, <2>8
      <3>3. k \in 1 .. Len(places) + 1 /\ (k <= Len(places) => key < places[k].min)
        BY <2>1, <2>2
      <3>4. \A j \in 1 .. k - 1 : places[j].max < key
        BY <2>2, <2>5, <3>2
      <3> HIDE DEF k
      <3>5. QED
        BY <3>1, <3>3, <3>4 DEF Answers
    <2>9. QED
      BY <2>6, <2>7, <2>8
  <1>3. QED
    BY <1>1, <1>2

LEMMA SearchHits ==
  ASSUME NEW places \in Seq(Place), Sorted(places), NEW key \in Int,
         NEW i \in 1 .. Len(places), places[i].min <= key, key <= places[i].max
  PROVE  Search(places, key) = At(i)
  <1>1. /\ Len(places) \in Nat
        /\ \A j \in 1 .. Len(places) : places[j].min \in Int /\ places[j].max \in Int
    BY PlaceFacts
  <1>2. \A j \in 1 .. Len(places) : /\ j < i => places[j].max < key /\ ~ (key < places[j].min)
                                    /\ j > i => key < places[j].min
    <2>1. SUFFICES ASSUME NEW j \in 1 .. Len(places)
                   PROVE  /\ j < i => places[j].max < key /\ ~ (key < places[j].min)
                          /\ j > i => key < places[j].min
      OBVIOUS
    <2>2. j < i => places[j].max < places[i].min /\ places[j].min <= places[j].max
      BY DEF Sorted
    <2>3. j > i => places[i].max < places[j].min
      BY DEF Sorted
    <2>4. QED
      BY <1>1, <2>2, <2>3
  <1>3. PICK j \in 1 .. Len(places) + 1 :
          /\ \A k \in 1 .. j - 1 : places[k].max < key
          /\ \/ /\ Search(places, key) = At(j) /\ j <= Len(places)
                /\ places[j].min <= key /\ key <= places[j].max
             \/ /\ Search(places, key) = Missing(j)
                /\ j <= Len(places) => key < places[j].min
    BY SearchFinds DEF Answers
  <1>4. ~ (i < j)
    <2>1. i < j => i \in 1 .. j - 1
      BY <1>1
    <2>2. QED
      BY <1>1, <1>3, <2>1
  <1>5. j \in 1 .. Len(places)
    BY <1>1, <1>4
  <1>6. CASE j < i
    BY <1>1, <1>2, <1>3, <1>5, <1>6
  <1>7. CASE j = i
    BY <1>1, <1>3, <1>7
  <1>8. QED
    BY <1>1, <1>4, <1>5, <1>6, <1>7

-----------------------------------------------------------------------------
(* The shape of a tree, but for the lower limit of the list x. *)

Trees == Seq(Seq(Place))

PlaceFits(t, l, p, x) ==
    /\ p.list = 0 => p.leaf # <<>> /\ p.min = p.max /\ p.min \in Keys
    /\ p.list # 0 => /\ p.list \in l + 1 .. Len(t) /\ t[p.list] # <<>>
                     /\ p.max = Last(t[p.list]).max
                     /\ p.list # x => p.min = t[p.list][1].min

Fits(t, x) == \A l \in 1 .. Len(t) :
                 /\ Sorted(t[l])
                 /\ \A i \in 1 .. Len(t[l]) : PlaceFits(t, l, t[l][i], x)

(* Every list but the root is in one place.                                *)
SameList(t, l, i, m, j) ==
    /\ l \in 1 .. Len(t) /\ i \in 1 .. Len(t[l]) /\ m \in 1 .. Len(t) /\ j \in 1 .. Len(t[m])
    /\ t[l][i].list # 0 /\ t[l][i].list = t[m][j].list

Hung(t, m) == \E l \in 1 .. Len(t) : \E i \in 1 .. Len(t[l]) : t[l][i].list = m

Hang(t) == /\ \A l, i, m, j : SameList(t, l, i, m, j) => l = m /\ i = j
           /\ \A m \in 2 .. Len(t) : Hung(t, m)

Shape(t, x) == t \in Trees /\ t # <<>> /\ Fits(t, x) /\ Hang(t)

Good == {t \in Trees : Shape(t, 0)}

LEMMA PlaceHasFit ==
  ASSUME NEW t, NEW x, Fits(t, x), NEW l \in 1 .. Len(t), NEW i \in 1 .. Len(t[l])
  PROVE  PlaceFits(t, l, t[l][i], x)
  BY DEF Fits

LEMMA TreeFacts ==
  ASSUME NEW t \in Trees
  PROVE  /\ Len(t) \in Nat /\ DOMAIN t = 1 .. Len(t)
         /\ t # <<>> => Len(t) # 0 /\ 1 \in 1 .. Len(t)
         /\ \A l \in 1 .. Len(t) :
              /\ t[l] \in Seq(Place) /\ Len(t[l]) \in Nat /\ DOMAIN t[l] = 1 .. Len(t[l])
              /\ t[l] # <<>> <=> Len(t[l]) # 0
              /\ \A i \in 1 .. Len(t[l]) :
                   /\ t[l][i] \in Place /\ t[l][i].min \in Int /\ t[l][i].max \in Int
                   /\ t[l][i].leaf \in Seq(Nat) /\ t[l][i].list \in Nat
  <1>1. /\ Len(t) \in Nat /\ DOMAIN t = 1 .. Len(t)
        /\ \A l \in 1 .. Len(t) : t[l] \in Seq(Place)
    BY ElementOfSeq, LenProperties DEF Trees
  <1>2. t # <<>> => Len(t) # 0
    BY EmptySeq DEF Trees
  <1>3. \A l \in 1 .. Len(t) : t[l] # <<>> <=> Len(t[l]) # 0
    BY <1>1, EmptySeq
  <1>4. QED
    BY <1>1, <1>2, <1>3, PlaceFacts

LEMMA GoodFacts ==
  ASSUME NEW t \in Good
  PROVE  /\ t \in Trees /\ Fits(t, 0) /\ Hang(t) /\ 1 \in 1 .. Len(t)
         /\ \A l \in 1 .. Len(t) :
              /\ t[l] \in Seq(Place) /\ Sorted(t[l])
              /\ \A i \in 1 .. Len(t[l]) :
                    t[l][i].list # 0 => t[l][i].list \in 1 .. Len(t) /\ t[l][i].list > l
  <1>1. t \in Trees /\ Fits(t, 0) /\ Hang(t) /\ t # <<>>
    BY DEF Good, Shape
  <1>2. /\ Len(t) \in Nat /\ 1 \in 1 .. Len(t)
        /\ \A l \in 1 .. Len(t) : t[l] \in Seq(Place)
    BY <1>1, TreeFacts
  <1>3. \A l \in 1 .. Len(t) :
              /\ Sorted(t[l])
              /\ \A i \in 1 .. Len(t[l]) : t[l][i].list # 0 => t[l][i].list \in l + 1 .. Len(t)
    BY <1>1 DEF Fits, PlaceFits
  <1>4. \A l \in 1 .. Len(t) : \A m \in l + 1 .. Len(t) : m \in 1 .. Len(t) /\ m > l
    BY <1>2
  <1>5. QED
    BY <1>1, <1>2, <1>3, <1>4

-----------------------------------------------------------------------------
(* What get finds. *)

LEMMA GetFromDef ==
  ASSUME NEW t \in Good, NEW key \in Int
  PROVE  /\ GetFrom(t, key) \in [1 .. Len(t) -> Seq(Nat)]
         /\ \A l \in 1 .. Len(t) :
              GetFrom(t, key)[l] =
                LET found == Search(t[l], key)
                    place == t[l][found.at]
                IN  IF ~found.ok THEN <<>>
                    ELSE IF IsLeaf(place) THEN place.leaf ELSE GetFrom(t, key)[place.list]
  <1> DEFINE n == Len(t)
             S == Seq(Nat)
             Body(l, h) == LET found == Search(t[l], key)
                               place == t[l][found.at]
                           IN  IF ~found.ok THEN <<>>
                               ELSE IF IsLeaf(place) THEN place.leaf ELSE h[place.list]
             G == [l \in 1 .. n |-> [h \in [1 .. n -> S] |-> Body(l, h)]]
  <1>1. n \in Nat /\ <<>> \in S /\ DOMAIN t = 1 .. n
    BY GoodFacts, TreeFacts, EmptySeq
  <1>2. ASSUME NEW l \in 1 .. n
        PROVE  LET found == Search(t[l], key)
                   place == t[l][found.at]
               IN  /\ found.ok = TRUE \/ found.ok = FALSE
                   /\ found.ok => /\ place.leaf \in S
                                  /\ ~ IsLeaf(place) => place.list \in 1 .. n /\ place.list > l
    <2>1. t[l] \in Seq(Place) /\ Sorted(t[l])
      BY GoodFacts
    <2>2. PICK i \in 1 .. Len(t[l]) + 1 :
            \/ Search(t[l], key) = At(i) /\ i <= Len(t[l])
            \/ Search(t[l], key) = Missing(i)
      BY <2>1, SearchFinds DEF Answers
    <2>3. CASE Search(t[l], key) = At(i) /\ i <= Len(t[l])
      <3>1. Search(t[l], key).ok = TRUE /\ Search(t[l], key).at = i
        BY <2>3 DEF At
      <3>2. i \in 1 .. Len(t[l])
        BY <2>1, <2>3, PlaceFacts
      <3>3. t[l][i].leaf \in S /\ t[l][i].list \in Nat
        BY <2>1, <3>2, PlaceFacts
      <3>4. t[l][i].list # 0 => t[l][i].list \in 1 .. n /\ t[l][i].list > l
        BY <3>2, GoodFacts
      <3>5. QED
        BY <3>1, <3>3, <3>4 DEF IsLeaf
    <2>4. CASE Search(t[l], key) = Missing(i)
      BY <2>4 DEF Missing
    <2>5. QED
      BY <2>2, <2>3, <2>4
  <1>3. ASSUME NEW l \in 1 .. n, NEW h \in [1 .. n -> S]
        PROVE  /\ Body(l, h) \in S
               /\ Body(l, Above(n, h, l, <<>>)) = Body(l, h)
    <2> DEFINE found == Search(t[l], key)
               place == t[l][found.at]
    <2>1. /\ found.ok = TRUE \/ found.ok = FALSE
          /\ found.ok => /\ place.leaf \in S
                         /\ ~ IsLeaf(place) => place.list \in 1 .. n /\ place.list > l
      BY <1>2
    <2>2. ~ IsLeaf(place) /\ found.ok => h[place.list] \in S /\ Above(n, h, l, <<>>)[place.list] = h[place.list]
      BY <2>1 DEF Above
    <2> HIDE DEF found, place
    <2>3. QED
      BY <1>1, <2>1, <2>2 DEF found, place
  <1>4. PICK f \in [1 .. n -> S] : \A l \in 1 .. n : f[l] = G[l][Above(n, f, l, <<>>)]
    <2>1. FromAbove(n, S, G)
      BY <1>3 DEF FromAbove
    <2>2. n \in Nat /\ <<>> \in S
      BY <1>1
    <2> HIDE DEF G, S, n
    <2>3. QED
      BY <2>1, <2>2, DownwardRecursion
  <1>5. \A l \in 1 .. n : f[l] = Body(l, f)
    <2>1. SUFFICES ASSUME NEW l \in 1 .. n PROVE f[l] = Body(l, f)
      OBVIOUS
    <2>2. Above(n, f, l, <<>>) \in [1 .. n -> S]
      BY <1>1 DEF Above
    <2>3. G[l][Above(n, f, l, <<>>)] = Body(l, Above(n, f, l, <<>>))
      <3> HIDE DEF Body, S
      <3>1. QED
        BY <2>2
    <2> HIDE DEF Body, G, S
    <2>4. QED
      BY <1>3, <1>4, <2>3
  <1>6. f = [l \in DOMAIN t |-> Body(l, f)]
    <2> HIDE DEF Body, S
    <2>1. QED
      BY <1>1, <1>4, <1>5
  <1> DEFINE g == GetFrom(t, key)
  <1>7. g = [l \in DOMAIN t |-> Body(l, g)]
    BY <1>6 DEF GetFrom
  <1>8. \A l \in 1 .. n : g[l] = Body(l, g)
    <2> HIDE DEF Body, g
    <2>1. QED
      BY <1>1, <1>7
  <1>9. g \in [1 .. n -> S]
    <2> DEFINE T == {l \in 1 .. n : g[l] \in S}
    <2>1. ASSUME NEW l \in 1 .. n, \A m \in l + 1 .. n : m \in T PROVE l \in T
      <3> DEFINE found == Search(t[l], key)
                 place == t[l][found.at]
      <3>1. /\ found.ok = TRUE \/ found.ok = FALSE
            /\ found.ok => /\ place.leaf \in S
                           /\ ~ IsLeaf(place) => place.list \in 1 .. n /\ place.list > l
        BY <1>2
      <3>2. ~ IsLeaf(place) /\ found.ok => g[place.list] \in S
        <4>1. \A m \in 1 .. n : m > l => m \in l + 1 .. n
          BY <1>1
        <4> HIDE DEF g, found, place
        <4>2. QED
          BY <2>1, <3>1, <4>1
      <3>3. g[l] = Body(l, g)
        BY <1>8
      <3> HIDE DEF g, found, place
      <3>4. g[l] \in S
        BY <1>1, <3>1, <3>2, <3>3 DEF found, place
      <3>5. QED
        BY <3>4
    <2> HIDE DEF T
    <2>2. \A l \in 1 .. n : (\A m \in l + 1 .. n : m \in T) => l \in T
      BY <2>1
    <2>3. \A l \in 1 .. n : l \in T
      BY <1>1, <2>2, DownFrom
    <2>4. \A l \in 1 .. n : g[l] \in S
      BY <2>3 DEF T
    <2> HIDE DEF g, Body
    <2>5. QED
      BY <1>1, <1>7, <2>4
  <1>10. QED
    BY <1>8, <1>9

LEMMA GetSteps ==
  ASSUME NEW t \in Good, NEW key \in Int, NEW l \in 1 .. Len(t)
  PROVE  /\ \A i \in 1 .. Len(t[l]) : t[l][i].min <= key /\ key <= t[l][i].max =>
              GetFrom(t, key)[l] = IF t[l][i].list = 0 THEN t[l][i].leaf
                                   ELSE GetFrom(t, key)[t[l][i].list]
         /\ (\A i \in 1 .. Len(t[l]) : ~ (t[l][i].min <= key /\ key <= t[l][i].max)) =>
              GetFrom(t, key)[l] = <<>>
  <1> DEFINE found == Search(t[l], key)
             place == t[l][found.at]
  <1>1. GetFrom(t, key)[l] = IF ~found.ok THEN <<>>
                             ELSE IF IsLeaf(place) THEN place.leaf ELSE GetFrom(t, key)[place.list]
    BY GetFromDef
  <1>2. t[l] \in Seq(Place) /\ Sorted(t[l]) /\ Len(t[l]) \in Nat
    BY GoodFacts, PlaceFacts
  <1>3. ASSUME NEW i \in 1 .. Len(t[l]), t[l][i].min <= key, key <= t[l][i].max
        PROVE  GetFrom(t, key)[l] = IF t[l][i].list = 0 THEN t[l][i].leaf
                                    ELSE GetFrom(t, key)[t[l][i].list]
    <2>1. found = At(i)
      BY <1>2, <1>3, SearchHits
    <2>2. found.ok = TRUE /\ found.at = i
      BY <2>1 DEF At
    <2> HIDE DEF found
    <2>3. QED
      BY <1>1, <2>2 DEF IsLeaf
  <1>4. ASSUME \A i \in 1 .. Len(t[l]) : ~ (t[l][i].min <= key /\ key <= t[l][i].max)
        PROVE  GetFrom(t, key)[l] = <<>>
    <2>1. PICK j \in 1 .. Len(t[l]) + 1 :
            \/ /\ found = At(j) /\ j <= Len(t[l])
               /\ t[l][j].min <= key /\ key <= t[l][j].max
            \/ found = Missing(j)
      BY <1>2, SearchFinds DEF Answers
    <2>2. found = Missing(j)
      BY <1>2, <1>4, <2>1
    <2>3. found.ok = FALSE
      BY <2>2 DEF Missing
    <2> HIDE DEF found
    <2>4. QED
      BY <1>1, <2>3
  <1>5. QED
    BY <1>3, <1>4

(* The range of a list lies in that of the place it is in, and a place's   *)
(* range in that of its list.                                              *)
LEMMA WithinList ==
  ASSUME NEW places \in Seq(Place), Sorted(places), NEW i \in 1 .. Len(places)
  PROVE  /\ places[1].min <= places[i].min /\ places[i].max <= Last(places).max
         /\ 1 \in 1 .. Len(places) /\ Len(places) \in 1 .. Len(places) /\ places # <<>>
  <1> DEFINE n == Len(places)
  <1>1. n \in Nat /\ 1 \in 1 .. n /\ n \in 1 .. n /\ i \in 1 .. n
    BY PlaceFacts
  <1>2. \A j \in 1 .. n : places[j].min \in Int /\ places[j].max \in Int
    BY PlaceFacts
  <1>3. /\ 1 < i => places[1].max < places[i].min
        /\ i < n => places[i].max < places[n].min
        /\ places[1].min <= places[1].max /\ places[n].min <= places[n].max
    BY <1>1 DEF Sorted
  <1>4. places[1].min <= places[i].min
    BY <1>1, <1>2, <1>3
  <1>5. places[i].max <= places[n].max
    BY <1>1, <1>2, <1>3
  <1>6. places # <<>>
    BY <1>1, EmptySeq
  <1>7. QED
    BY <1>1, <1>4, <1>5, <1>6 DEF Last

(* The keys in the range of a list are those get comes to it for.          *)
InRange(t, l, key) == t[l] # <<>> /\ t[l][1].min <= key /\ key <= Last(t[l]).max

LEMMA GetReaches ==
  ASSUME NEW t \in Good, NEW key \in Int, NEW l \in 1 .. Len(t), InRange(t, l, key)
  PROVE  Get(t, key) = GetFrom(t, key)[l]
  <1> DEFINE n == Len(t)
             Reached(m) == InRange(t, m, key) => Get(t, key) = GetFrom(t, key)[m]
             T == {k \in 0 .. n : \A m \in 1 .. k : Reached(m)}
  <1>1. n \in Nat /\ t \in Trees /\ Hang(t) /\ Fits(t, 0)
    BY GoodFacts, TreeFacts
  <1>2. 0 \in T
    BY <1>1
  <1>3. ASSUME NEW k \in 0 .. n - 1, k \in T PROVE k + 1 \in T
    <2>1. SUFFICES Reached(k + 1)
      <3>1. \A m \in 1 .. k + 1 : m = k + 1 \/ m \in 1 .. k
        BY <1>1
      <3>2. k + 1 \in 0 .. n
        BY <1>1
      <3> HIDE DEF Reached
      <3>3. QED
        BY <1>3, <3>1, <3>2
    <2>2. CASE k = 0
      BY <2>2 DEF Get
    <2>3. CASE k # 0
      <3> DEFINE c == k + 1
      <3>1. c \in 2 .. n /\ c \in 1 .. n /\ c # 0
        BY <1>1, <2>3
      <3>2. SUFFICES ASSUME InRange(t, c, key) PROVE Get(t, key) = GetFrom(t, key)[c]
        OBVIOUS
      <3>3. PICK p \in 1 .. n : \E i \in 1 .. Len(t[p]) : t[p][i].list = c
        <4> HIDE DEF c
        <4>1. QED
          BY <1>1, <3>1 DEF Hang, Hung
      <3>4. PICK i \in 1 .. Len(t[p]) : t[p][i].list = c
        BY <3>3
      <3>5. p < c /\ t[p] \in Seq(Place) /\ Sorted(t[p])
        BY <3>1, <3>4, GoodFacts
      <3>6. p \in 1 .. k
        BY <1>1, <3>5
      <3>7. t[p][i].min = t[c][1].min /\ t[p][i].max = Last(t[c]).max
        <4> HIDE DEF c
        <4>1. PlaceFits(t, p, t[p][i], 0)
          BY <1>1, <3>4 DEF Fits
        <4>2. QED
          BY <3>1, <3>4, <4>1 DEF PlaceFits
      <3>8. t[p][i].min <= key /\ key <= t[p][i].max
        BY <3>2, <3>7 DEF InRange
      <3>9. InRange(t, p, key)
        <4>1. /\ t[p][1].min <= t[p][i].min /\ t[p][i].max <= Last(t[p]).max
              /\ 1 \in 1 .. Len(t[p]) /\ Len(t[p]) \in 1 .. Len(t[p]) /\ t[p] # <<>>
          BY <3>5, WithinList
        <4>2. /\ t[p][1].min \in Int /\ t[p][i].min \in Int /\ t[p][i].max \in Int
              /\ Last(t[p]).max \in Int
          BY <3>5, <4>1, PlaceFacts DEF Last
        <4>3. QED
          BY <3>8, <4>1, <4>2, SMTT(30) DEF InRange
      <3>10. Get(t, key) = GetFrom(t, key)[p]
        BY <1>3, <3>6, <3>9
      <3>11. GetFrom(t, key)[p] = GetFrom(t, key)[c]
        BY <3>1, <3>4, <3>8, GetSteps
      <3>12. QED
        BY <3>10, <3>11
    <2>4. QED
      BY <2>2, <2>3
  <1>4. \A k \in 0 .. n - 1 : k \in T => k + 1 \in T
    BY <1>3
  <1> HIDE DEF T
  <1>5. n \in T
    <2>1. \A k \in 0 .. n : k \in T
      BY <1>1, <1>2, <1>4, UpTo
    <2>2. QED
      BY <1>1, <2>1
  <1>6. QED
    BY <1>5 DEF T

(* A leaf that holds a key, somewhere in the tree.                         *)
LeafOf(t, key, vs) ==
    \E l \in 1 .. Len(t) : \E i \in 1 .. Len(t[l]) :
        t[l][i].list = 0 /\ t[l][i].min = key /\ t[l][i].leaf = vs

LEMMA PlaceReached ==
  ASSUME NEW t \in Good, NEW l \in 1 .. Len(t), NEW i \in 1 .. Len(t[l]),
         NEW key \in Int, t[l][i].min <= key, key <= t[l][i].max
  PROVE  /\ InRange(t, l, key)
         /\ Get(t, key) = IF t[l][i].list = 0 THEN t[l][i].leaf
                          ELSE GetFrom(t, key)[t[l][i].list]
  <1>1. t[l] \in Seq(Place) /\ Sorted(t[l])
    BY GoodFacts
  <1>2. /\ t[l][1].min <= t[l][i].min /\ t[l][i].max <= Last(t[l]).max
        /\ 1 \in 1 .. Len(t[l]) /\ Len(t[l]) \in 1 .. Len(t[l]) /\ t[l] # <<>>
    BY <1>1, WithinList
  <1>3. /\ t[l][1].min \in Int /\ t[l][i].min \in Int /\ t[l][i].max \in Int
        /\ Last(t[l]).max \in Int
    BY <1>1, <1>2, PlaceFacts DEF Last
  <1>4. InRange(t, l, key)
    BY <1>2, <1>3 DEF InRange
  <1>5. QED
    BY <1>4, GetReaches, GetSteps

LEMMA GetLeaves ==
  ASSUME NEW t \in Good, NEW key \in Int, NEW vs
  PROVE  LeafOf(t, key, vs) <=> vs = Get(t, key) /\ vs # <<>>
  <1>1. Fits(t, 0) /\ t \in Trees /\ Len(t) \in Nat
    BY GoodFacts, TreeFacts
  <1>2. ASSUME LeafOf(t, key, vs) PROVE vs = Get(t, key) /\ vs # <<>>
    <2>0. PICK l \in 1 .. Len(t) : \E i \in 1 .. Len(t[l]) :
            t[l][i].list = 0 /\ t[l][i].min = key /\ t[l][i].leaf = vs
      BY <1>2 DEF LeafOf
    <2>1. PICK i \in 1 .. Len(t[l]) :
            t[l][i].list = 0 /\ t[l][i].min = key /\ t[l][i].leaf = vs
      BY <2>0
    <2>2. t[l][i].max = key /\ vs # <<>>
      BY <1>1, <2>1 DEF Fits, PlaceFits
    <2>3. QED
      BY <2>1, <2>2, PlaceReached
  <1>3. ASSUME Get(t, key) # <<>> PROVE LeafOf(t, key, Get(t, key))
    <2> DEFINE get == GetFrom(t, key)
               T == {l \in 1 .. Len(t) : get[l] # <<>> => LeafOf(t, key, get[l])}
    <2>1. ASSUME NEW l \in 1 .. Len(t), \A m \in l + 1 .. Len(t) : m \in T
          PROVE  l \in T
      <3>1. SUFFICES ASSUME get[l] # <<>> PROVE LeafOf(t, key, get[l])
        OBVIOUS
      <3>2. PICK i \in 1 .. Len(t[l]) : t[l][i].min <= key /\ key <= t[l][i].max
        BY <3>1, GetSteps
      <3>3. get[l] = IF t[l][i].list = 0 THEN t[l][i].leaf ELSE get[t[l][i].list]
        BY <3>2, GetSteps
      <3>4. CASE t[l][i].list = 0
        <4>1. t[l][i].min = t[l][i].max
          BY <1>1, <3>4 DEF Fits, PlaceFits
        <4>2. t[l][i].min = key
          <5>1. t[l][i].min \in Int
            BY <1>1, TreeFacts
          <5>2. QED
            BY <3>2, <4>1, <5>1
        <4>3. QED
          BY <3>3, <3>4, <4>2 DEF LeafOf
      <3>5. CASE t[l][i].list # 0
        <4>1. t[l][i].list \in l + 1 .. Len(t)
          BY <1>1, <3>5 DEF Fits, PlaceFits
        <4> HIDE DEF get
        <4>2. QED
          BY <2>1, <3>1, <3>3, <3>5, <4>1
      <3>6. QED
        BY <3>4, <3>5
    <2>2. \A l \in 1 .. Len(t) : (\A m \in l + 1 .. Len(t) : m \in T) => l \in T
      BY <2>1
    <2> HIDE DEF T
    <2>3. \A l \in 1 .. Len(t) : l \in T
      BY <1>1, <2>2, DownFrom
    <2>4. 1 \in T
      BY <2>3, GoodFacts
    <2>5. QED
      BY <1>3, <2>4 DEF T, Get
  <1>4. QED
    BY <1>2, <1>3

(* There is nothing between the ranges of a list, nor out of the root's.   *)
LEMMA GetGap ==
  ASSUME NEW t \in Good, NEW key \in Int, NEW l \in 1 .. Len(t),
         l = 1 \/ InRange(t, l, key),
         \A i \in 1 .. Len(t[l]) : ~ (t[l][i].min <= key /\ key <= t[l][i].max)
  PROVE  Get(t, key) = <<>> /\ GetFrom(t, key)[l] = <<>>
  <1>1. GetFrom(t, key)[l] = <<>>
    BY GetSteps
  <1>2. QED
    BY <1>1, GetReaches DEF Get

-----------------------------------------------------------------------------
(* What push does to a tree.                                               *)

LEMMA SearchMisses ==
  ASSUME NEW places \in Seq(Place), Sorted(places), NEW key \in Int,
         NEW i \in 1 .. Len(places) + 1,
         \A j \in 1 .. i - 1 : places[j].max < key,
         i <= Len(places) => key < places[i].min
  PROVE  Search(places, key) = Missing(i)
  <1>1. /\ Len(places) \in Nat
        /\ \A j \in 1 .. Len(places) : places[j].min \in Int /\ places[j].max \in Int
    BY PlaceFacts
  <1>2. PICK j \in 1 .. Len(places) + 1 :
          /\ \A k \in 1 .. j - 1 : places[k].max < key
          /\ \/ /\ Search(places, key) = At(j) /\ j <= Len(places)
                /\ places[j].min <= key /\ key <= places[j].max
             \/ /\ Search(places, key) = Missing(j)
                /\ j <= Len(places) => key < places[j].min
    BY SearchFinds DEF Answers
  <1>3. \A k \in 1 .. Len(places) : places[k].min <= places[k].max
    BY DEF Sorted
  <1>4. ~ (i < j)
    <2>1. SUFFICES ASSUME i < j PROVE FALSE
      OBVIOUS
    <2>2. i \in 1 .. j - 1 /\ i \in 1 .. Len(places)
      BY <1>1, <2>1
    <2>3. places[i].max < key /\ key < places[i].min
      BY <1>1, <1>2, <2>2
    <2>4. QED
      BY <1>1, <1>3, <2>2, <2>3
  <1>5. ~ (j < i)
    <2>1. SUFFICES ASSUME j < i PROVE FALSE
      OBVIOUS
    <2>2. j \in 1 .. i - 1 /\ j \in 1 .. Len(places)
      BY <1>1, <2>1
    <2>3. places[j].max < key /\ places[j].min <= places[j].max
      BY <1>3, <2>2
    <2>4. QED
      BY <1>1, <1>2, <2>2, <2>3
  <1>6. i = j
    BY <1>1, <1>4, <1>5
  <1>7. CASE i \in 1 .. Len(places)
    BY <1>1, <1>2, <1>6, <1>7
  <1>8. CASE i \notin 1 .. Len(places)
    BY <1>1, <1>2, <1>6, <1>8
  <1>9. QED
    BY <1>7, <1>8

(* A place more at an index, above the places before and below the others. *)
IsInsert(new, s, at, e) ==
    /\ Len(new) = Len(s) + 1
    /\ \A j \in 1 .. Len(s) + 1 :
         new[j] = IF j < at THEN s[j] ELSE IF j = at THEN e ELSE s[j - 1]

GoesAt(places, at, key) ==
    /\ \A j \in 1 .. at - 1 : places[j].max < key
    /\ at <= Len(places) => key < places[at].min

LEMMA InsertAtFacts ==
  ASSUME NEW S, NEW s \in Seq(S), NEW i \in 1 .. Len(s) + 1, NEW e \in S
  PROVE  InsertAt(s, i, e) \in Seq(S) /\ IsInsert(InsertAt(s, i, e), s, i, e)
  <1> DEFINE a == SubSeq(s, 1, i - 1)
             c == SubSeq(s, i, Len(s))
             b == a \o <<e>>
  <1>1. Len(s) \in Nat /\ \A j \in 1 .. Len(s) : s[j] \in S
    BY LenProperties, ElementOfSeq
  <1>2. /\ a \in Seq(S) /\ Len(a) = i - 1
        /\ \A j \in 1 .. i - 1 : a[j] = s[j]
    <2>1. \A j \in 1 .. i - 1 : s[j] \in S
      BY <1>1
    <2>2. /\ a \in Seq(S)
          /\ Len(a) = IF 1 <= i - 1 THEN (i - 1) - 1 + 1 ELSE 0
          /\ \A j \in 1 .. (i - 1) - 1 + 1 : a[j] = s[1 + j - 1]
      BY <2>1, SubSeqProperties, <1>1
    <2> HIDE DEF a
    <2>3. QED
      BY <1>1, <2>2
  <1>3. /\ c \in Seq(S) /\ Len(c) = Len(s) - i + 1
        /\ \A j \in 1 .. Len(s) - i + 1 : c[j] = s[i + j - 1]
    <2>1. \A j \in i .. Len(s) : s[j] \in S
      BY <1>1
    <2>2. /\ c \in Seq(S)
          /\ Len(c) = IF i <= Len(s) THEN Len(s) - i + 1 ELSE 0
          /\ \A j \in 1 .. Len(s) - i + 1 : c[j] = s[i + j - 1]
      BY <2>1, SubSeqProperties, <1>1
    <2> HIDE DEF c
    <2>3. QED
      BY <1>1, <2>2
  <1>4. <<e>> \in Seq(S) /\ Len(<<e>>) = 1 /\ <<e>>[1] = e
    OBVIOUS
  <1> HIDE DEF a, c
  <1>5. /\ b \in Seq(S) /\ Len(b) = i
        /\ \A j \in 1 .. i : b[j] = IF j < i THEN s[j] ELSE e
    <2>1. /\ b \in Seq(S) /\ Len(b) = Len(a) + Len(<<e>>)
          /\ \A j \in 1 .. Len(a) + Len(<<e>>) :
                b[j] = IF j <= Len(a) THEN a[j] ELSE <<e>>[j - Len(a)]
      BY <1>2, <1>4, ConcatProperties
    <2> HIDE DEF b
    <2>2. Len(b) = i
      BY <1>1, <1>2, <1>4, <2>1
    <2>3. ASSUME NEW j \in 1 .. i PROVE b[j] = IF j < i THEN s[j] ELSE e
      <3>1. b[j] = IF j <= i - 1 THEN a[j] ELSE <<e>>[j - (i - 1)]
        <4>1. j \in 1 .. Len(a) + Len(<<e>>)
          BY <1>1, <1>2, <1>4
        <4>2. b[j] = IF j <= Len(a) THEN a[j] ELSE <<e>>[j - Len(a)]
          BY <2>1, <4>1
        <4>3. QED
          BY <1>2, <4>2
      <3>2. CASE j < i
        BY <1>2, <3>1, <3>2
      <3>3. CASE j = i
        <4>1. j - (i - 1) = 1 /\ ~ (j <= i - 1)
          BY <3>3
        <4>2. QED
          BY <1>4, <3>1, <3>3, <4>1
      <3>4. QED
        BY <3>2, <3>3
    <2>4. QED
      BY <2>1, <2>2, <2>3
  <1>6. InsertAt(s, i, e) = b \o c
    BY DEF InsertAt, a, c
  <1> HIDE DEF b
  <1>7. /\ b \o c \in Seq(S) /\ Len(b \o c) = Len(b) + Len(c)
        /\ \A j \in 1 .. Len(b) + Len(c) :
             (b \o c)[j] = IF j <= Len(b) THEN b[j] ELSE c[j - Len(b)]
    BY <1>3, <1>5, ConcatProperties
  <1>8. Len(b \o c) = Len(s) + 1 /\ Len(b) + Len(c) = Len(s) + 1
    BY <1>1, <1>3, <1>5, <1>7
  <1>9. ASSUME NEW j \in 1 .. Len(s) + 1
        PROVE  (b \o c)[j] = IF j < i THEN s[j] ELSE IF j = i THEN e ELSE s[j - 1]
    <2>1. (b \o c)[j] = IF j <= i THEN b[j] ELSE c[j - i]
      <3>1. j \in 1 .. Len(b) + Len(c)
        BY <1>8
      <3>2. (b \o c)[j] = IF j <= Len(b) THEN b[j] ELSE c[j - Len(b)]
        BY <1>7, <3>1
      <3>3. QED
        BY <1>5, <3>2
    <2>2. CASE j < i
      <3>1. j \in 1 .. i /\ j <= i
        BY <2>2
      <3>2. QED
        BY <1>5, <2>1, <2>2, <3>1
    <2>3. CASE j = i
      <3>1. j \in 1 .. i /\ j <= i /\ ~ (j < i)
        BY <2>3
      <3>2. QED
        BY <1>5, <2>1, <2>3, <3>1
    <2>4. CASE j > i
      <3>1. /\ j - i \in 1 .. Len(s) - i + 1 /\ i + (j - i) - 1 = j - 1
            /\ ~ (j <= i) /\ ~ (j < i) /\ j # i
        BY <1>1, <2>4
      <3>2. c[j - i] = s[j - 1]
        <4>1. c[j - i] = s[i + (j - i) - 1]
          BY <1>3, <3>1
        <4>2. QED
          BY <3>1, <4>1
      <3>3. (b \o c)[j] = c[j - i]
        BY <2>1, <3>1
      <3> HIDE DEF c
      <3>4. (b \o c)[j] = s[j - 1]
        BY <3>2, <3>3
      <3>5. QED
        BY <3>1, <3>4
    <2>5. j < i \/ j = i \/ j > i
      BY <1>1
    <2>6. QED
      BY <2>2, <2>3, <2>4, <2>5
  <1>10. QED
    BY <1>6, <1>7, <1>8, <1>9 DEF IsInsert

(* Changes of a list and of a place, and a list more.                      *)
WithList(t, l, s) == [t EXCEPT ![l] = s]

WithPlace(t, l, i, p) == [t EXCEPT ![l][i] = p]

ListMore(t, s) == Append(t, s)

IsWithList(u, t, l, s) ==
    /\ u \in Trees /\ Len(u) = Len(t) /\ u[l] = s
    /\ \A m \in 1 .. Len(t) : m # l => u[m] = t[m]

IsWithPlace(u, t, l, i, p) ==
    /\ u \in Trees /\ Len(u) = Len(t) /\ Len(u[l]) = Len(t[l])
    /\ \A m \in 1 .. Len(t) : m # l => u[m] = t[m]
    /\ u[l][i] = p
    /\ \A j \in 1 .. Len(t[l]) : j # i => u[l][j] = t[l][j]

LEMMA SetList ==
  ASSUME NEW t \in Trees, NEW l \in 1 .. Len(t), NEW s \in Seq(Place)
  PROVE  IsWithList(WithList(t, l, s), t, l, s)
  BY ExceptSeq DEF Trees, WithList, IsWithList

LEMMA SetPlace ==
  ASSUME NEW t \in Trees, NEW l \in 1 .. Len(t), NEW i \in 1 .. Len(t[l]), NEW p \in Place
  PROVE  IsWithPlace(WithPlace(t, l, i, p), t, l, i, p)
  <1> DEFINE s == [t[l] EXCEPT ![i] = p]
  <1>1. /\ s \in Seq(Place) /\ Len(s) = Len(t[l])
        /\ \A j \in 1 .. Len(t[l]) : s[j] = IF j = i THEN p ELSE t[l][j]
    BY TreeFacts, ExceptSeq
  <1>2. WithPlace(t, l, i, p) = WithList(t, l, s)
    BY DEF WithPlace, WithList
  <1> HIDE DEF s
  <1>3. IsWithList(WithPlace(t, l, i, p), t, l, s)
    BY <1>1, <1>2, SetList
  <1>4. QED
    BY <1>1, <1>3 DEF IsWithList, IsWithPlace

LEMMA AppendList ==
  ASSUME NEW t \in Trees, NEW s \in Seq(Place)
  PROVE  /\ ListMore(t, s) \in Trees /\ Len(ListMore(t, s)) = Len(t) + 1
         /\ ListMore(t, s)[Len(t) + 1] = s
         /\ \A m \in 1 .. Len(t) : ListMore(t, s)[m] = t[m]
  BY AppendProperties DEF Trees, ListMore

Inserted(t, l, at, key, v) == [t EXCEPT ![l] = InsertAt(@, at, Leaf(key, <<v>>))]

Appended(t, l, i, v) == [t EXCEPT ![l][i].leaf = Append(@, v)]

Stretched(t, l, i, key) == [t EXCEPT ![l][i].min = IF key < @ THEN key ELSE @]

LEMMA LeafIsPlace ==
  ASSUME NEW key \in Int, NEW vs \in Seq(Nat)
  PROVE  /\ Leaf(key, vs) \in Place
         /\ Leaf(key, vs).min = key /\ Leaf(key, vs).max = key
         /\ Leaf(key, vs).leaf = vs /\ Leaf(key, vs).list = 0
  BY DEF Leaf, Place

LEMMA ChildListIsPlace ==
  ASSUME NEW min \in Int, NEW max \in Int, NEW l \in Nat
  PROVE  /\ ChildList(min, max, l) \in Place
         /\ ChildList(min, max, l).min = min /\ ChildList(min, max, l).max = max
         /\ ChildList(min, max, l).list = l
  <1>1. <<>> \in Seq(Nat)
    BY EmptySeq
  <1>2. QED
    BY <1>1 DEF ChildList, Place

IsInserted(u, t, l, at, e) ==
    /\ u \in Trees /\ Len(u) = Len(t) /\ IsInsert(u[l], t[l], at, e)
    /\ \A m \in 1 .. Len(t) : m # l => u[m] = t[m]

LEMMA InsertedFacts ==
  ASSUME NEW t \in Trees, NEW l \in 1 .. Len(t), NEW at \in 1 .. Len(t[l]) + 1,
         NEW key \in Int, NEW v \in Nat
  PROVE  IsInserted(Inserted(t, l, at, key, v), t, l, at, Leaf(key, <<v>>))
  <1> DEFINE e == Leaf(key, <<v>>)
             q == t[l]
             s == InsertAt(q, at, e)
             u == Inserted(t, l, at, key, v)
  <1>1. q \in Seq(Place) /\ e \in Place /\ at \in 1 .. Len(q) + 1
    <2>1. <<v>> \in Seq(Nat)
      OBVIOUS
    <2>2. e \in Place
      BY <2>1, LeafIsPlace
    <2>3. q \in Seq(Place)
      BY TreeFacts
    <2>4. QED
      BY <2>2, <2>3
  <1>2. u = WithList(t, l, s)
    BY DEF Inserted, WithList
  <1> HIDE DEF e, u, q
  <1>3. s \in Seq(Place) /\ IsInsert(s, q, at, e)
    BY <1>1, InsertAtFacts
  <1> HIDE DEF s
  <1>4. IsWithList(u, t, l, s)
    BY <1>2, <1>3, SetList
  <1>5. IsInserted(u, t, l, at, e)
    BY <1>3, <1>4 DEF IsWithList, IsInserted, q
  <1>6. QED
    BY <1>5 DEF e, u

IsAppended(u, t, l, i, v) ==
    /\ u \in Trees /\ Len(u) = Len(t) /\ Len(u[l]) = Len(t[l])
    /\ \A m \in 1 .. Len(t) : m # l => u[m] = t[m]
    /\ \A j \in 1 .. Len(t[l]) : j # i => u[l][j] = t[l][j]
    /\ u[l][i].min = t[l][i].min /\ u[l][i].max = t[l][i].max
    /\ u[l][i].list = t[l][i].list /\ u[l][i].leaf = Append(t[l][i].leaf, v)

LEMMA AppendedFacts ==
  ASSUME NEW t \in Trees, NEW l \in 1 .. Len(t), NEW i \in 1 .. Len(t[l]), NEW v \in Nat
  PROVE  IsAppended(Appended(t, l, i, v), t, l, i, v)
  <1> DEFINE p == [t[l][i] EXCEPT !.leaf = Append(@, v)]
  <1>1. t[l][i] \in Place /\ t[l][i].leaf \in Seq(Nat)
    BY TreeFacts
  <1>2. Append(t[l][i].leaf, v) \in Seq(Nat)
    BY <1>1, AppendProperties
  <1>3. /\ p \in Place /\ p.min = t[l][i].min /\ p.max = t[l][i].max
        /\ p.list = t[l][i].list /\ p.leaf = Append(t[l][i].leaf, v)
    BY <1>1, <1>2 DEF Place
  <1> DEFINE u == Appended(t, l, i, v)
  <1>4. u = WithPlace(t, l, i, p)
    BY DEF Appended, WithPlace
  <1> HIDE DEF p, u
  <1>5. /\ u \in Trees /\ Len(u) = Len(t) /\ Len(u[l]) = Len(t[l])
        /\ \A m \in 1 .. Len(t) : m # l => u[m] = t[m]
        /\ u[l][i] = p
        /\ \A j \in 1 .. Len(t[l]) : j # i => u[l][j] = t[l][j]
    <2>1. IsWithPlace(u, t, l, i, p)
      BY <1>3, <1>4, SetPlace
    <2>2. QED
      BY <2>1 DEF IsWithPlace
  <1>6. IsAppended(u, t, l, i, v)
    BY <1>3, <1>5 DEF IsAppended
  <1>7. QED
    BY <1>6 DEF u

IsStretched(u, t, l, i, key) ==
    /\ Len(u) = Len(t) /\ Len(u[l]) = Len(t[l])
    /\ \A m \in 1 .. Len(t) : m # l => u[m] = t[m]
    /\ \A j \in 1 .. Len(t[l]) : j # i => u[l][j] = t[l][j]
    /\ u[l][i].min = IF key < t[l][i].min THEN key ELSE t[l][i].min
    /\ u[l][i].max = t[l][i].max
    /\ u[l][i].list = t[l][i].list /\ u[l][i].leaf = t[l][i].leaf

LEMMA StretchedFacts ==
  ASSUME NEW t \in Trees, NEW l \in Nat, NEW i \in Nat, NEW key \in Int
  PROVE  /\ Stretched(t, l, i, key) \in Trees
         /\ l \in 1 .. Len(t) /\ i \in 1 .. Len(t[l]) =>
              IsStretched(Stretched(t, l, i, key), t, l, i, key)
  <1> DEFINE u == Stretched(t, l, i, key)
  <1>1. CASE l \notin 1 .. Len(t)
    <2>1. u = t
      BY <1>1, LenProperties DEF Stretched, Trees
    <2>2. QED
      BY <1>1, <2>1
  <1>2. CASE l \in 1 .. Len(t) /\ i \notin 1 .. Len(t[l])
    <2>1. DOMAIN t[l] = 1 .. Len(t[l]) /\ t[l] \in Seq(Place)
      BY <1>2, TreeFacts
    <2> DEFINE s == [t[l] EXCEPT ![i].min = IF key < @ THEN key ELSE @]
    <2>2. s = t[l]
      BY <1>2, <2>1
    <2>3. u = WithList(t, l, s)
      BY DEF Stretched, WithList
    <2>4. u = WithList(t, l, t[l])
      BY <2>2, <2>3
    <2> HIDE DEF u
    <2>5. u \in Trees
      BY <1>2, <2>1, <2>4, SetList DEF IsWithList
    <2>6. QED
      BY <1>2, <2>5 DEF u
  <1>3. CASE l \in 1 .. Len(t) /\ i \in 1 .. Len(t[l])
    <2> DEFINE p == [t[l][i] EXCEPT !.min = IF key < @ THEN key ELSE @]
    <2>1. t[l][i] \in Place /\ t[l][i].min \in Int
      BY <1>3, TreeFacts
    <2>2. /\ p \in Place /\ p.max = t[l][i].max /\ p.list = t[l][i].list /\ p.leaf = t[l][i].leaf
          /\ p.min = IF key < t[l][i].min THEN key ELSE t[l][i].min
      BY <2>1 DEF Place
    <2>3. u = WithPlace(t, l, i, p)
      BY DEF Stretched, WithPlace
    <2> HIDE DEF p, u
    <2>4. IsWithPlace(u, t, l, i, p)
      BY <1>3, <2>2, <2>3, SetPlace
    <2>5. u \in Trees /\ IsStretched(u, t, l, i, key)
      BY <2>2, <2>4 DEF IsWithPlace, IsStretched
    <2>6. QED
      BY <2>5 DEF u
  <1>4. QED
    BY <1>1, <1>2, <1>3

IsLeafToList(u, t, l, i, key, v) ==
    LET n == Len(t) + 1
    IN  /\ u \in Trees /\ Len(u) = n /\ Len(u[l]) = Len(t[l])
        /\ \A m \in 1 .. Len(t) : m # l => u[m] = t[m]
        /\ \A j \in 1 .. Len(t[l]) : j # i => u[l][j] = t[l][j]
        /\ u[l][i].min = key /\ u[l][i].max = t[l][i].min /\ u[l][i].list = n
        /\ Len(u[n]) = 2
        /\ u[n][1] = Leaf(key, <<v>>)
        /\ u[n][2] = Leaf(t[l][i].min, t[l][i].leaf)

LEMMA MakeLeafToListFacts ==
  ASSUME NEW t \in Trees, NEW l \in 1 .. Len(t), NEW i \in 1 .. Len(t[l]),
         NEW key \in Int, NEW v \in Nat, key < t[l][i].min
  PROVE  IsLeafToList(MakeLeafToList(t, l, i, key, v), t, l, i, key, v)
  <1> DEFINE old == Leaf(t[l][i].min, t[l][i].leaf)
             new == Leaf(key, <<v>>)
             p == ChildList(key, t[l][i].min, Len(t) + 1)
             w == WithPlace(t, l, i, p)
  <1>1. /\ t[l][i].min \in Int /\ t[l][i].leaf \in Seq(Nat) /\ Len(t) \in Nat
        /\ <<v>> \in Seq(Nat)
    BY TreeFacts
  <1>2. /\ old \in Place /\ new \in Place /\ old.min = t[l][i].min /\ new.min = key
        /\ p \in Place /\ p.min = key /\ p.max = t[l][i].min /\ p.list = Len(t) + 1
    <2>1. old \in Place /\ old.min = t[l][i].min
      BY <1>1, LeafIsPlace
    <2>2. new \in Place /\ new.min = key
      BY <1>1, LeafIsPlace
    <2>3. p \in Place /\ p.min = key /\ p.max = t[l][i].min /\ p.list = Len(t) + 1
      <3> DEFINE a == t[l][i].min
                 n == Len(t) + 1
      <3>1. a \in Int /\ n \in Nat
        BY <1>1
      <3> HIDE DEF old, new, p, w, a, n
      <3>2. /\ ChildList(key, a, n) \in Place /\ ChildList(key, a, n).min = key
            /\ ChildList(key, a, n).max = a /\ ChildList(key, a, n).list = n
        BY <3>1, ChildListIsPlace, SMTT(30)
      <3>3. QED
        BY <3>2 DEF p, a, n
    <2> HIDE DEF old, new, p
    <2>4. QED
      BY <2>1, <2>2, <2>3
  <1>3. ~ (key > old.min)
    BY <1>1, <1>2
  <1>4. MakeLeafToList(t, l, i, key, v) = ListMore(w, <<new, old>>)
    <2> HIDE DEF old, new
    <2>1. MakeLeafToList(t, l, i, key, v) =
            LET both == IF key > old.min THEN <<old, new>> ELSE <<new, old>>
            IN  ListMore(WithPlace(t, l, i, ChildList(both[1].min, both[2].min, Len(t) + 1)), both)
      BY DEF MakeLeafToList, old, new, ListMore, WithPlace
    <2>2. <<new, old>>[1] = new /\ <<new, old>>[2] = old
      OBVIOUS
    <2>3. QED
      BY <1>2, <1>3, <2>1, <2>2
  <1>5. /\ w \in Trees /\ Len(w) = Len(t) /\ Len(w[l]) = Len(t[l])
        /\ \A m \in 1 .. Len(t) : m # l => w[m] = t[m]
        /\ w[l][i] = p
        /\ \A j \in 1 .. Len(t[l]) : j # i => w[l][j] = t[l][j]
    <2> HIDE DEF p
    <2>1. QED
      BY <1>2, SetPlace DEF IsWithPlace
  <1> HIDE DEF old, new, p, w
  <1>6. /\ <<new, old>> \in Seq(Place) /\ Len(<<new, old>>) = 2
        /\ <<new, old>>[1] = new /\ <<new, old>>[2] = old
    BY <1>2
  <1> DEFINE u == ListMore(w, <<new, old>>)
  <1>7. /\ u \in Trees /\ Len(u) = Len(t) + 1 /\ u[Len(t) + 1] = <<new, old>>
        /\ \A m \in 1 .. Len(t) : u[m] = w[m]
    <2>1. /\ u \in Trees /\ Len(u) = Len(w) + 1 /\ u[Len(w) + 1] = <<new, old>>
          /\ \A m \in 1 .. Len(w) : u[m] = w[m]
      BY <1>5, <1>6, AppendList
    <2> HIDE DEF u
    <2>2. QED
      BY <1>5, <2>1
  <1>9. u = MakeLeafToList(t, l, i, key, v)
    BY <1>4
  <1> HIDE DEF u
  <1> DEFINE n == Len(t) + 1
  <1>8. /\ n # l /\ l \in 1 .. Len(t) /\ \A m \in 1 .. Len(t) : u[m] = w[m]
        /\ u \in Trees /\ Len(u) = n /\ u[n] = <<new, old>>
    BY <1>1, <1>7
  <1> HIDE DEF n
  <1>10. /\ u[l] = w[l] /\ \A m \in 1 .. Len(t) : m # l => u[m] = t[m]
    BY <1>5, <1>8
  <1>11. u[l][i] = p
    BY <1>5, <1>10
  <1>12. u[l][i].min = key /\ u[l][i].max = t[l][i].min /\ u[l][i].list = n
    BY <1>2, <1>11 DEF n
  <1>13. /\ Len(u[l]) = Len(t[l]) /\ \A j \in 1 .. Len(t[l]) : j # i => u[l][j] = t[l][j]
    BY <1>5, <1>10
  <1>14. Len(u[n]) = 2 /\ u[n][1] = new /\ u[n][2] = old
    BY <1>6, <1>8
  <1>15. IsLeafToList(u, t, l, i, key, v)
    BY <1>8, <1>10, <1>12, <1>13, <1>14 DEF old, new, n, IsLeafToList
  <1>16. QED
    BY <1>9, <1>15

(* What push does on a list: the key is beyond it, in one of its ranges,   *)
(* or below one.                                                           *)
Beyond(places, key) == places = <<>> \/ key > Last(places).max

InPlace(places, i, key) == places[i].min <= key /\ key <= places[i].max

BelowPlace(places, i, key) ==
    (\A j \in 1 .. i - 1 : places[j].max < key) /\ key < places[i].min

PushBody(t, key, v, l, h) ==
    LET places == t[l]
        found == Search(places, key)
        i == found.at
    IN  IF Beyond(places, key) THEN Inserted(t, l, Len(places) + 1, key, v)
        ELSE IF found.ok
        THEN IF IsLeaf(places[i]) THEN Appended(t, l, i, v) ELSE h[places[i].list]
        ELSE IF Len(places) < MaxInsert THEN Inserted(t, l, i, key, v)
        ELSE IF IsLeaf(places[i]) THEN MakeLeafToList(t, l, i, key, v)
        ELSE Stretched(h[places[i].list], l, i, key)

LEMMA BelowMisses ==
  ASSUME NEW places \in Seq(Place), Sorted(places), NEW key \in Int,
         NEW i \in 1 .. Len(places), BelowPlace(places, i, key)
  PROVE  \A j \in 1 .. Len(places) : ~ (places[j].min <= key /\ key <= places[j].max)
  <1>1. /\ Len(places) \in Nat
        /\ \A j \in 1 .. Len(places) : places[j].min \in Int /\ places[j].max \in Int
    BY PlaceFacts
  <1>2. SUFFICES ASSUME NEW j \in 1 .. Len(places)
                 PROVE  places[j].max < key \/ key < places[j].min
    BY <1>1
  <1>3. (\A m \in 1 .. i - 1 : places[m].max < key) /\ key < places[i].min
    BY DEF BelowPlace
  <1>4. CASE j < i
    BY <1>1, <1>3, <1>4
  <1>5. CASE j = i
    BY <1>3, <1>5
  <1>6. CASE j > i
    <2>1. places[i].min <= places[i].max /\ places[i].max < places[j].min
      BY <1>1, <1>6 DEF Sorted
    <2>2. QED
      BY <1>1, <1>3, <2>1
  <1>7. QED
    BY <1>1, <1>4, <1>5, <1>6

LEMMA BeyondMisses ==
  ASSUME NEW places \in Seq(Place), Sorted(places), NEW key \in Int, Beyond(places, key)
  PROVE  /\ GoesAt(places, Len(places) + 1, key)
         /\ \A j \in 1 .. Len(places) : ~ (places[j].min <= key /\ key <= places[j].max)
  <1>1. /\ Len(places) \in Nat
        /\ \A j \in 1 .. Len(places) : places[j].min \in Int /\ places[j].max \in Int
    BY PlaceFacts
  <1>2. ASSUME NEW j \in 1 .. Len(places) PROVE places[j].max < key
    <2>1. places[j].max <= Last(places).max /\ places # <<>> /\ Len(places) \in 1 .. Len(places)
      BY WithinList
    <2>2. key > Last(places).max /\ Last(places).max \in Int
      BY <1>1, <2>1 DEF Beyond, Last
    <2>3. QED
      BY <1>1, <2>1, <2>2
  <1>3. QED
    BY <1>1, <1>2 DEF GoesAt

LEMMA WherePushed ==
  ASSUME NEW places \in Seq(Place), Sorted(places), NEW key \in Int, ~ Beyond(places, key)
  PROVE  \E i \in 1 .. Len(places) :
           \/ Search(places, key) = At(i) /\ InPlace(places, i, key)
           \/ Search(places, key) = Missing(i) /\ BelowPlace(places, i, key)
  <1>1. Len(places) \in Nat /\ Len(places) # 0 /\ ~ (key > places[Len(places)].max)
    BY PlaceFacts, EmptySeq DEF Beyond, Last
  <1>2. PICK i \in 1 .. Len(places) + 1 :
          /\ \A j \in 1 .. i - 1 : places[j].max < key
          /\ \/ /\ Search(places, key) = At(i) /\ i <= Len(places)
                /\ places[i].min <= key /\ key <= places[i].max
             \/ /\ Search(places, key) = Missing(i)
                /\ i <= Len(places) => key < places[i].min
    BY SearchFinds DEF Answers
  <1>3. i <= Len(places)
    <2>1. SUFFICES ASSUME ~ (i <= Len(places)) PROVE FALSE
      OBVIOUS
    <2>2. Len(places) \in 1 .. i - 1 /\ Len(places) \in 1 .. Len(places)
      BY <1>1, <2>1
    <2>3. places[Len(places)].max < key /\ places[Len(places)].max \in Int
      BY <1>2, <2>2, PlaceFacts
    <2>4. QED
      BY <1>1, <2>3
  <1>4. i \in 1 .. Len(places)
    BY <1>1, <1>3
  <1>5. QED
    BY <1>2, <1>3, <1>4 DEF InPlace, BelowPlace

(* What the body of push makes of the results for the lists below l.       *)
IsPush(u, t, key, v, l, h) ==
    \/ Beyond(t[l], key) /\ u = Inserted(t, l, Len(t[l]) + 1, key, v)
    \/ \E i \in 1 .. Len(t[l]) :
          /\ InPlace(t[l], i, key)
          /\ u = IF t[l][i].list = 0 THEN Appended(t, l, i, v) ELSE h[t[l][i].list]
    \/ \E i \in 1 .. Len(t[l]) :
          /\ BelowPlace(t[l], i, key)
          /\ \/ u = Inserted(t, l, i, key, v)
             \/ u = IF t[l][i].list = 0 THEN MakeLeafToList(t, l, i, key, v)
                    ELSE Stretched(h[t[l][i].list], l, i, key)

LEMMA PushBodyCases ==
  ASSUME NEW t \in Good, NEW key \in Int, NEW v \in Nat, NEW l \in 1 .. Len(t), NEW h
  PROVE  IsPush(PushBody(t, key, v, l, h), t, key, v, l, h)
  <1>1. t[l] \in Seq(Place) /\ Sorted(t[l])
    BY GoodFacts
  <1>2. CASE Beyond(t[l], key)
    BY <1>2 DEF PushBody, IsPush
  <1>3. CASE ~ Beyond(t[l], key)
    <2> DEFINE found == Search(t[l], key)
    <2>1. PICK i \in 1 .. Len(t[l]) :
            \/ found = At(i) /\ InPlace(t[l], i, key)
            \/ found = Missing(i) /\ BelowPlace(t[l], i, key)
      BY <1>1, <1>3, WherePushed
    <2>2. CASE found = At(i) /\ InPlace(t[l], i, key)
      <3>1. found.ok = TRUE /\ found.at = i
        BY <2>2 DEF At
      <3> HIDE DEF found
      <3>2. PushBody(t, key, v, l, h) =
              IF t[l][i].list = 0 THEN Appended(t, l, i, v) ELSE h[t[l][i].list]
        BY <1>3, <3>1 DEF PushBody, IsLeaf, found
      <3>3. QED
        BY <2>2, <3>2 DEF IsPush
    <2>3. CASE found = Missing(i) /\ BelowPlace(t[l], i, key)
      <3>1. found.ok = FALSE /\ found.at = i
        BY <2>3 DEF Missing
      <3> HIDE DEF found
      <3>2. PushBody(t, key, v, l, h) =
              IF Len(t[l]) < MaxInsert THEN Inserted(t, l, i, key, v)
              ELSE IF t[l][i].list = 0 THEN MakeLeafToList(t, l, i, key, v)
              ELSE Stretched(h[t[l][i].list], l, i, key)
        BY <1>3, <3>1 DEF PushBody, IsLeaf, found
      <3>3. QED
        BY <2>3, <3>2 DEF IsPush
    <2>4. QED
      BY <2>1, <2>2, <2>3
  <1>4. QED
    BY <1>2, <1>3

LEMMA PushBodyTyped ==
  ASSUME NEW t \in Good, NEW key \in Int, NEW v \in Nat, NEW l \in 1 .. Len(t),
         NEW h, \A m \in 1 .. Len(t) : m > l => h[m] \in Trees
  PROVE  PushBody(t, key, v, l, h) \in Trees
  <1>1. /\ t \in Trees /\ Len(t[l]) \in Nat
        /\ \A i \in 1 .. Len(t[l]) : t[l][i].min \in Int
    BY GoodFacts, TreeFacts
  <1>2. \A i \in 1 .. Len(t[l]) : t[l][i].list # 0 => h[t[l][i].list] \in Trees
    BY GoodFacts
  <1>3. CASE PushBody(t, key, v, l, h) = Inserted(t, l, Len(t[l]) + 1, key, v)
    <2>1. Len(t[l]) + 1 \in 1 .. Len(t[l]) + 1
      BY <1>1
    <2>2. Inserted(t, l, Len(t[l]) + 1, key, v) \in Trees
      <3> DEFINE at == Len(t[l]) + 1
      <3>1. at \in 1 .. Len(t[l]) + 1
        BY <2>1
      <3> HIDE DEF at
      <3>2. Inserted(t, l, at, key, v) \in Trees
        BY <1>1, <3>1, InsertedFacts DEF IsInserted
      <3>3. QED
        BY <3>2 DEF at
    <2>3. QED
      BY <1>3, <2>2
  <1>4. ASSUME NEW i \in 1 .. Len(t[l]), PushBody(t, key, v, l, h) = Inserted(t, l, i, key, v)
        PROVE  PushBody(t, key, v, l, h) \in Trees
    <2>1. i \in 1 .. Len(t[l]) + 1
      BY <1>1
    <2>2. Inserted(t, l, i, key, v) \in Trees
      BY <1>1, <2>1, InsertedFacts DEF IsInserted
    <2>3. QED
      BY <1>4, <2>2
  <1>5. ASSUME NEW i \in 1 .. Len(t[l]),
               PushBody(t, key, v, l, h) =
                 IF t[l][i].list = 0 THEN Appended(t, l, i, v) ELSE h[t[l][i].list]
        PROVE  PushBody(t, key, v, l, h) \in Trees
    <2>1. Appended(t, l, i, v) \in Trees
      BY <1>1, AppendedFacts DEF IsAppended
    <2>2. QED
      BY <1>2, <1>5, <2>1
  <1>6. ASSUME NEW i \in 1 .. Len(t[l]), key < t[l][i].min,
               PushBody(t, key, v, l, h) =
                 IF t[l][i].list = 0 THEN MakeLeafToList(t, l, i, key, v)
                 ELSE Stretched(h[t[l][i].list], l, i, key)
        PROVE  PushBody(t, key, v, l, h) \in Trees
    <2>1. CASE t[l][i].list = 0
      <3>1. MakeLeafToList(t, l, i, key, v) \in Trees
        BY <1>1, <1>6, MakeLeafToListFacts DEF IsLeafToList
      <3>2. QED
        BY <1>6, <2>1, <3>1
    <2>2. CASE t[l][i].list # 0
      <3>1. l \in Nat /\ i \in Nat /\ h[t[l][i].list] \in Trees
        BY <1>2, <2>2
      <3>2. Stretched(h[t[l][i].list], l, i, key) \in Trees
        <4> DEFINE u == h[t[l][i].list]
        <4> HIDE DEF u
        <4>1. Stretched(u, l, i, key) \in Trees
          BY <3>1, StretchedFacts DEF u
        <4>2. QED
          BY <4>1 DEF u
      <3>3. QED
        BY <1>6, <2>2, <3>2
    <2>3. QED
      BY <2>1, <2>2
  <1>7. QED
    <2> DEFINE u == PushBody(t, key, v, l, h)
    <2>1. IsPush(u, t, key, v, l, h)
      BY PushBodyCases
    <2> HIDE DEF u
    <2>2. QED
      BY <1>3, <1>4, <1>5, <1>6, <2>1 DEF BelowPlace, IsPush, u

LEMMA PushFromDef ==
  ASSUME NEW t \in Good, NEW key \in Int, NEW v \in Nat, NEW l \in 1 .. Len(t)
  PROVE  /\ PushFrom(t, key, v)[l] \in Trees
         /\ PushFrom(t, key, v)[l] = PushBody(t, key, v, l, PushFrom(t, key, v))
  <1> DEFINE n == Len(t)
             G == [m \in 1 .. n |-> [h \in [1 .. n -> Trees] |-> PushBody(t, key, v, m, h)]]
  <1>1. n \in Nat /\ EmptyTree \in Trees /\ DOMAIN t = 1 .. n
    <2>1. <<>> \in Seq(Place)
      BY EmptySeq
    <2>2. EmptyTree \in Trees
      BY <2>1 DEF EmptyTree, Trees
    <2>3. QED
      BY <2>2, GoodFacts, TreeFacts
  <1>2. ASSUME NEW m \in 1 .. n, NEW h \in [1 .. n -> Trees]
        PROVE  /\ PushBody(t, key, v, m, h) \in Trees
               /\ PushBody(t, key, v, m, Above(n, h, m, EmptyTree)) = PushBody(t, key, v, m, h)
    <2>1. PushBody(t, key, v, m, h) \in Trees
      BY <1>2, PushBodyTyped
    <2>2. \A c \in 1 .. n : c > m => Above(n, h, m, EmptyTree)[c] = h[c]
      BY DEF Above
    <2>3. PushBody(t, key, v, m, Above(n, h, m, EmptyTree)) = PushBody(t, key, v, m, h)
      <3> DEFINE a == Above(n, h, m, EmptyTree)
                 found == Search(t[m], key)
      <3>1. CASE Beyond(t[m], key)
        BY <3>1 DEF PushBody
      <3>2. CASE ~ Beyond(t[m], key)
        <4>1. PICK i \in 1 .. Len(t[m]) : found = At(i) \/ found = Missing(i)
          BY <3>2, GoodFacts, WherePushed
        <4>2. found.at = i
          BY <4>1 DEF At, Missing
        <4>3. t[m][i].list # 0 => h[t[m][i].list] = a[t[m][i].list]
          BY <2>2, GoodFacts
        <4> HIDE DEF found, a
        <4>4. QED
          BY <4>2, <4>3 DEF PushBody, IsLeaf, found, a
      <3>3. QED
        BY <3>1, <3>2
    <2>4. QED
      BY <2>1, <2>3
  <1>3. PICK f \in [1 .. n -> Trees] : \A m \in 1 .. n : f[m] = G[m][Above(n, f, m, EmptyTree)]
    <2>1. FromAbove(n, Trees, G)
      BY <1>2 DEF FromAbove
    <2>2. n \in Nat /\ EmptyTree \in Trees
      BY <1>1
    <2> HIDE DEF G, n
    <2>3. QED
      BY <2>1, <2>2, DownwardRecursion
  <1>4. \A m \in 1 .. n : f[m] = PushBody(t, key, v, m, f)
    <2>1. SUFFICES ASSUME NEW m \in 1 .. n PROVE f[m] = PushBody(t, key, v, m, f)
      OBVIOUS
    <2>2. Above(n, f, m, EmptyTree) \in [1 .. n -> Trees]
      BY <1>1 DEF Above
    <2>3. G[m][Above(n, f, m, EmptyTree)] = PushBody(t, key, v, m, Above(n, f, m, EmptyTree))
      BY <2>2
    <2> HIDE DEF G
    <2>4. QED
      BY <1>2, <1>3, <2>3
  <1>5. f = [m \in DOMAIN t |-> PushBody(t, key, v, m, f)]
    BY <1>1, <1>3, <1>4
  <1> DEFINE g == PushFrom(t, key, v)
  <1>6. g = [m \in DOMAIN t |-> PushBody(t, key, v, m, g)]
    BY <1>5 DEF PushFrom, PushBody, Inserted, Appended, Stretched, Beyond
  <1> HIDE DEF g, G
  <1>7. \A m \in 1 .. n : g[m] = PushBody(t, key, v, m, g)
    BY <1>1, <1>6
  <1>8. \A m \in 1 .. n : g[m] \in Trees
    <2> DEFINE T == {m \in 1 .. n : g[m] \in Trees}
    <2>1. ASSUME NEW m \in 1 .. n, \A c \in m + 1 .. n : c \in T PROVE m \in T
      <3>1. \A c \in 1 .. n : c > m => g[c] \in Trees
        <4>1. \A c \in 1 .. n : c > m => c \in m + 1 .. n
          BY <1>1
        <4>2. QED
          BY <2>1, <4>1
      <3>2. PushBody(t, key, v, m, g) \in Trees
        BY <3>1, PushBodyTyped
      <3>3. QED
        BY <1>7, <3>2
    <2> HIDE DEF T
    <2>2. \A m \in 1 .. n : (\A c \in m + 1 .. n : c \in T) => m \in T
      BY <2>1
    <2>3. \A m \in 1 .. n : m \in T
      BY <1>1, <2>2, DownFrom
    <2>4. QED
      BY <2>3 DEF T
  <1>9. QED
    BY <1>7, <1>8 DEF g

-----------------------------------------------------------------------------
(* A push leaves the tree in shape and adds the value to those of its key. *)

(* The leaves are those there were, but that the key's has the value more. *)
Gained(t, u, key, v) ==
    \A k, vs : LeafOf(u, k, vs) <=> \/ k # key /\ LeafOf(t, k, vs)
                                    \/ k = key /\ vs = Append(Get(t, key), v)

(* What a push on the list l leaves: all but the lower limit that the      *)
(* place of the list has is as it should be.                               *)
After(t, u, l, key, v) ==
    /\ Shape(u, l) /\ Len(t) <= Len(u)
    /\ \A m \in 1 .. l - 1 : u[m] = t[m]
    /\ u[l] # <<>>
    /\ u[l][1].min = IF t[l] # <<>> /\ t[l][1].min <= key THEN t[l][1].min ELSE key
    /\ l # 1 => Last(u[l]).max = Last(t[l]).max
    /\ Gained(t, u, key, v)

LEMMA StillFits ==
  ASSUME NEW t, NEW u, NEW m \in Nat, NEW p \in Place, NEW l \in Nat,
         PlaceFits(t, m, p, 0), Len(t) \in Nat, Len(u) \in Nat, Len(t) <= Len(u),
         p.list # 0 => \/ u[p.list] = t[p.list]
                       \/ p.list = l /\ u[l] # <<>> /\ Last(u[l]).max = Last(t[l]).max
  PROVE  PlaceFits(u, m, p, l)
  <1>1. p.list \in Nat
    BY DEF Place
  <1>2. CASE p.list = 0
    BY <1>2 DEF PlaceFits
  <1>3. CASE p.list # 0
    <2>1. /\ p.list \in m + 1 .. Len(t) /\ t[p.list] # <<>>
          /\ p.max = Last(t[p.list]).max
          /\ p.min = t[p.list][1].min
      BY <1>3 DEF PlaceFits
    <2>2. p.list \in m + 1 .. Len(u)
      BY <2>1
    <2>3. QED
      BY <1>3, <2>1, <2>2 DEF PlaceFits
  <1>4. QED
    BY <1>2, <1>3

LEMMA InsertSorted ==
  ASSUME NEW places \in Seq(Place), Sorted(places), NEW at \in 1 .. Len(places) + 1,
         NEW e \in Place, e.min = e.max,
         GoesAt(places, at, e.min),
         NEW new \in Seq(Place), IsInsert(new, places, at, e)
  PROVE  Sorted(new)
  <1> DEFINE n == Len(places)
  <1>0. /\ \A j \in 1 .. at - 1 : places[j].max < e.min
        /\ at <= n => e.min < places[at].min
        /\ Len(new) = n + 1
        /\ \A j \in 1 .. n + 1 :
             new[j] = IF j < at THEN places[j] ELSE IF j = at THEN e ELSE places[j - 1]
    BY DEF GoesAt, IsInsert
  <1>1. /\ n \in Nat /\ e.min \in Int /\ e.max \in Int
        /\ \A j \in 1 .. n : places[j].min \in Int /\ places[j].max \in Int
    BY PlaceFacts DEF Place
  <1>2. \A j \in 1 .. n : places[j].min <= places[j].max
    BY DEF Sorted
  <1>3. \A i, j \in 1 .. n : i < j => places[i].max < places[j].min
    BY DEF Sorted
  <1>4. \A j \in 1 .. n : j >= at => e.max < places[j].min
    <2>1. SUFFICES ASSUME NEW j \in 1 .. n, j >= at PROVE e.max < places[j].min
      OBVIOUS
    <2>2. at \in 1 .. n /\ e.max < places[at].min
      BY <1>0, <1>1, <2>1
    <2>3. CASE j = at
      BY <2>2, <2>3
    <2>4. CASE j > at
      <3>1. places[at].min <= places[at].max /\ places[at].max < places[j].min
        BY <1>2, <1>3, <2>2, <2>4
      <3>2. QED
        BY <1>1, <2>2, <3>1
    <2>5. QED
      BY <2>1, <2>3, <2>4
  <1>5. \A j \in 1 .. n + 1 : new[j].min <= new[j].max
    <2>1. SUFFICES ASSUME NEW j \in 1 .. n + 1 PROVE new[j].min <= new[j].max
      OBVIOUS
    <2>2. CASE j < at
      <3>1. j \in 1 .. n
        BY <1>1, <2>2
      <3>2. QED
        BY <1>0, <1>1, <1>2, <2>2, <3>1
    <2>3. CASE j = at
      BY <1>0, <1>1, <2>3
    <2>4. CASE j > at
      <3>1. j - 1 \in 1 .. n /\ ~ (j < at) /\ j # at
        BY <1>1, <2>4
      <3>2. QED
        BY <1>0, <1>2, <3>1
    <2>5. QED
      BY <1>1, <2>2, <2>3, <2>4
  <1>6. ASSUME NEW i \in 1 .. n + 1, NEW j \in 1 .. n + 1, i < j
        PROVE  new[i].max < new[j].min
    <2>1. CASE j < at
      <3>1. i < at /\ i \in 1 .. n /\ j \in 1 .. n
        BY <1>1, <1>6, <2>1
      <3>2. new[i] = places[i] /\ new[j] = places[j]
        BY <1>0, <1>1, <2>1, <3>1
      <3>3. QED
        BY <1>3, <1>6, <3>1, <3>2
    <2>2. CASE j = at
      <3>1. i < at /\ i \in 1 .. at - 1
        BY <1>1, <1>6, <2>2
      <3>2. new[i] = places[i] /\ new[j] = e
        BY <1>0, <1>1, <2>2, <3>1
      <3>3. QED
        BY <1>0, <3>1, <3>2
    <2>3. CASE j > at
      <3>1. j - 1 \in 1 .. n /\ ~ (j < at) /\ j # at /\ j - 1 >= at
        BY <1>1, <2>3
      <3>2. new[j] = places[j - 1]
        BY <1>0, <3>1
      <3>3. CASE i < at
        <4>1. i \in 1 .. n /\ i < j - 1
          BY <1>1, <2>3, <3>3
        <4>2. QED
          BY <1>0, <1>3, <3>1, <3>2, <3>3, <4>1
      <3>4. CASE i = at
        <4>1. new[i] = e
          BY <1>0, <3>4
        <4>2. QED
          BY <1>4, <3>1, <3>2, <4>1
      <3>5. CASE i > at
        <4>1. i - 1 \in 1 .. n /\ ~ (i < at) /\ i # at /\ i - 1 < j - 1
          BY <1>1, <1>6, <3>5
        <4>2. new[i] = places[i - 1]
          BY <1>0, <4>1
        <4>3. QED
          BY <1>3, <3>1, <3>2, <4>1, <4>2
      <3>6. QED
        BY <1>1, <3>3, <3>4, <3>5
    <2>4. QED
      BY <1>1, <2>1, <2>2, <2>3
  <1>7. QED
    BY <1>0, <1>5, <1>6 DEF Sorted

LEMMA InsertAfter ==
  ASSUME NEW t \in Good, NEW key \in Keys, NEW v \in Nat, NEW l \in 1 .. Len(t),
         NEW at \in 1 .. Len(t[l]) + 1,
         GoesAt(t[l], at, key), at > Len(t[l]) => l = 1,
         Get(t, key) = <<>>
  PROVE  After(t, Inserted(t, l, at, key, v), l, key, v)
  <1> DEFINE u == Inserted(t, l, at, key, v)
             e == Leaf(key, <<v>>)
             N == Len(t[l])
             From(m, j) == IF m = l /\ j > at THEN j - 1 ELSE j
             To(m, i) == IF m = l /\ i >= at THEN i + 1 ELSE i
  <1>1. /\ t \in Trees /\ Fits(t, 0) /\ Hang(t) /\ Len(t) \in Nat /\ key \in Int
        /\ t[l] \in Seq(Place) /\ Sorted(t[l]) /\ N \in Nat /\ t # <<>>
        /\ \A m \in 1 .. Len(t) : Len(t[m]) \in Nat
    BY GoodFacts, TreeFacts, BTreeVecConstants DEF Good, Shape
  <1>2. /\ e \in Place /\ e.min = key /\ e.max = key /\ e.leaf = <<v>> /\ e.list = 0
        /\ e.leaf # <<>> /\ e.min \in Keys
    <2>1. <<v>> \in Seq(Nat) /\ <<v>> # <<>>
      OBVIOUS
    <2>2. QED
      BY <1>1, <2>1, LeafIsPlace
  <1>3. /\ u \in Trees /\ Len(u) = Len(t) /\ Len(u[l]) = N + 1
        /\ \A m \in 1 .. Len(t) : m # l => u[m] = t[m]
        /\ \A j \in 1 .. N + 1 :
             u[l][j] = IF j < at THEN t[l][j] ELSE IF j = at THEN e ELSE t[l][j - 1]
    <2>1. IsInserted(u, t, l, at, e)
      BY <1>1, InsertedFacts
    <2> HIDE DEF u, e
    <2>2. QED
      BY <2>1 DEF IsInserted, IsInsert
  <1> HIDE DEF u, e
  <1>0. /\ \A j \in 1 .. at - 1 : t[l][j].max < key
        /\ at <= N => key < t[l][at].min
    BY DEF GoesAt
  <1>4. u[l] \in Seq(Place) /\ u[l] # <<>> /\ u # <<>>
    <2>1. Len(u) # 0 /\ Len(u[l]) # 0
      BY <1>1, <1>3
    <2>2. u[l] \in Seq(Place)
      BY <1>3, TreeFacts
    <2>3. QED
      BY <1>3, <2>1, <2>2, EmptySeq DEF Trees
  <1>5. \A m \in 1 .. Len(u) : Sorted(u[m])
    <2>1. Sorted(u[l])
      <3> DEFINE q == t[l]
                 new == u[l]
      <3>1. q \in Seq(Place) /\ Sorted(q) /\ new \in Seq(Place) /\ at \in 1 .. Len(q) + 1
            /\ GoesAt(q, at, e.min) /\ e.min = e.max
        BY <1>1, <1>2, <1>4
      <3>2. IsInsert(new, q, at, e)
        BY <1>3 DEF IsInsert
      <3> HIDE DEF q, new
      <3>3. Sorted(new)
        BY <1>2, <3>1, <3>2, InsertSorted
      <3>4. QED
        BY <3>3 DEF new
    <2>2. QED
      BY <1>1, <1>3, <2>1 DEF Fits
  <1>6. ASSUME NEW m \in 1 .. Len(u), NEW j \in 1 .. Len(u[m])
        PROVE  \/ m = l /\ j = at /\ u[m][j] = e
               \/ /\ From(m, j) \in 1 .. Len(t[m]) /\ u[m][j] = t[m][From(m, j)]
                  /\ ~ (m = l /\ j = at)
    <2>1. CASE m # l
      BY <1>3, <2>1
    <2>2. CASE m = l /\ j < at
      BY <1>1, <1>3, <2>2
    <2>3. CASE m = l /\ j = at
      BY <1>1, <1>3, <2>3
    <2>4. CASE m = l /\ j > at
      BY <1>1, <1>3, <2>4
    <2>5. QED
      BY <1>1, <1>3, <2>1, <2>2, <2>3, <2>4
  <1>7. ASSUME NEW m \in 1 .. Len(t), NEW i \in 1 .. Len(t[m])
        PROVE  To(m, i) \in 1 .. Len(u[m]) /\ u[m][To(m, i)] = t[m][i]
    <2>1. CASE m # l
      BY <1>3, <2>1
    <2>2. CASE m = l /\ i < at
      BY <1>1, <1>3, <2>2
    <2>3. CASE m = l /\ i >= at
      <3>1. i + 1 \in 1 .. N + 1 /\ ~ (i + 1 < at) /\ i + 1 # at /\ i + 1 - 1 = i
        BY <1>1, <2>3
      <3>2. QED
        BY <1>3, <2>3, <3>1
    <2>4. QED
      BY <1>1, <2>1, <2>2, <2>3
  <1>8. l # 1 => Last(u[l]).max = Last(t[l]).max
    <2>1. SUFFICES ASSUME l # 1 PROVE Last(u[l]).max = Last(t[l]).max
      OBVIOUS
    <2>2. at <= N /\ N + 1 \in 1 .. N + 1 /\ ~ (N + 1 < at) /\ N + 1 # at /\ N + 1 - 1 = N
      BY <1>1, <2>1
    <2>3. u[l][N + 1] = t[l][N]
      BY <1>3, <2>2
    <2>4. QED
      BY <1>3, <2>3 DEF Last
  <1>9. Fits(u, l)
    <2>1. SUFFICES ASSUME NEW m \in 1 .. Len(u), NEW j \in 1 .. Len(u[m])
                   PROVE  PlaceFits(u, m, u[m][j], l)
      BY <1>5 DEF Fits
    <2>2. CASE u[m][j] = e
      BY <1>2, <2>2 DEF PlaceFits
    <2>3. ASSUME NEW i \in 1 .. Len(t[m]), u[m][j] = t[m][i]
          PROVE  PlaceFits(u, m, u[m][j], l)
      <3> DEFINE p == t[m][i]
      <3>1. PlaceFits(t, m, p, 0) /\ p \in Place /\ m \in Nat /\ l \in Nat
        <4>1. m \in 1 .. Len(t)
          BY <1>3
        <4>2. PlaceFits(t, m, p, 0)
          BY <1>1, <4>1, PlaceHasFit
        <4>3. QED
          BY <1>1, <4>1, <4>2, TreeFacts
      <3>2. p.list # 0 => p.list \in 1 .. Len(t) /\ p.list # 1
        BY <1>1, <1>3, <3>1 DEF PlaceFits
      <3> HIDE DEF p
      <3>3. p.list # 0 => \/ u[p.list] = t[p.list]
                          \/ p.list = l /\ u[l] # <<>> /\ Last(u[l]).max = Last(t[l]).max
        BY <1>3, <1>4, <1>8, <3>2
      <3>4. Len(u) \in Nat /\ Len(t) <= Len(u)
        BY <1>1, <1>3
      <3>5. PlaceFits(u, m, p, l)
        BY <1>1, <3>1, <3>3, <3>4, StillFits
      <3>6. QED
        BY <2>3, <3>5 DEF p
    <2> HIDE DEF From
    <2>4. QED
      BY <1>3, <1>6, <2>2, <2>3
  <1>10. Hang(u)
    <2>1. ASSUME NEW k, NEW i, NEW m, NEW j, SameList(u, k, i, m, j)
          PROVE  k = m /\ i = j
      <3>0. /\ k \in 1 .. Len(u) /\ i \in 1 .. Len(u[k]) /\ m \in 1 .. Len(u) /\ j \in 1 .. Len(u[m])
            /\ u[k][i].list # 0 /\ u[k][i].list = u[m][j].list
        BY <2>1 DEF SameList
      <3>1. /\ From(k, i) \in 1 .. Len(t[k]) /\ u[k][i] = t[k][From(k, i)] /\ ~ (k = l /\ i = at)
            /\ From(m, j) \in 1 .. Len(t[m]) /\ u[m][j] = t[m][From(m, j)] /\ ~ (m = l /\ j = at)
        <4> HIDE DEF From
        <4>1. QED
          BY <1>2, <1>6, <3>0
      <3>2. k = m /\ From(k, i) = From(m, j)
        <4> DEFINE a == From(k, i)
                   b == From(m, j)
        <4> HIDE DEF From
        <4>1. SameList(t, k, a, m, b)
          BY <1>3, <3>0, <3>1 DEF SameList
        <4> HIDE DEF a, b
        <4>2. k = m /\ a = b
          BY <1>1, <4>1 DEF Hang
        <4>3. QED
          BY <4>2 DEF a, b
      <3>3. QED
        BY <1>1, <3>0, <3>1, <3>2
    <2>2. ASSUME NEW m \in 2 .. Len(u)
          PROVE  Hung(u, m)
      <3>1. m \in 2 .. Len(t)
        BY <1>3
      <3>2. PICK k \in 1 .. Len(t) : \E i \in 1 .. Len(t[k]) : t[k][i].list = m
        BY <1>1, <3>1 DEF Hang, Hung
      <3>3. PICK i \in 1 .. Len(t[k]) : t[k][i].list = m
        BY <3>2
      <3>4. To(k, i) \in 1 .. Len(u[k]) /\ u[k][To(k, i)].list = m
        <4> HIDE DEF To
        <4>1. QED
          BY <1>7, <3>3
      <3> HIDE DEF To
      <3>5. QED
        BY <1>3, <3>4 DEF Hung
    <2> HIDE DEF From, To
    <2>3. QED
      BY <2>1, <2>2 DEF Hang
  <1>11. Gained(t, u, key, v)
    <2>1. ASSUME NEW k, NEW vs
          PROVE  LeafOf(u, k, vs) <=> LeafOf(t, k, vs) \/ (k = key /\ vs = <<v>>)
      <3>1. ASSUME LeafOf(u, k, vs) PROVE LeafOf(t, k, vs) \/ (k = key /\ vs = <<v>>)
        <4>1. PICK m \in 1 .. Len(u) : \E j \in 1 .. Len(u[m]) :
                u[m][j].list = 0 /\ u[m][j].min = k /\ u[m][j].leaf = vs
          BY <3>1 DEF LeafOf
        <4>2. PICK j \in 1 .. Len(u[m]) :
                u[m][j].list = 0 /\ u[m][j].min = k /\ u[m][j].leaf = vs
          BY <4>1
        <4> HIDE DEF From
        <4>3. CASE u[m][j] = e
          BY <1>2, <4>2, <4>3
        <4>4. CASE From(m, j) \in 1 .. Len(t[m]) /\ u[m][j] = t[m][From(m, j)]
          BY <1>3, <4>2, <4>4 DEF LeafOf
        <4>5. QED
          BY <1>6, <4>3, <4>4
      <3>2. ASSUME LeafOf(t, k, vs) PROVE LeafOf(u, k, vs)
        <4>1. PICK m \in 1 .. Len(t) : \E i \in 1 .. Len(t[m]) :
                t[m][i].list = 0 /\ t[m][i].min = k /\ t[m][i].leaf = vs
          BY <3>2 DEF LeafOf
        <4>2. PICK i \in 1 .. Len(t[m]) :
                t[m][i].list = 0 /\ t[m][i].min = k /\ t[m][i].leaf = vs
          BY <4>1
        <4> HIDE DEF To
        <4>3. To(m, i) \in 1 .. Len(u[m]) /\ u[m][To(m, i)] = t[m][i]
          BY <1>7
        <4>4. QED
          BY <1>3, <4>2, <4>3 DEF LeafOf
      <3>3. ASSUME k = key, vs = <<v>> PROVE LeafOf(u, k, vs)
        <4>1. at \in 1 .. Len(u[l]) /\ u[l][at] = e
          BY <1>1, <1>3
        <4>2. QED
          BY <1>2, <1>3, <3>3, <4>1 DEF LeafOf
      <3>4. QED
        BY <3>1, <3>2, <3>3
    <2>2. \A vs : ~ LeafOf(t, key, vs)
      BY <1>1, GetLeaves
    <2>3. Append(Get(t, key), v) = <<v>>
      OBVIOUS
    <2>4. QED
      BY <2>1, <2>2, <2>3 DEF Gained
  <1>12. u[l][1].min = IF t[l] # <<>> /\ t[l][1].min <= key THEN t[l][1].min ELSE key
    <2>1. CASE at = 1
      <3>1. u[l][1] = e
        BY <1>1, <1>3, <2>1
      <3>2. t[l] # <<>> => ~ (t[l][1].min <= key)
        <4>1. SUFFICES ASSUME t[l] # <<>> PROVE ~ (t[l][1].min <= key)
          OBVIOUS
        <4>2. 1 \in 1 .. N
          BY <1>1, <4>1, EmptySeq
        <4>3. t[l][1].min \in Int /\ key < t[l][1].min
          BY <1>0, <1>1, <2>1, <4>2, PlaceFacts
        <4>4. QED
          BY <1>1, <4>3
      <3>3. QED
        BY <1>2, <3>1, <3>2
    <2>2. CASE at # 1
      <3>1. 1 \in 1 .. at - 1 /\ 1 \in 1 .. N /\ 1 < at
        BY <1>1, <2>2
      <3>2. u[l][1] = t[l][1]
        BY <1>3, <3>1, SMTT(30)
      <3>3. t[l][1].min \in Int /\ t[l][1].max \in Int
        BY <1>1, <3>1, PlaceFacts
      <3>4. t[l][1].min <= t[l][1].max /\ t[l][1].max < key
        BY <1>0, <1>1, <3>1 DEF Sorted
      <3>5. t[l] # <<>>
        BY <3>1, EmptySeq
      <3>6. QED
        BY <1>1, <3>2, <3>3, <3>4, <3>5
    <2>3. QED
      BY <2>1, <2>2
  <1>13. Shape(u, l)
    BY <1>3, <1>4, <1>9, <1>10 DEF Shape
  <1>14. \A m \in 1 .. l - 1 : u[m] = t[m]
    BY <1>1, <1>3
  <1>15. Len(t) <= Len(u)
    BY <1>1, <1>3
  <1>16. After(t, u, l, key, v)
    BY <1>4, <1>8, <1>11, <1>12, <1>13, <1>14, <1>15 DEF After
  <1>17. QED
    BY <1>16 DEF u

(* Places like those of another tree but for the values in the leaves.     *)
Alike(u, t) ==
    /\ Len(u) = Len(t)
    /\ \A m \in 1 .. Len(t) :
        /\ Len(u[m]) = Len(t[m])
        /\ \A j \in 1 .. Len(t[m]) :
            /\ u[m][j].min = t[m][j].min /\ u[m][j].max = t[m][j].max
            /\ u[m][j].list = t[m][j].list
            /\ t[m][j].list = 0 => u[m][j].leaf # <<>>

LEMMA SameSorted ==
  ASSUME NEW a, NEW b, Sorted(a), Len(b) = Len(a),
         \A j \in 1 .. Len(a) : b[j].min = a[j].min /\ b[j].max = a[j].max
  PROVE  Sorted(b)
  BY DEF Sorted

LEMMA AlikeGood ==
  ASSUME NEW t \in Good, NEW u \in Trees, Alike(u, t)
  PROVE  u \in Good
  <1>1. /\ t \in Trees /\ Fits(t, 0) /\ Hang(t) /\ t # <<>> /\ Len(t) \in Nat
        /\ \A m \in 1 .. Len(t) : Sorted(t[m])
    BY TreeFacts DEF Good, Shape, Fits
  <1>2. /\ Len(u) = Len(t)
        /\ \A m \in 1 .. Len(t) : Len(u[m]) = Len(t[m])
        /\ \A m \in 1 .. Len(t) : \A j \in 1 .. Len(t[m]) :
            /\ u[m][j].min = t[m][j].min /\ u[m][j].max = t[m][j].max
            /\ u[m][j].list = t[m][j].list
            /\ t[m][j].list = 0 => u[m][j].leaf # <<>>
    BY DEF Alike
  <1>3. u # <<>>
    BY <1>1, <1>2, TreeFacts, EmptySeq DEF Trees
  <1>4. ASSUME NEW m \in 1 .. Len(u) PROVE Sorted(u[m])
    <2> DEFINE a == t[m]
               b == u[m]
    <2>1. Sorted(a) /\ Len(b) = Len(a)
      BY <1>1, <1>2
    <2>2. \A j \in 1 .. Len(a) : b[j].min = a[j].min /\ b[j].max = a[j].max
      BY <1>2
    <2> HIDE DEF a, b
    <2>3. Sorted(b)
      BY <2>1, <2>2, SameSorted
    <2>4. QED
      BY <2>3 DEF b
  <1>5. ASSUME NEW m \in 1 .. Len(t), t[m] # <<>>
        PROVE  u[m] # <<>> /\ u[m][1].min = t[m][1].min /\ Last(u[m]).max = Last(t[m]).max
    <2>1. Len(t[m]) \in Nat /\ Len(t[m]) # 0
      BY <1>1, <1>5, TreeFacts
    <2>2. Len(u[m]) = Len(t[m]) /\ 1 \in 1 .. Len(t[m]) /\ Len(t[m]) \in 1 .. Len(t[m])
      BY <1>2, <2>1
    <2>3. u[m] # <<>>
      BY <2>1, <2>2, EmptySeq
    <2>4. u[m][1].min = t[m][1].min /\ u[m][Len(t[m])].max = t[m][Len(t[m])].max
      BY <1>2, <2>2
    <2>5. QED
      BY <2>2, <2>3, <2>4 DEF Last
  <1>6. ASSUME NEW m \in 1 .. Len(u), NEW j \in 1 .. Len(u[m])
        PROVE  PlaceFits(u, m, u[m][j], 0)
    <2> DEFINE p == t[m][j]
               q == u[m][j]
    <2>1. PlaceFits(t, m, p, 0) /\ p.list \in Nat /\ m \in Nat
      BY <1>1, <1>2, PlaceHasFit, TreeFacts
    <2>2. q.min = p.min /\ q.max = p.max /\ q.list = p.list /\ (p.list = 0 => q.leaf # <<>>)
      BY <1>2
    <2> HIDE DEF p, q
    <2>3. CASE p.list = 0
      BY <2>1, <2>2, <2>3 DEF PlaceFits, q
    <2>4. CASE p.list # 0
      <3>1. /\ p.list \in m + 1 .. Len(t) /\ t[p.list] # <<>>
            /\ p.max = Last(t[p.list]).max /\ p.min = t[p.list][1].min
        BY <2>1, <2>4 DEF PlaceFits
      <3>2. p.list \in 1 .. Len(t)
        BY <2>1, <3>1
      <3>3. /\ u[p.list] # <<>> /\ u[p.list][1].min = t[p.list][1].min
            /\ Last(u[p.list]).max = Last(t[p.list]).max
        BY <1>5, <3>1, <3>2
      <3>4. PlaceFits(u, m, q, 0)
        BY <1>2, <2>2, <2>4, <3>1, <3>3 DEF PlaceFits
      <3>5. QED
        BY <3>4 DEF q
    <2>5. QED
      BY <2>3, <2>4
  <1>7. Hang(u)
    <2>1. ASSUME NEW l, NEW i, NEW m, NEW j, SameList(u, l, i, m, j)
          PROVE  l = m /\ i = j
      <3>1. SameList(t, l, i, m, j)
        BY <1>2, <2>1 DEF SameList
      <3>2. QED
        BY <1>1, <3>1 DEF Hang
    <2>2. ASSUME NEW m \in 2 .. Len(u) PROVE Hung(u, m)
      <3>1. Hung(t, m)
        BY <1>1, <1>2 DEF Hang
      <3>2. QED
        BY <1>2, <3>1 DEF Hung
    <2>3. QED
      BY <2>1, <2>2 DEF Hang
  <1>8. Fits(u, 0)
    BY <1>4, <1>6 DEF Fits
  <1>9. QED
    BY <1>3, <1>7, <1>8 DEF Good, Shape

LEMMA AnyExempt ==
  ASSUME NEW t \in Good, NEW x
  PROVE  Shape(t, x)
  <1>1. t \in Trees /\ t # <<>> /\ Fits(t, 0) /\ Hang(t)
    BY DEF Good, Shape
  <1>2. \A l \in 1 .. Len(t) : Sorted(t[l])
    BY <1>1 DEF Fits
  <1>3. ASSUME NEW l \in 1 .. Len(t), NEW i \in 1 .. Len(t[l])
        PROVE  PlaceFits(t, l, t[l][i], x)
    <2>1. PlaceFits(t, l, t[l][i], 0)
      BY <1>1, PlaceHasFit
    <2>2. QED
      BY <2>1 DEF PlaceFits
  <1>4. QED
    BY <1>1, <1>2, <1>3 DEF Shape, Fits

LEMMA AppendAfter ==
  ASSUME NEW t \in Good, NEW key \in Keys, NEW v \in Nat, NEW l \in 1 .. Len(t),
         NEW i \in 1 .. Len(t[l]), InPlace(t[l], i, key), t[l][i].list = 0
  PROVE  After(t, Appended(t, l, i, v), l, key, v)
  <1> DEFINE u == Appended(t, l, i, v)
  <1>1. /\ t \in Trees /\ Len(t) \in Nat /\ key \in Int /\ Fits(t, 0)
        /\ t[l] \in Seq(Place) /\ Sorted(t[l]) /\ Len(t[l]) \in Nat
        /\ t[l][i].min \in Int /\ t[l][i].max \in Int /\ t[l][i].leaf \in Seq(Nat)
    BY GoodFacts, TreeFacts, BTreeVecConstants
  <1>2. /\ u \in Trees /\ Len(u) = Len(t) /\ Len(u[l]) = Len(t[l])
        /\ \A m \in 1 .. Len(t) : m # l => u[m] = t[m]
        /\ \A j \in 1 .. Len(t[l]) : j # i => u[l][j] = t[l][j]
        /\ u[l][i].min = t[l][i].min /\ u[l][i].max = t[l][i].max
        /\ u[l][i].list = t[l][i].list /\ u[l][i].leaf = Append(t[l][i].leaf, v)
    <2>1. IsAppended(u, t, l, i, v)
      BY <1>1, AppendedFacts
    <2> HIDE DEF u
    <2>2. QED
      BY <2>1 DEF IsAppended
  <1> HIDE DEF u
  <1>3. t[l][i].min = key /\ t[l][i].max = key
    <2>1. t[l][i].min = t[l][i].max
      BY <1>1, PlaceHasFit DEF PlaceFits
    <2>2. QED
      BY <1>1, <2>1 DEF InPlace
  <1>4. Append(t[l][i].leaf, v) # <<>>
    <2> DEFINE q == t[l][i].leaf
    <2>1. q \in Seq(Nat) /\ Len(q) \in Nat
      BY <1>1, LenProperties
    <2> HIDE DEF q
    <2>2. Append(q, v) \in Seq(Nat) /\ Len(Append(q, v)) = Len(q) + 1
      BY <2>1, AppendProperties
    <2>3. Append(q, v) # <<>>
      <3> DEFINE w == Append(q, v)
      <3>1. w \in Seq(Nat) /\ Len(w) # 0
        BY <2>1, <2>2
      <3> HIDE DEF w
      <3>2. w # <<>>
        BY <3>1, EmptySeq
      <3>3. QED
        BY <3>2 DEF w
    <2>4. QED
      BY <2>3 DEF q
  <1>5. Alike(u, t)
    <2>1. ASSUME NEW m \in 1 .. Len(t)
          PROVE  Len(u[m]) = Len(t[m])
      BY <1>2
    <2>2. ASSUME NEW m \in 1 .. Len(t), NEW j \in 1 .. Len(t[m])
          PROVE  /\ u[m][j].min = t[m][j].min /\ u[m][j].max = t[m][j].max
                 /\ u[m][j].list = t[m][j].list
                 /\ t[m][j].list = 0 => u[m][j].leaf # <<>>
      <3>1. CASE m = l /\ j = i
        BY <1>2, <1>4, <3>1
      <3>2. CASE ~ (m = l /\ j = i)
        <4>1. u[m][j] = t[m][j]
          BY <1>2, <3>2
        <4>2. t[m][j].list = 0 => t[m][j].leaf # <<>>
          <5>1. PlaceFits(t, m, t[m][j], 0)
            BY <1>1, PlaceHasFit
          <5>2. QED
            BY <5>1 DEF PlaceFits
        <4>3. QED
          BY <4>1, <4>2
      <3>3. QED
        BY <3>1, <3>2
    <2>3. QED
      BY <1>2, <2>1, <2>2 DEF Alike
  <1>6. u \in Good
    BY <1>2, <1>5, AlikeGood
  <1>7. Get(t, key) = t[l][i].leaf
    <2>1. t[l][i].min <= key /\ key <= t[l][i].max
      BY DEF InPlace
    <2>2. QED
      BY <1>1, <2>1, PlaceReached
  <1>8. Gained(t, u, key, v)
    <2>1. LeafOf(u, key, Append(Get(t, key), v))
      BY <1>2, <1>3, <1>7 DEF LeafOf
    <2>2. ASSUME NEW vs PROVE LeafOf(u, key, vs) <=> vs = Append(Get(t, key), v)
      <3> DEFINE w == Append(Get(t, key), v)
      <3>1. w # <<>> /\ LeafOf(u, key, w)
        BY <1>4, <1>7, <2>1
      <3> HIDE DEF w
      <3>2. w = Get(u, key)
        BY <1>1, <1>6, <3>1, GetLeaves
      <3>3. LeafOf(u, key, vs) <=> vs = w
        BY <1>1, <1>6, <3>1, <3>2, GetLeaves
      <3>4. QED
        BY <3>3 DEF w
    <2>3. ASSUME NEW k, NEW vs, k # key PROVE LeafOf(u, k, vs) <=> LeafOf(t, k, vs)
      <3>1. ASSUME NEW m \in 1 .. Len(t), NEW j \in 1 .. Len(t[m])
            PROVE  t[m][j].min = k \/ u[m][j].min = k => u[m][j] = t[m][j]
        BY <1>2, <1>3, <2>3
      <3>2. \A m \in 1 .. Len(t) : Len(u[m]) = Len(t[m])
        BY <1>2
      <3>3. ASSUME LeafOf(u, k, vs) PROVE LeafOf(t, k, vs)
        <4>1. PICK m \in 1 .. Len(u) : \E j \in 1 .. Len(u[m]) :
                u[m][j].list = 0 /\ u[m][j].min = k /\ u[m][j].leaf = vs
          BY <3>3 DEF LeafOf
        <4>2. PICK j \in 1 .. Len(u[m]) :
                u[m][j].list = 0 /\ u[m][j].min = k /\ u[m][j].leaf = vs
          BY <4>1
        <4>3. m \in 1 .. Len(t) /\ j \in 1 .. Len(t[m]) /\ u[m][j] = t[m][j]
          BY <1>2, <3>1, <3>2, <4>2
        <4>4. QED
          BY <4>2, <4>3 DEF LeafOf
      <3>4. ASSUME LeafOf(t, k, vs) PROVE LeafOf(u, k, vs)
        <4>1. PICK m \in 1 .. Len(t) : \E j \in 1 .. Len(t[m]) :
                t[m][j].list = 0 /\ t[m][j].min = k /\ t[m][j].leaf = vs
          BY <3>4 DEF LeafOf
        <4>2. PICK j \in 1 .. Len(t[m]) :
                t[m][j].list = 0 /\ t[m][j].min = k /\ t[m][j].leaf = vs
          BY <4>1
        <4>3. m \in 1 .. Len(u) /\ j \in 1 .. Len(u[m]) /\ u[m][j] = t[m][j]
          BY <1>2, <3>1, <3>2, <4>2
        <4>4. QED
          BY <4>2, <4>3 DEF LeafOf
      <3>5. QED
        BY <3>3, <3>4
    <2>4. QED
      BY <2>2, <2>3 DEF Gained
  <1>9. /\ t[l][1].min <= t[l][i].min /\ 1 \in 1 .. Len(t[l])
        /\ Len(t[l]) \in 1 .. Len(t[l]) /\ t[l] # <<>>
    BY <1>1, WithinList
  <1>10. u[l] # <<>>
    BY <1>2, <1>9, EmptySeq
  <1>11. u[l][1].min = IF t[l] # <<>> /\ t[l][1].min <= key THEN t[l][1].min ELSE key
    <2>1. u[l][1].min = t[l][1].min
      BY <1>2, <1>9
    <2>2. QED
      BY <1>3, <1>9, <2>1
  <1>12. Last(u[l]).max = Last(t[l]).max
    <2>1. u[l][Len(t[l])].max = t[l][Len(t[l])].max
      BY <1>2, <1>9
    <2>2. QED
      BY <1>2, <2>1 DEF Last
  <1>13. Shape(u, l) /\ Len(t) <= Len(u) /\ \A m \in 1 .. l - 1 : u[m] = t[m]
    BY <1>1, <1>2, <1>6, AnyExempt
  <1>14. After(t, u, l, key, v)
    BY <1>8, <1>10, <1>11, <1>12, <1>13 DEF After
  <1>15. QED
    BY <1>14 DEF u

LEMMA IntoAfter ==
  ASSUME NEW t \in Good, NEW key \in Keys, NEW v \in Nat, NEW l \in 1 .. Len(t),
         NEW i \in 1 .. Len(t[l]), InPlace(t[l], i, key), t[l][i].list # 0,
         NEW u, After(t, u, t[l][i].list, key, v)
  PROVE  After(t, u, l, key, v)
  <1> DEFINE c == t[l][i].list
  <1>1. /\ t \in Trees /\ Len(t) \in Nat /\ key \in Int /\ Fits(t, 0)
        /\ t[l] \in Seq(Place) /\ Sorted(t[l]) /\ Len(t[l]) \in Nat
        /\ t[l][i].min \in Int /\ t[l][i].max \in Int
        /\ c \in 1 .. Len(t) /\ c > l
    BY GoodFacts, TreeFacts, BTreeVecConstants
  <1>2. t[c] # <<>> /\ t[l][i].min = t[c][1].min
    <2>1. PlaceFits(t, l, t[l][i], 0)
      BY <1>1, PlaceHasFit
    <2>2. QED
      BY <1>1, <2>1 DEF PlaceFits
  <1>3. c = t[l][i].list
    OBVIOUS
  <1> HIDE DEF c
  <1>4. /\ Shape(u, c) /\ Len(t) <= Len(u)
        /\ \A m \in 1 .. c - 1 : u[m] = t[m]
        /\ u[c] # <<>>
        /\ u[c][1].min = IF t[c] # <<>> /\ t[c][1].min <= key THEN t[c][1].min ELSE key
        /\ Gained(t, u, key, v)
    BY <1>3 DEF After
  <1>5. /\ u \in Trees /\ u # <<>> /\ Fits(u, c) /\ Hang(u) /\ Len(u) \in Nat
        /\ \A m \in 1 .. Len(u) : Sorted(u[m])
    BY <1>4, TreeFacts DEF Shape, Fits
  <1>6. u[l] = t[l] /\ \A m \in 1 .. l - 1 : u[m] = t[m]
    BY <1>1, <1>4
  <1>7. u[c][1].min = t[l][i].min
    BY <1>1, <1>2, <1>4 DEF InPlace
  <1>8. ASSUME NEW m \in 1 .. Len(u), NEW j \in 1 .. Len(u[m])
        PROVE  PlaceFits(u, m, u[m][j], l)
    <2>1. PlaceFits(u, m, u[m][j], c)
      BY <1>5, PlaceHasFit
    <2>2. CASE u[m][j].list = c
      <3>1. SameList(u, l, i, m, j)
        BY <1>1, <1>3, <1>4, <1>6, <2>2 DEF SameList
      <3>2. l = m /\ i = j
        BY <1>5, <3>1 DEF Hang
      <3>3. u[m][j].min = u[c][1].min
        BY <1>6, <1>7, <3>2
      <3>4. QED
        BY <2>1, <2>2, <3>3 DEF PlaceFits
    <2>3. CASE u[m][j].list # c
      BY <2>1, <2>3 DEF PlaceFits
    <2>4. QED
      BY <2>2, <2>3
  <1>9. Shape(u, l)
    BY <1>5, <1>8 DEF Shape, Fits
  <1>10. /\ t[l][1].min <= t[l][i].min /\ 1 \in 1 .. Len(t[l]) /\ t[l] # <<>>
    BY <1>1, WithinList
  <1>11. u[l][1].min = IF t[l] # <<>> /\ t[l][1].min <= key THEN t[l][1].min ELSE key
    <2>1. t[l][1].min \in Int /\ t[l][i].min <= key
      BY <1>1, <1>10, PlaceFacts DEF InPlace
    <2>2. QED
      BY <1>1, <1>6, <1>10, <2>1
  <1>12. QED
    BY <1>4, <1>6, <1>9, <1>10, <1>11 DEF After

(* A lower limit that is lowered to a key below the range and above the    *)
(* ranges before.                                                          *)
IsLowered(new, places, i, key) ==
    /\ Len(new) = Len(places)
    /\ \A j \in 1 .. Len(places) : new[j].max = places[j].max
    /\ \A j \in 1 .. Len(places) : j # i => new[j].min = places[j].min
    /\ new[i].min = key

LEMMA LoweredSorted ==
  ASSUME NEW places \in Seq(Place), Sorted(places), NEW i \in 1 .. Len(places),
         NEW key \in Int, BelowPlace(places, i, key), NEW new, IsLowered(new, places, i, key)
  PROVE  Sorted(new)
  <1>1. /\ Len(places) \in Nat
        /\ \A j \in 1 .. Len(places) : places[j].min \in Int /\ places[j].max \in Int
    BY PlaceFacts
  <1>2. /\ Len(new) = Len(places)
        /\ \A j \in 1 .. Len(places) : new[j].max = places[j].max
        /\ \A j \in 1 .. Len(places) : j # i => new[j].min = places[j].min
        /\ new[i].min = key
    BY DEF IsLowered
  <1>3. (\A j \in 1 .. i - 1 : places[j].max < key) /\ key < places[i].min
    BY DEF BelowPlace
  <1>4. /\ \A j \in 1 .. Len(places) : places[j].min <= places[j].max
        /\ \A j, m \in 1 .. Len(places) : j < m => places[j].max < places[m].min
    BY DEF Sorted
  <1>5. ASSUME NEW j \in 1 .. Len(new) PROVE new[j].min <= new[j].max
    <2>1. CASE j = i
      BY <1>1, <1>2, <1>3, <1>4, <2>1
    <2>2. CASE j # i
      BY <1>2, <1>4, <2>2
    <2>3. QED
      BY <2>1, <2>2
  <1>6. ASSUME NEW j \in 1 .. Len(new), NEW m \in 1 .. Len(new), j < m
        PROVE  new[j].max < new[m].min
    <2>1. CASE m = i
      <3>1. j \in 1 .. i - 1
        BY <1>1, <1>2, <1>6, <2>1
      <3>2. QED
        BY <1>2, <1>3, <2>1, <3>1
    <2>2. CASE m # i
      BY <1>2, <1>4, <1>6, <2>2
    <2>3. QED
      BY <2>1, <2>2
  <1>7. QED
    BY <1>5, <1>6 DEF Sorted

(* The limits of a list whose place i got the key as its lower limit.      *)
LEMMA LoweredLimits ==
  ASSUME NEW places \in Seq(Place), Sorted(places), NEW i \in 1 .. Len(places),
         NEW key \in Int, BelowPlace(places, i, key),
         NEW new \in Seq(Place), IsLowered(new, places, i, key)
  PROVE  /\ new # <<>> /\ Last(new).max = Last(places).max
         /\ new[1].min = IF places # <<>> /\ places[1].min <= key THEN places[1].min ELSE key
  <1>1. /\ Len(places) \in Nat /\ places # <<>> /\ 1 \in 1 .. Len(places)
        /\ Len(places) \in 1 .. Len(places)
        /\ \A j \in 1 .. Len(places) : places[j].min \in Int /\ places[j].max \in Int
    BY PlaceFacts, WithinList
  <1>2. /\ Len(new) = Len(places)
        /\ \A j \in 1 .. Len(places) : new[j].max = places[j].max
        /\ \A j \in 1 .. Len(places) : j # i => new[j].min = places[j].min
        /\ new[i].min = key
    BY DEF IsLowered
  <1>3. (\A j \in 1 .. i - 1 : places[j].max < key) /\ key < places[i].min
    BY DEF BelowPlace
  <1>4. new # <<>>
    BY <1>1, <1>2, EmptySeq
  <1>5. Last(new).max = Last(places).max
    BY <1>1, <1>2 DEF Last
  <1>6. CASE i = 1
    BY <1>1, <1>2, <1>3, <1>4, <1>5, <1>6
  <1>7. CASE i # 1
    <2>1. 1 \in 1 .. i - 1
      BY <1>1, <1>7
    <2>2. places[1].min <= places[1].max /\ places[1].max < key
      BY <1>1, <1>3, <2>1 DEF Sorted
    <2>3. places[1].min <= key
      BY <1>1, <2>2
    <2>4. QED
      BY <1>1, <1>2, <1>4, <1>5, <1>7, <2>3
  <1>8. QED
    BY <1>6, <1>7

LEMMA StretchAfter ==
  ASSUME NEW t \in Good, NEW key \in Keys, NEW v \in Nat, NEW l \in 1 .. Len(t),
         NEW i \in 1 .. Len(t[l]), BelowPlace(t[l], i, key), t[l][i].list # 0,
         NEW w, After(t, w, t[l][i].list, key, v)
  PROVE  After(t, Stretched(w, l, i, key), l, key, v)
  <1> DEFINE c == t[l][i].list
             u == Stretched(w, l, i, key)
  <1>1. /\ t \in Trees /\ Len(t) \in Nat /\ key \in Int /\ Fits(t, 0)
        /\ t[l] \in Seq(Place) /\ Sorted(t[l]) /\ Len(t[l]) \in Nat
        /\ t[l][i].min \in Int /\ t[l][i].max \in Int
        /\ c \in 1 .. Len(t) /\ c > l
    BY GoodFacts, TreeFacts, BTreeVecConstants
  <1>2. t[c] # <<>> /\ t[l][i].min = t[c][1].min
    <2>1. PlaceFits(t, l, t[l][i], 0)
      BY <1>1, PlaceHasFit
    <2>2. QED
      BY <1>1, <2>1 DEF PlaceFits
  <1>3. c = t[l][i].list
    OBVIOUS
  <1> HIDE DEF c, u
  <1>4. /\ Shape(w, c) /\ Len(t) <= Len(w)
        /\ \A m \in 1 .. c - 1 : w[m] = t[m]
        /\ w[c] # <<>>
        /\ w[c][1].min = IF t[c] # <<>> /\ t[c][1].min <= key THEN t[c][1].min ELSE key
        /\ Gained(t, w, key, v)
    BY <1>3 DEF After
  <1>5. /\ w \in Trees /\ w # <<>> /\ Fits(w, c) /\ Hang(w) /\ Len(w) \in Nat
        /\ \A m \in 1 .. Len(w) : Sorted(w[m])
    BY <1>4, TreeFacts DEF Shape, Fits
  <1>6. /\ w[l] = t[l] /\ \A m \in 1 .. l - 1 : w[m] = t[m]
        /\ l \in 1 .. Len(w) /\ i \in 1 .. Len(w[l])
    <2>1. l \in 1 .. c - 1 /\ \A m \in 1 .. l - 1 : m \in 1 .. c - 1
      BY <1>1
    <2>2. w[l] = t[l]
      BY <1>4, <2>1
    <2>3. l \in 1 .. Len(w) /\ i \in 1 .. Len(w[l])
      BY <1>1, <1>4, <1>5, <2>2
    <2>4. QED
      BY <1>4, <2>1, <2>2, <2>3
  <1>7. w[c][1].min = key
    <2>1. key < t[l][i].min
      BY DEF BelowPlace
    <2>2. QED
      BY <1>1, <1>2, <1>4, <2>1
  <1>8. /\ u \in Trees /\ Len(u) = Len(w) /\ Len(u[l]) = Len(w[l])
        /\ \A m \in 1 .. Len(w) : m # l => u[m] = w[m]
        /\ \A j \in 1 .. Len(w[l]) : j # i => u[l][j] = w[l][j]
        /\ u[l][i].min = IF key < w[l][i].min THEN key ELSE w[l][i].min
        /\ u[l][i].max = w[l][i].max
        /\ u[l][i].list = w[l][i].list /\ u[l][i].leaf = w[l][i].leaf
    <2>1. l \in Nat /\ i \in Nat
      OBVIOUS
    <2>2. Stretched(w, l, i, key) \in Trees /\ IsStretched(Stretched(w, l, i, key), w, l, i, key)
      BY <1>1, <1>5, <1>6, <2>1, StretchedFacts
    <2>3. u \in Trees /\ IsStretched(u, w, l, i, key)
      BY <2>2 DEF u
    <2>4. QED
      BY <2>3 DEF IsStretched
  <1>9. u[l][i].min = key
    <2>1. key < w[l][i].min
      BY <1>6 DEF BelowPlace
    <2>2. QED
      BY <1>8, <2>1
  <1>10. IsLowered(u[l], t[l], i, key) /\ u[l] \in Seq(Place) /\ u # <<>>
    <2>1. IsLowered(u[l], t[l], i, key)
      BY <1>6, <1>8, <1>9 DEF IsLowered
    <2>2. u[l] \in Seq(Place)
      BY <1>6, <1>8, TreeFacts
    <2>3. Len(u) # 0
      BY <1>5, <1>6, <1>8
    <2>4. QED
      BY <1>8, <2>1, <2>2, <2>3, EmptySeq DEF Trees
  <1>11. /\ Sorted(u[l]) /\ u[l] # <<>> /\ Last(u[l]).max = Last(t[l]).max
         /\ u[l][1].min = IF t[l] # <<>> /\ t[l][1].min <= key THEN t[l][1].min ELSE key
    <2> DEFINE a == t[l]
               b == u[l]
    <2>1. /\ a \in Seq(Place) /\ Sorted(a) /\ i \in 1 .. Len(a) /\ BelowPlace(a, i, key)
          /\ b \in Seq(Place) /\ IsLowered(b, a, i, key)
      BY <1>1, <1>10
    <2> HIDE DEF a, b
    <2>2. /\ Sorted(b) /\ b # <<>> /\ Last(b).max = Last(a).max
          /\ b[1].min = IF a # <<>> /\ a[1].min <= key THEN a[1].min ELSE key
      BY <1>1, <2>1, LoweredSorted, LoweredLimits
    <2>3. QED
      BY <2>2 DEF a, b
  <1>12. ASSUME NEW m \in 1 .. Len(u), NEW j \in 1 .. Len(u[m])
         PROVE  /\ m \in 1 .. Len(w) /\ j \in 1 .. Len(w[m])
                /\ u[m][j].list = w[m][j].list
                /\ u[m][j] = w[m][j] \/ (m = l /\ j = i)
    BY <1>6, <1>8
  <1>13. ASSUME NEW m \in 1 .. Len(u), NEW j \in 1 .. Len(u[m])
         PROVE  PlaceFits(u, m, u[m][j], l)
    <2>1. m \in 1 .. Len(w) /\ j \in 1 .. Len(w[m]) /\ u[m][j].list = w[m][j].list
      BY <1>12
    <2>2. PlaceFits(w, m, w[m][j], c)
      BY <1>5, <2>1, PlaceHasFit
    <2>3. CASE m = l /\ j = i
      <3>1. w[m][j].list = c /\ c # 0 /\ c # l
        BY <1>1, <1>3, <1>6, <2>3
      <3>2. u[c] = w[c] /\ c \in m + 1 .. Len(u)
        BY <1>1, <1>4, <1>8, <2>3, <3>1
      <3>3. w[m][j].max = Last(w[c]).max
        BY <2>2, <3>1 DEF PlaceFits
      <3>4. u[m][j].min = u[c][1].min /\ u[m][j].max = Last(u[c]).max /\ u[c] # <<>>
        BY <1>4, <1>7, <1>8, <1>9, <2>3, <3>2, <3>3
      <3>5. QED
        BY <2>1, <3>1, <3>2, <3>4 DEF PlaceFits
    <2>4. CASE ~ (m = l /\ j = i)
      <3> DEFINE p == w[m][j]
      <3>1. u[m][j] = p
        BY <1>12, <2>4
      <3>2. p.list # c
        <4>1. SUFFICES ASSUME p.list = c PROVE FALSE
          OBVIOUS
        <4>2. SameList(w, l, i, m, j)
          BY <1>1, <1>3, <1>6, <2>1, <4>1 DEF SameList
        <4>3. QED
          BY <1>5, <2>4, <4>2 DEF Hang
      <3>3. p.list \in Nat /\ PlaceFits(w, m, p, c)
        BY <1>5, <2>1, <2>2, TreeFacts
      <3> HIDE DEF p
      <3>4. CASE p.list = 0
        BY <3>1, <3>3, <3>4 DEF PlaceFits
      <3>5. CASE p.list # 0
        <4>1. /\ p.list \in m + 1 .. Len(w) /\ w[p.list] # <<>>
              /\ p.max = Last(w[p.list]).max /\ p.min = w[p.list][1].min
          BY <3>2, <3>3, <3>5 DEF PlaceFits
        <4>2. p.list \in m + 1 .. Len(u) /\ p.list \in 1 .. Len(w)
          BY <1>5, <1>8, <2>1, <4>1
        <4>3. CASE p.list = l
          <5>1. u[p.list] # <<>> /\ p.max = Last(u[p.list]).max
            BY <1>6, <1>11, <4>1, <4>3
          <5>2. QED
            BY <3>1, <3>5, <4>2, <4>3, <5>1 DEF PlaceFits
        <4>4. CASE p.list # l
          <5>1. u[p.list] = w[p.list]
            BY <1>8, <4>2, <4>4
          <5>2. QED
            BY <3>1, <3>5, <4>1, <4>2, <5>1 DEF PlaceFits
        <4>5. QED
          BY <4>3, <4>4
      <3>6. QED
        BY <3>4, <3>5
    <2>5. QED
      BY <2>3, <2>4
  <1>14. Hang(u)
    <2>0. \A m \in 1 .. Len(w) : Len(u[m]) = Len(w[m]) /\ \A j \in 1 .. Len(w[m]) : u[m][j].list = w[m][j].list
      BY <1>6, <1>8
    <2>1. ASSUME NEW k, NEW a, NEW m, NEW b, SameList(u, k, a, m, b)
          PROVE  k = m /\ a = b
      <3>1. SameList(w, k, a, m, b)
        BY <1>8, <2>0, <2>1 DEF SameList
      <3>2. QED
        BY <1>5, <3>1 DEF Hang
    <2>2. ASSUME NEW m \in 2 .. Len(u) PROVE Hung(u, m)
      <3>1. Hung(w, m)
        BY <1>5, <1>8 DEF Hang
      <3>2. QED
        BY <1>8, <2>0, <3>1, SMTT(30) DEF Hung
    <2>3. QED
      BY <2>1, <2>2 DEF Hang
  <1>15. ASSUME NEW m \in 1 .. Len(u) PROVE Sorted(u[m])
    BY <1>5, <1>8, <1>11
  <1>16. Shape(u, l)
    BY <1>8, <1>10, <1>13, <1>14, <1>15 DEF Shape, Fits
  <1>17. Gained(t, u, key, v)
    <2>1. ASSUME NEW k, NEW vs PROVE LeafOf(u, k, vs) <=> LeafOf(w, k, vs)
      <3>1. /\ w[l][i].list # 0 /\ u[l][i].list # 0
        BY <1>6, <1>8
      <3>2. ASSUME LeafOf(u, k, vs) PROVE LeafOf(w, k, vs)
        <4>1. PICK m \in 1 .. Len(u) : \E j \in 1 .. Len(u[m]) :
                u[m][j].list = 0 /\ u[m][j].min = k /\ u[m][j].leaf = vs
          BY <3>2 DEF LeafOf
        <4>2. PICK j \in 1 .. Len(u[m]) :
                u[m][j].list = 0 /\ u[m][j].min = k /\ u[m][j].leaf = vs
          BY <4>1
        <4>3. m \in 1 .. Len(w) /\ j \in 1 .. Len(w[m]) /\ u[m][j] = w[m][j]
          BY <1>12, <3>1, <4>2
        <4>4. QED
          BY <4>2, <4>3 DEF LeafOf
      <3>3. ASSUME LeafOf(w, k, vs) PROVE LeafOf(u, k, vs)
        <4>1. PICK m \in 1 .. Len(w) : \E j \in 1 .. Len(w[m]) :
                w[m][j].list = 0 /\ w[m][j].min = k /\ w[m][j].leaf = vs
          BY <3>3 DEF LeafOf
        <4>2. PICK j \in 1 .. Len(w[m]) :
                w[m][j].list = 0 /\ w[m][j].min = k /\ w[m][j].leaf = vs
          BY <4>1
        <4>3. m \in 1 .. Len(u) /\ j \in 1 .. Len(u[m])
          BY <1>8
        <4>4. u[m][j] = w[m][j]
          BY <1>12, <3>1, <4>2, <4>3
        <4>5. QED
          BY <4>2, <4>3, <4>4 DEF LeafOf
      <3>4. QED
        BY <3>2, <3>3
    <2>2. QED
      BY <1>4, <2>1 DEF Gained
  <1>18. ASSUME NEW m \in 1 .. l - 1 PROVE u[m] = t[m]
    <2>1. m \in 1 .. Len(w) /\ m # l
      BY <1>1, <1>4
    <2>2. QED
      BY <1>6, <1>8, <2>1
  <1>19. After(t, u, l, key, v)
    <2>1. Len(t) <= Len(u)
      BY <1>4, <1>8
    <2>2. QED
      BY <1>11, <1>16, <1>17, <1>18, <2>1 DEF After
  <1>20. QED
    BY <1>19 DEF u

LEMMA MakeAfter ==
  ASSUME NEW t \in Good, NEW key \in Keys, NEW v \in Nat, NEW l \in 1 .. Len(t),
         NEW i \in 1 .. Len(t[l]), BelowPlace(t[l], i, key), t[l][i].list = 0,
         Get(t, key) = <<>>
  PROVE  After(t, MakeLeafToList(t, l, i, key, v), l, key, v)
  <1> DEFINE u == MakeLeafToList(t, l, i, key, v)
             n == Len(t) + 1
             new == Leaf(key, <<v>>)
             old == Leaf(t[l][i].min, t[l][i].leaf)
  <1>1. /\ t \in Trees /\ Len(t) \in Nat /\ key \in Int /\ Fits(t, 0) /\ Hang(t)
        /\ t[l] \in Seq(Place) /\ Sorted(t[l]) /\ Len(t[l]) \in Nat
        /\ t[l][i].min \in Int /\ t[l][i].max \in Int /\ t[l][i].leaf \in Seq(Nat)
        /\ \A m \in 1 .. Len(t) : Sorted(t[m])
    BY GoodFacts, TreeFacts, BTreeVecConstants
  <1>2. /\ t[l][i].leaf # <<>> /\ t[l][i].min = t[l][i].max /\ t[l][i].min \in Keys
        /\ key < t[l][i].min
    <2>1. PlaceFits(t, l, t[l][i], 0)
      BY <1>1, PlaceHasFit
    <2>2. QED
      BY <2>1 DEF PlaceFits, BelowPlace
  <1>3. /\ new \in Place /\ new.min = key /\ new.max = key
        /\ new.leaf = <<v>> /\ new.list = 0 /\ new.leaf # <<>>
    <2>1. <<v>> \in Seq(Nat) /\ <<v>> # <<>>
      OBVIOUS
    <2>2. QED
      BY <1>1, <2>1, LeafIsPlace
  <1>4. /\ old \in Place /\ old.min = t[l][i].min /\ old.max = t[l][i].min
        /\ old.leaf = t[l][i].leaf /\ old.list = 0
    BY <1>1, LeafIsPlace
  <1> HIDE DEF u, new, old
  <1>5. IsLeafToList(u, t, l, i, key, v)
    BY <1>1, <1>2, MakeLeafToListFacts DEF u
  <1>6. n \in Nat /\ n > Len(t) /\ n # l /\ n # 0 /\ n \in l + 1 .. n
    BY <1>1
  <1>7. /\ u \in Trees /\ Len(u) = n /\ Len(u[l]) = Len(t[l])
        /\ \A m \in 1 .. Len(t) : m # l => u[m] = t[m]
        /\ \A j \in 1 .. Len(t[l]) : j # i => u[l][j] = t[l][j]
        /\ u[l][i].min = key /\ u[l][i].max = t[l][i].min /\ u[l][i].list = n
        /\ Len(u[n]) = 2 /\ u[n][1] = new /\ u[n][2] = old
    BY <1>5 DEF IsLeafToList, new, old
  <1>8. n \in 1 .. Len(u) /\ \A m \in 1 .. Len(u) : m = n \/ m \in 1 .. Len(t)
    BY <1>1, <1>7
  <1> HIDE DEF n
  <1>9. /\ Sorted(u[l]) /\ u[l] # <<>> /\ Last(u[l]).max = Last(t[l]).max
        /\ u[l][1].min = IF t[l] # <<>> /\ t[l][1].min <= key THEN t[l][1].min ELSE key
    <2> DEFINE a == t[l]
               b == u[l]
    <2>1. IsLowered(b, a, i, key)
      BY <1>2, <1>7 DEF IsLowered
    <2>2. b \in Seq(Place)
      <3>1. l \in 1 .. Len(u)
        BY <1>1, <1>6, <1>7
      <3>2. QED
        BY <1>7, <3>1, TreeFacts
    <2>3. /\ a \in Seq(Place) /\ Sorted(a) /\ i \in 1 .. Len(a) /\ BelowPlace(a, i, key)
      BY <1>1
    <2> HIDE DEF a, b
    <2>4. /\ Sorted(b) /\ b # <<>> /\ Last(b).max = Last(a).max
          /\ b[1].min = IF a # <<>> /\ a[1].min <= key THEN a[1].min ELSE key
      BY <1>1, <2>1, <2>2, <2>3, LoweredSorted, LoweredLimits
    <2>5. QED
      BY <2>4 DEF a, b
  <1>10. /\ Sorted(u[n]) /\ u[n] # <<>> /\ Last(u[n]).max = t[l][i].min
         /\ u[n][1].min = key
    <2>1. u[n] # <<>>
      <3>1. u[n] \in Seq(Place)
        BY <1>7, <1>8, TreeFacts
      <3>2. QED
        BY <1>7, <3>1, EmptySeq
    <2>2. u[n][1].min = key /\ u[n][1].max = key /\ u[n][2].min = t[l][i].min /\ u[n][2].max = t[l][i].min
      BY <1>3, <1>4, <1>7
    <2>3. Sorted(u[n])
      BY <1>1, <1>2, <1>7, <2>2, SMTT(30) DEF Sorted
    <2>4. Last(u[n]).max = t[l][i].min
      BY <1>7, <2>2 DEF Last
    <2>5. QED
      BY <2>1, <2>2, <2>3, <2>4
  <1>11. ASSUME NEW m \in 1 .. Len(u) PROVE Sorted(u[m])
    BY <1>1, <1>7, <1>8, <1>9, <1>10
  <1>12. ASSUME NEW m \in 1 .. Len(u), NEW j \in 1 .. Len(u[m])
         PROVE  \/ m = n /\ (u[m][j] = new \/ u[m][j] = old)
                \/ m = l /\ j = i
                \/ /\ m \in 1 .. Len(t) /\ j \in 1 .. Len(t[m]) /\ u[m][j] = t[m][j]
                   /\ ~ (m = l /\ j = i)
    <2>1. CASE m = n
      <3>0. Len(u[m]) = 2 /\ j \in 1 .. Len(u[m])
        BY <1>7, <2>1
      <3>1. j = 1 \/ j = 2
        BY <3>0
      <3>2. QED
        BY <1>7, <2>1, <3>1
    <2>2. CASE m # n
      BY <1>7, <1>8, <2>2
    <2>3. QED
      BY <2>1, <2>2
  <1>13. ASSUME NEW m \in 1 .. Len(u), NEW j \in 1 .. Len(u[m])
         PROVE  PlaceFits(u, m, u[m][j], l)
    <2>1. CASE u[m][j] = new \/ u[m][j] = old
      BY <1>2, <1>3, <1>4, <2>1 DEF PlaceFits
    <2>2. CASE m = l /\ j = i
      BY <1>6, <1>7, <1>10, <2>2 DEF PlaceFits
    <2>3. CASE m \in 1 .. Len(t) /\ j \in 1 .. Len(t[m]) /\ u[m][j] = t[m][j]
      <3> DEFINE p == t[m][j]
      <3>1. PlaceFits(t, m, p, 0) /\ p \in Place /\ m \in Nat /\ l \in Nat
        BY <1>1, <2>3, PlaceHasFit, TreeFacts
      <3>2. p.list # 0 => p.list \in 1 .. Len(t)
        BY <1>1, <2>3, GoodFacts
      <3> HIDE DEF p
      <3>3. p.list # 0 => \/ u[p.list] = t[p.list]
                          \/ p.list = l /\ u[l] # <<>> /\ Last(u[l]).max = Last(t[l]).max
        BY <1>7, <1>9, <3>2
      <3>4. Len(u) \in Nat /\ Len(t) <= Len(u)
        BY <1>1, <1>6, <1>7
      <3>5. PlaceFits(u, m, p, l)
        BY <1>1, <3>1, <3>3, <3>4, StillFits
      <3>6. QED
        BY <2>3, <3>5 DEF p
    <2>4. QED
      BY <1>12, <2>1, <2>2, <2>3
  <1>14. Hang(u)
    <2>1. ASSUME NEW k \in 1 .. Len(u), NEW a \in 1 .. Len(u[k]), u[k][a].list # 0
          PROVE  \/ k = l /\ a = i /\ u[k][a].list = n
                 \/ /\ k \in 1 .. Len(t) /\ a \in 1 .. Len(t[k]) /\ u[k][a] = t[k][a]
                    /\ u[k][a].list # n
      <3>1. CASE k = n /\ (u[k][a] = new \/ u[k][a] = old)
        BY <1>3, <1>4, <2>1, <3>1
      <3>2. CASE k = l /\ a = i
        BY <1>7, <3>2
      <3>3. CASE k \in 1 .. Len(t) /\ a \in 1 .. Len(t[k]) /\ u[k][a] = t[k][a]
        <4>1. t[k][a].list \in 1 .. Len(t)
          BY <2>1, <3>3, GoodFacts
        <4>2. QED
          BY <1>1, <1>6, <3>3, <4>1, SMTT(30)
      <3>4. QED
        BY <1>12, <3>1, <3>2, <3>3
    <2>2. ASSUME NEW k, NEW a, NEW m, NEW b, SameList(u, k, a, m, b)
          PROVE  k = m /\ a = b
      <3>1. /\ k \in 1 .. Len(u) /\ a \in 1 .. Len(u[k]) /\ m \in 1 .. Len(u) /\ b \in 1 .. Len(u[m])
            /\ u[k][a].list # 0 /\ u[k][a].list = u[m][b].list
        BY <2>2 DEF SameList
      <3>2. CASE u[k][a].list = n
        <4>1. k = l /\ a = i
          BY <2>1, <3>1, <3>2
        <4>2. m = l /\ b = i
          BY <2>1, <3>1, <3>2
        <4>3. QED
          BY <4>1, <4>2
      <3>3. CASE u[k][a].list # n
        <4>1. k \in 1 .. Len(t) /\ a \in 1 .. Len(t[k]) /\ u[k][a] = t[k][a]
          BY <2>1, <3>1, <3>3
        <4>2. m \in 1 .. Len(t) /\ b \in 1 .. Len(t[m]) /\ u[m][b] = t[m][b]
          BY <2>1, <3>1, <3>3
        <4>3. SameList(t, k, a, m, b)
          BY <3>1, <4>1, <4>2 DEF SameList
        <4>4. QED
          BY <1>1, <4>3 DEF Hang
      <3>4. QED
        BY <3>2, <3>3
    <2>3. ASSUME NEW m \in 2 .. Len(u) PROVE Hung(u, m)
      <3>1. m \in 1 .. Len(u) /\ l \in 1 .. Len(u) /\ i \in 1 .. Len(u[l])
        BY <1>1, <1>6, <1>7
      <3>2. CASE m = n
        BY <1>7, <3>1, <3>2 DEF Hung
      <3>3. CASE m # n
        <4>1. m \in 2 .. Len(t)
          BY <1>8, <3>1, <3>3
        <4>2. Hung(t, m)
          BY <1>1, <4>1 DEF Hang
        <4>3. PICK k \in 1 .. Len(t) : \E a \in 1 .. Len(t[k]) : t[k][a].list = m
          BY <4>2 DEF Hung
        <4>4. PICK a \in 1 .. Len(t[k]) : t[k][a].list = m
          BY <4>3
        <4>5. ~ (k = l /\ a = i)
          BY <4>1, <4>4
        <4>6. k \in 1 .. Len(u) /\ a \in 1 .. Len(u[k]) /\ u[k][a] = t[k][a]
          BY <1>1, <1>6, <1>7, <4>5
        <4>7. QED
          BY <4>4, <4>6 DEF Hung
      <3>4. QED
        BY <3>2, <3>3
    <2>4. QED
      BY <2>2, <2>3 DEF Hang
  <1>15. Gained(t, u, key, v)
    <2>1. ASSUME NEW k, NEW vs
          PROVE  LeafOf(u, k, vs) <=> LeafOf(t, k, vs) \/ (k = key /\ vs = <<v>>)
      <3>1. ASSUME LeafOf(u, k, vs) PROVE LeafOf(t, k, vs) \/ (k = key /\ vs = <<v>>)
        <4>1. PICK m \in 1 .. Len(u) : \E j \in 1 .. Len(u[m]) :
                u[m][j].list = 0 /\ u[m][j].min = k /\ u[m][j].leaf = vs
          BY <3>1 DEF LeafOf
        <4>2. PICK j \in 1 .. Len(u[m]) :
                u[m][j].list = 0 /\ u[m][j].min = k /\ u[m][j].leaf = vs
          BY <4>1
        <4>3. CASE u[m][j] = new
          BY <1>3, <4>2, <4>3
        <4>4. CASE u[m][j] = old
          BY <1>4, <4>2, <4>4 DEF LeafOf
        <4>5. CASE m = l /\ j = i
          BY <1>6, <1>7, <4>2, <4>5
        <4>6. CASE m \in 1 .. Len(t) /\ j \in 1 .. Len(t[m]) /\ u[m][j] = t[m][j]
          BY <4>2, <4>6 DEF LeafOf
        <4>7. QED
          BY <1>12, <4>3, <4>4, <4>5, <4>6
      <3>2. ASSUME LeafOf(t, k, vs) PROVE LeafOf(u, k, vs)
        <4>1. PICK m \in 1 .. Len(t) : \E j \in 1 .. Len(t[m]) :
                t[m][j].list = 0 /\ t[m][j].min = k /\ t[m][j].leaf = vs
          BY <3>2 DEF LeafOf
        <4>2. PICK j \in 1 .. Len(t[m]) :
                t[m][j].list = 0 /\ t[m][j].min = k /\ t[m][j].leaf = vs
          BY <4>1
        <4>3. CASE m = l /\ j = i
          <5>1. 2 \in 1 .. Len(u[n]) /\ u[n][2] = old
            BY <1>7
          <5>2. QED
            BY <1>4, <1>8, <4>2, <4>3, <5>1 DEF LeafOf
        <4>4. CASE ~ (m = l /\ j = i)
          <5>1. m \in 1 .. Len(u) /\ j \in 1 .. Len(u[m]) /\ u[m][j] = t[m][j]
            BY <1>1, <1>6, <1>7, <4>4
          <5>2. QED
            BY <4>2, <5>1 DEF LeafOf
        <4>5. QED
          BY <4>3, <4>4
      <3>3. ASSUME k = key, vs = <<v>> PROVE LeafOf(u, k, vs)
        <4>1. 1 \in 1 .. Len(u[n]) /\ u[n][1] = new
          BY <1>7
        <4>2. QED
          BY <1>3, <1>8, <3>3, <4>1 DEF LeafOf
      <3>4. QED
        BY <3>1, <3>2, <3>3
    <2>2. \A vs : ~ LeafOf(t, key, vs)
      BY <1>1, GetLeaves
    <2>3. Append(Get(t, key), v) = <<v>>
      OBVIOUS
    <2>4. QED
      BY <2>1, <2>2, <2>3 DEF Gained
  <1>16. Shape(u, l)
    <2>1. u # <<>>
      BY <1>6, <1>7, EmptySeq DEF Trees
    <2>2. QED
      BY <1>7, <1>11, <1>13, <1>14, <2>1 DEF Shape, Fits
  <1>17. /\ Len(t) <= Len(u) /\ \A m \in 1 .. l - 1 : u[m] = t[m]
    BY <1>1, <1>6, <1>7
  <1>18. After(t, u, l, key, v)
    BY <1>9, <1>15, <1>16, <1>17 DEF After
  <1>19. QED
    BY <1>18 DEF u

(* What push does from the list that get comes to for the key.             *)
LEMMA PushAfter ==
  ASSUME NEW t \in Good, NEW key \in Keys, NEW v \in Nat
  PROVE  \A l \in 1 .. Len(t) :
           /\ Get(t, key) = GetFrom(t, key)[l]
           /\ l = 1 \/ ~ Beyond(t[l], key)
           => After(t, PushFrom(t, key, v)[l], l, key, v)
  <1> DEFINE f == PushFrom(t, key, v)
             Here(l) == /\ Get(t, key) = GetFrom(t, key)[l]
                        /\ l = 1 \/ ~ Beyond(t[l], key)
             T == {l \in 1 .. Len(t) : Here(l) => After(t, f[l], l, key, v)}
  <1>1. /\ t \in Trees /\ Len(t) \in Nat /\ key \in Int /\ Fits(t, 0)
        /\ \A l \in 1 .. Len(t) : t[l] \in Seq(Place) /\ Sorted(t[l]) /\ Len(t[l]) \in Nat
    BY GoodFacts, TreeFacts, BTreeVecConstants
  <1>2. ASSUME NEW l \in 1 .. Len(t), \A m \in l + 1 .. Len(t) : m \in T
        PROVE  l \in T
    <2>1. SUFFICES ASSUME Here(l) PROVE After(t, f[l], l, key, v)
      OBVIOUS
    <2>2. Get(t, key) = GetFrom(t, key)[l] /\ (l = 1 \/ ~ Beyond(t[l], key))
      BY <2>1
    <2>3. f[l] = PushBody(t, key, v, l, f)
      BY <1>1, PushFromDef
    <2> HIDE DEF f
    <2>4. ASSUME NEW i \in 1 .. Len(t[l]), t[l][i].list # 0,
                 InPlace(t[l], i, key) \/ BelowPlace(t[l], i, key)
          PROVE  After(t, f[t[l][i].list], t[l][i].list, key, v)
      <3> DEFINE c == t[l][i].list
      <3>1. c \in 1 .. Len(t) /\ c > l /\ c \in l + 1 .. Len(t)
        BY <1>1, <2>4, GoodFacts
      <3>2. t[c] # <<>> /\ t[l][i].max = Last(t[c]).max /\ t[l][i].min = t[c][1].min
        <4>1. PlaceFits(t, l, t[l][i], 0)
          BY <1>1, PlaceHasFit
        <4>2. QED
          BY <2>4, <3>1, <4>1 DEF PlaceFits
      <3>3. t[l][i].min <= t[l][i].max /\ t[l][i].min \in Int /\ t[l][i].max \in Int
        BY <1>1, TreeFacts DEF Sorted
      <3>4. ~ Beyond(t[c], key)
        <4>1. key <= t[l][i].max
          BY <1>1, <2>4, <3>3 DEF InPlace, BelowPlace
        <4> HIDE DEF c
        <4>2. QED
          BY <1>1, <3>2, <3>3, <4>1 DEF Beyond
      <3>5. Get(t, key) = GetFrom(t, key)[c]
        <4>1. CASE InPlace(t[l], i, key)
          BY <1>1, <2>2, <2>4, <4>1, GetSteps DEF InPlace
        <4>2. CASE BelowPlace(t[l], i, key)
          <5>1. \A j \in 1 .. Len(t[l]) : ~ (t[l][j].min <= key /\ key <= t[l][j].max)
            BY <1>1, <4>2, BelowMisses
          <5>2. Get(t, key) = <<>>
            BY <1>1, <2>2, <5>1, GetSteps
          <5>3. \A j \in 1 .. Len(t[c]) : ~ (t[c][j].min <= key /\ key <= t[c][j].max)
            <6>1. SUFFICES ASSUME NEW j \in 1 .. Len(t[c]) PROVE ~ (t[c][j].min <= key)
              OBVIOUS
            <6>2. t[c][1].min <= t[c][j].min /\ t[c][j].min \in Int /\ t[c][1].min \in Int
              BY <1>1, <3>1, WithinList, PlaceFacts
            <6>3. key < t[c][1].min
              BY <3>2, <4>2 DEF BelowPlace
            <6>4. QED
              BY <1>1, <6>2, <6>3
          <5> HIDE DEF c
          <5>4. GetFrom(t, key)[c] = <<>>
            BY <1>1, <3>1, <5>3, GetSteps
          <5>5. QED
            BY <5>2, <5>4
        <4>3. QED
          BY <2>4, <4>1, <4>2
      <3> HIDE DEF c
      <3>6. After(t, f[c], c, key, v)
        BY <1>2, <3>1, <3>4, <3>5
      <3>7. QED
        BY <3>6 DEF c
    <2>5. CASE Beyond(t[l], key) /\ f[l] = Inserted(t, l, Len(t[l]) + 1, key, v)
      <3> DEFINE at == Len(t[l]) + 1
      <3>1. at \in 1 .. Len(t[l]) + 1 /\ at > Len(t[l]) /\ l = 1
        BY <1>1, <2>2, <2>5
      <3>2. /\ GoesAt(t[l], at, key)
            /\ \A j \in 1 .. Len(t[l]) : ~ (t[l][j].min <= key /\ key <= t[l][j].max)
        BY <1>1, <2>5, BeyondMisses
      <3>3. Get(t, key) = <<>>
        BY <1>1, <2>2, <3>2, GetSteps
      <3> HIDE DEF at
      <3>4. After(t, Inserted(t, l, at, key, v), l, key, v)
        BY <3>1, <3>2, <3>3, InsertAfter
      <3>5. QED
        BY <2>5, <3>4 DEF at
    <2>6. ASSUME NEW i \in 1 .. Len(t[l]), InPlace(t[l], i, key),
                 f[l] = IF t[l][i].list = 0 THEN Appended(t, l, i, v) ELSE f[t[l][i].list]
          PROVE  After(t, f[l], l, key, v)
      <3>1. CASE t[l][i].list = 0
        BY <2>6, <3>1, AppendAfter
      <3>2. CASE t[l][i].list # 0
        <4> DEFINE u == f[t[l][i].list]
        <4>1. After(t, u, t[l][i].list, key, v)
          BY <2>4, <2>6, <3>2
        <4> HIDE DEF u
        <4>2. After(t, u, l, key, v)
          BY <2>6, <3>2, <4>1, IntoAfter
        <4>3. QED
          BY <2>6, <3>2, <4>2 DEF u
      <3>3. QED
        BY <3>1, <3>2
    <2>7. ASSUME NEW i \in 1 .. Len(t[l]), BelowPlace(t[l], i, key),
                 \/ f[l] = Inserted(t, l, i, key, v)
                 \/ f[l] = IF t[l][i].list = 0 THEN MakeLeafToList(t, l, i, key, v)
                           ELSE Stretched(f[t[l][i].list], l, i, key)
          PROVE  After(t, f[l], l, key, v)
      <3>1. Get(t, key) = <<>>
        <4>1. \A j \in 1 .. Len(t[l]) : ~ (t[l][j].min <= key /\ key <= t[l][j].max)
          BY <1>1, <2>7, BelowMisses
        <4>2. QED
          BY <1>1, <2>2, <4>1, GetSteps
      <3>2. CASE f[l] = Inserted(t, l, i, key, v)
        <4>1. GoesAt(t[l], i, key) /\ i \in 1 .. Len(t[l]) + 1 /\ ~ (i > Len(t[l]))
          BY <1>1, <2>7 DEF GoesAt, BelowPlace
        <4>2. QED
          BY <3>1, <3>2, <4>1, InsertAfter
      <3>3. CASE t[l][i].list = 0 /\ f[l] = MakeLeafToList(t, l, i, key, v)
        BY <2>7, <3>1, <3>3, MakeAfter
      <3>4. CASE t[l][i].list # 0 /\ f[l] = Stretched(f[t[l][i].list], l, i, key)
        <4> DEFINE w == f[t[l][i].list]
        <4>1. After(t, w, t[l][i].list, key, v)
          BY <2>4, <2>7, <3>4
        <4> HIDE DEF w
        <4>2. After(t, Stretched(w, l, i, key), l, key, v)
          BY <2>7, <3>4, <4>1, StretchAfter
        <4>3. QED
          BY <3>4, <4>2 DEF w
      <3>5. QED
        BY <2>7, <3>2, <3>3, <3>4
    <2>8. \/ Beyond(t[l], key) /\ f[l] = Inserted(t, l, Len(t[l]) + 1, key, v)
          \/ \E i \in 1 .. Len(t[l]) :
                /\ InPlace(t[l], i, key)
                /\ f[l] = IF t[l][i].list = 0 THEN Appended(t, l, i, v) ELSE f[t[l][i].list]
          \/ \E i \in 1 .. Len(t[l]) :
                /\ BelowPlace(t[l], i, key)
                /\ \/ f[l] = Inserted(t, l, i, key, v)
                   \/ f[l] = IF t[l][i].list = 0 THEN MakeLeafToList(t, l, i, key, v)
                             ELSE Stretched(f[t[l][i].list], l, i, key)
      <3>1. IsPush(f[l], t, key, v, l, f)
        BY <1>1, <2>3, PushBodyCases
      <3>2. QED
        BY <3>1 DEF IsPush
    <2>9. QED
      BY <2>5, <2>6, <2>7, <2>8
  <1>3. \A l \in 1 .. Len(t) : (\A m \in l + 1 .. Len(t) : m \in T) => l \in T
    BY <1>2
  <1> HIDE DEF T
  <1>4. \A l \in 1 .. Len(t) : l \in T
    BY <1>1, <1>3, DownFrom
  <1>5. QED
    BY <1>4 DEF T

(* A tree stays one that get finds everything in, and push adds a value.   *)
THEOREM PushKeeps ==
  ASSUME NEW t \in Good, NEW key \in Keys, NEW v \in Nat
  PROVE  /\ PushInto(t, key, v) \in Good
         /\ \A k \in Int : Get(PushInto(t, key, v), k) =
                IF k = key THEN Append(Get(t, key), v) ELSE Get(t, k)
  <1> DEFINE u == PushInto(t, key, v)
  <1>1. 1 \in 1 .. Len(t) /\ t \in Trees /\ key \in Int
    BY GoodFacts, BTreeVecConstants
  <1>2. After(t, u, 1, key, v)
    BY <1>1, PushAfter DEF Get, PushInto
  <1> HIDE DEF u
  <1>3. Shape(u, 1) /\ Gained(t, u, key, v)
    BY <1>2 DEF After
  <1>4. u \in Good
    <2>1. u \in Trees /\ u # <<>> /\ Fits(u, 1) /\ Hang(u)
      BY <1>3 DEF Shape
    <2>2. \A l \in 1 .. Len(u) : Sorted(u[l])
      BY <2>1 DEF Fits
    <2>3. ASSUME NEW l \in 1 .. Len(u), NEW i \in 1 .. Len(u[l])
          PROVE  PlaceFits(u, l, u[l][i], 0)
      <3>1. PlaceFits(u, l, u[l][i], 1)
        BY <2>1, PlaceHasFit
      <3>2. Len(u) \in Nat
        BY <2>1, TreeFacts
      <3>3. u[l][i].list # 0 => u[l][i].list # 1
        BY <3>1, <3>2 DEF PlaceFits
      <3>4. QED
        BY <3>1, <3>3 DEF PlaceFits
    <2>4. QED
      BY <2>1, <2>2, <2>3 DEF Good, Shape, Fits
  <1>5. ASSUME NEW k \in Int
        PROVE  Get(u, k) = IF k = key THEN Append(Get(t, key), v) ELSE Get(t, k)
    <2>1. \A vs : LeafOf(u, k, vs) <=> vs = Get(u, k) /\ vs # <<>>
      BY <1>4, GetLeaves
    <2>2. \A vs : LeafOf(t, k, vs) <=> vs = Get(t, k) /\ vs # <<>>
      BY GetLeaves
    <2>3. CASE k = key
      <3> DEFINE w == Append(Get(t, key), v)
      <3>1. LeafOf(u, k, w)
        BY <1>3, <2>3 DEF Gained
      <3> HIDE DEF w
      <3>2. w = Get(u, k)
        BY <2>1, <3>1
      <3>3. QED
        BY <2>3, <3>2 DEF w
    <2>4. CASE k # key
      <3>1. \A vs : LeafOf(u, k, vs) <=> LeafOf(t, k, vs)
        BY <1>3, <2>4 DEF Gained
      <3>2. Get(u, k) = Get(t, k)
        BY <2>1, <2>2, <3>1
      <3>3. QED
        BY <2>4, <3>2
    <2>5. QED
      BY <2>3, <2>4
  <1>6. QED
    BY <1>4, <1>5 DEF u

-----------------------------------------------------------------------------
(* Sequences that are joined to one: what is in it, and in which order.    *)

In(s, x) == \E j \in 1 .. Len(s) : s[j] = x

Ordered(s, R) == \A j, k \in 1 .. Len(s) : j < k => <<s[j], s[k]>> \in R

Before(a, b, R) == \A x, y : In(a, x) /\ In(b, y) => <<x, y>> \in R

InSome(ss, x) == \E a \in 1 .. Len(ss) : In(ss[a], x)

BlocksOrdered(ss, R) ==
    /\ \A a \in 1 .. Len(ss) : Ordered(ss[a], R)
    /\ \A a, c \in 1 .. Len(ss) : a < c => Before(ss[a], ss[c], R)

LEMMA Joined ==
  ASSUME NEW S, NEW a \in Seq(S), NEW b \in Seq(S)
  PROVE  /\ a \o b \in Seq(S) /\ Len(a \o b) = Len(a) + Len(b)
         /\ \A x : In(a \o b, x) <=> In(a, x) \/ In(b, x)
         /\ \A R : Ordered(a, R) /\ Ordered(b, R) /\ Before(a, b, R) => Ordered(a \o b, R)
  <1> DEFINE n == Len(a)
             m == Len(b)
             c == a \o b
  <1>1. n \in Nat /\ m \in Nat
    BY LenProperties
  <1>2. /\ c \in Seq(S) /\ Len(c) = n + m
        /\ \A i \in 1 .. n + m : c[i] = IF i <= n THEN a[i] ELSE b[i - n]
    BY ConcatProperties
  <1> HIDE DEF c
  <1>3. \A i \in 1 .. n : i \in 1 .. Len(c) /\ c[i] = a[i]
    BY <1>1, <1>2
  <1>4. \A i \in 1 .. m : n + i \in 1 .. Len(c) /\ c[n + i] = b[i]
    <2>1. SUFFICES ASSUME NEW i \in 1 .. m PROVE n + i \in 1 .. Len(c) /\ c[n + i] = b[i]
      OBVIOUS
    <2>2. n + i \in 1 .. n + m /\ ~ (n + i <= n) /\ n + i - n = i
      BY <1>1
    <2>3. QED
      BY <1>2, <2>2
  <1>5. \A i \in 1 .. Len(c) : \/ i \in 1 .. n
                               \/ i - n \in 1 .. m /\ c[i] = b[i - n]
    BY <1>1, <1>2
  <1> HIDE DEF n, m
  <1>6. ASSUME NEW x PROVE In(c, x) <=> In(a, x) \/ In(b, x)
    <2>1. ASSUME In(c, x) PROVE In(a, x) \/ In(b, x)
      BY <1>3, <1>5, <2>1 DEF In, n, m
    <2>2. ASSUME In(a, x) PROVE In(c, x)
      BY <1>3, <2>2 DEF In, n
    <2>3. ASSUME In(b, x) PROVE In(c, x)
      BY <1>4, <2>3 DEF In, m
    <2>4. QED
      BY <2>1, <2>2, <2>3
  <1>7. ASSUME NEW R, Ordered(a, R), Ordered(b, R), Before(a, b, R)
        PROVE  Ordered(c, R)
    <2>1. SUFFICES ASSUME NEW j \in 1 .. Len(c), NEW k \in 1 .. Len(c), j < k
                   PROVE  <<c[j], c[k]>> \in R
      BY DEF Ordered
    <2>2. CASE j \in 1 .. n /\ k \in 1 .. n
      BY <1>3, <1>7, <2>1, <2>2 DEF Ordered, n
    <2>3. CASE j \in 1 .. n /\ k - n \in 1 .. m /\ c[k] = b[k - n]
      <3>1. In(a, c[j]) /\ In(b, c[k])
        BY <1>3, <2>3 DEF In, n, m
      <3>2. QED
        BY <1>7, <3>1 DEF Before
    <2>4. CASE j - n \in 1 .. m /\ c[j] = b[j - n] /\ k - n \in 1 .. m /\ c[k] = b[k - n]
      <3>1. j - n < k - n
        BY <1>1, <1>2, <2>1
      <3>2. QED
        BY <1>7, <2>4, <3>1 DEF Ordered, m
    <2>5. CASE j - n \in 1 .. m /\ k \in 1 .. n
      BY <1>1, <2>1, <2>5
    <2>6. QED
      BY <1>5, <2>2, <2>3, <2>4, <2>5
  <1>8. QED
    BY <1>2, <1>6, <1>7 DEF c, n, m

IsFlattening(f, ss, S) ==
    /\ f \in [0 .. Len(ss) -> Seq(S)]
    /\ f[0] = <<>> /\ \A i \in 1 .. Len(ss) : f[i] = f[i - 1] \o ss[i]
    /\ FlattenSeq(ss) = f[Len(ss)]

LEMMA FlattenSteps ==
  ASSUME NEW S, NEW ss \in Seq(Seq(S))
  PROVE  \E f : IsFlattening(f, ss, S)
  <1> DEFINE n == Len(ss)
             Z == Seq(S)
             G == [i \in 1 .. n |-> [s \in Z |-> s \o ss[i]]]
  <1>1. n \in Nat /\ <<>> \in Z /\ \A i \in 1 .. n : ss[i] \in Z
    BY LenProperties, ElementOfSeq, EmptySeq
  <1>2. Stepwise(n, Z, G)
    <2>1. \A i \in 1 .. n : \A s \in Z : s \o ss[i] \in Z
      BY <1>1, ConcatProperties
    <2> HIDE DEF n, Z
    <2>2. QED
      BY <2>1 DEF Stepwise
  <1>3. PICK f \in [0 .. n -> Z] : f[0] = <<>> /\ \A i \in 1 .. n : f[i] = G[i][f[i - 1]]
    <2> HIDE DEF n, Z, G
    <2>1. QED
      BY <1>1, <1>2, UpwardRecursion, SMTT(30)
  <1>4. \A i \in 1 .. n : f[i] = f[i - 1] \o ss[i]
    <2> HIDE DEF n, Z
    <2>1. \A i \in 1 .. n : f[i - 1] \in Z
      <3>1. \A i \in 1 .. n : i - 1 \in 0 .. n
        BY <1>1
      <3>2. QED
        BY <1>3, <3>1
    <2>2. QED
      BY <1>3, <2>1
  <1>5. CASE n = 0
    <2>1. FlattenSeq(ss) = ss
      BY <1>5 DEF FlattenSeq
    <2>2. ss = <<>>
      BY <1>5, EmptySeq
    <2>3. QED
      BY <1>3, <1>4, <1>5, <2>1, <2>2 DEF IsFlattening, Z
  <1>6. CASE n # 0
    <2> DEFINE g == [i \in 1 .. n |-> f[i]]
               Body(i, h) == IF i = 1 THEN ss[i] ELSE h[i - 1] \o ss[i]
               flat == CHOOSE h : h = [i \in 1 .. n |-> Body(i, h)]
    <2>1. f[1] = ss[1]
      <3>1. 1 \in 1 .. n /\ f[1 - 1] = <<>>
        BY <1>1, <1>3, <1>6
      <3>2. f[1] = <<>> \o ss[1]
        BY <1>4, <3>1
      <3>3. QED
        BY <1>1, <3>1, <3>2, ConcatEmptySeq
    <2>2. g = [i \in 1 .. n |-> Body(i, g)]
      <3>1. ASSUME NEW i \in 1 .. n PROVE f[i] = Body(i, g)
        <4>1. CASE i = 1
          BY <2>1, <4>1
        <4>2. CASE i # 1
          <5>1. i - 1 \in 1 .. n
            BY <1>1, <4>2
          <5>2. QED
            BY <1>4, <4>2, <5>1
        <4>3. QED
          BY <4>1, <4>2
      <3> HIDE DEF Body
      <3>2. QED
        BY <3>1
    <2>3. flat = [i \in 1 .. n |-> Body(i, flat)]
      <3> HIDE DEF Body, g
      <3>1. QED
        BY <2>2
    <2>4. FlattenSeq(ss) = flat[n]
      BY <1>6 DEF FlattenSeq
    <2> HIDE DEF flat
    <2> DEFINE T == {i \in 0 .. n : i # 0 => flat[i] = f[i]}
    <2>5. ASSUME NEW i \in 0 .. n - 1, i \in T PROVE i + 1 \in T
      <3>1. i + 1 \in 1 .. n /\ i + 1 - 1 = i /\ i + 1 \in 0 .. n
        BY <1>1
      <3>2. flat[i + 1] = Body(i + 1, flat)
        <4> HIDE DEF Body
        <4>1. QED
          BY <2>3, <3>1
      <3>3. CASE i = 0
        BY <2>1, <3>1, <3>2, <3>3
      <3>4. CASE i # 0
        <4> DEFINE k == i + 1
        <4>1. k \in 1 .. n /\ k - 1 = i /\ k # 1 /\ k \in 0 .. n
          BY <1>1, <3>1, <3>4
        <4>2. flat[k] = flat[k - 1] \o ss[k]
          BY <3>2, <4>1
        <4> HIDE DEF k
        <4>3. f[k] = f[k - 1] \o ss[k]
          BY <1>4, <4>1
        <4>4. flat[k] = f[k]
          BY <2>5, <3>4, <4>1, <4>2, <4>3
        <4>5. QED
          BY <4>1, <4>4 DEF k
      <3>5. QED
        BY <3>3, <3>4
    <2>6. 0 \in T
      BY <1>1
    <2>7. n \in T
      <3>1. \A i \in 0 .. n - 1 : i \in T => i + 1 \in T
        BY <2>5
      <3> HIDE DEF T
      <3>2. \A i \in 0 .. n : i \in T
        BY <1>1, <2>6, <3>1, UpTo
      <3>3. QED
        BY <1>1, <3>2
    <2>8. FlattenSeq(ss) = f[n]
      BY <1>6, <2>4, <2>7
    <2>9. QED
      BY <1>3, <1>4, <2>8 DEF IsFlattening, Z
  <1>7. QED
    BY <1>5, <1>6

LEMMA Flattened ==
  ASSUME NEW S, NEW ss \in Seq(Seq(S))
  PROVE  /\ FlattenSeq(ss) \in Seq(S)
         /\ \A x : In(FlattenSeq(ss), x) <=> InSome(ss, x)
         /\ \A R : BlocksOrdered(ss, R) => Ordered(FlattenSeq(ss), R)
  <1> DEFINE n == Len(ss)
  <1>1. n \in Nat /\ \A i \in 1 .. n : ss[i] \in Seq(S)
    BY LenProperties, ElementOfSeq
  <1>3. PICK f : IsFlattening(f, ss, S)
    BY FlattenSteps
  <1>2. /\ f \in [0 .. n -> Seq(S)] /\ f[0] = <<>> /\ FlattenSeq(ss) = f[n]
        /\ \A i \in 1 .. n : f[i] = f[i - 1] \o ss[i]
    BY <1>3 DEF IsFlattening
  <1>4. \A x : ~ In(<<>>, x)
    BY DEF In
  <1> HIDE DEF n
  <1>5. ASSUME NEW x PROVE In(f[n], x) <=> \E a \in 1 .. n : In(ss[a], x)
    <2> DEFINE T == {i \in 0 .. n : In(f[i], x) <=> \E a \in 1 .. i : In(ss[a], x)}
    <2>1. 0 \in T
      BY <1>1, <1>2, <1>4
    <2>2. ASSUME NEW i \in 0 .. n - 1, i \in T PROVE i + 1 \in T
      <3>1. i + 1 \in 1 .. n /\ i + 1 - 1 = i /\ i + 1 \in 0 .. n /\ f[i] \in Seq(S)
        BY <1>1, <1>2
      <3>2. f[i + 1] = f[i] \o ss[i + 1]
        <4> DEFINE k == i + 1
        <4>1. k \in 1 .. n /\ k - 1 = i
          BY <3>1
        <4> HIDE DEF k
        <4>2. f[k] = f[k - 1] \o ss[k]
          BY <1>2, <4>1
        <4>3. QED
          BY <4>1, <4>2 DEF k
      <3>3. In(f[i + 1], x) <=> In(f[i], x) \/ In(ss[i + 1], x)
        BY <1>1, <3>1, <3>2, Joined
      <3>4. \A a : a \in 1 .. i + 1 <=> a \in 1 .. i \/ a = i + 1
        BY <1>1
      <3>5. QED
        BY <2>2, <3>1, <3>3, <3>4
    <2>3. \A i \in 0 .. n - 1 : i \in T => i + 1 \in T
      BY <2>2
    <2> HIDE DEF T
    <2>4. \A i \in 0 .. n : i \in T
      BY <1>1, <2>1, <2>3, UpTo
    <2>5. n \in T
      BY <1>1, <2>4
    <2>6. QED
      BY <2>5 DEF T
  <1>6. ASSUME NEW R, BlocksOrdered(ss, R) PROVE Ordered(f[n], R)
    <2> DEFINE T == {i \in 0 .. n : /\ Ordered(f[i], R)
                                    /\ \A x : In(f[i], x) => \E a \in 1 .. i : In(ss[a], x)}
    <2>1. 0 \in T
      <3>1. Ordered(<<>>, R)
        BY DEF Ordered
      <3>2. QED
        BY <1>1, <1>2, <1>4, <3>1
    <2>2. ASSUME NEW i \in 0 .. n - 1, i \in T PROVE i + 1 \in T
      <3>1. i + 1 \in 1 .. n /\ i + 1 - 1 = i /\ i + 1 \in 0 .. n /\ f[i] \in Seq(S)
        BY <1>1, <1>2
      <3>2. f[i + 1] = f[i] \o ss[i + 1]
        <4> DEFINE k == i + 1
        <4>1. k \in 1 .. n /\ k - 1 = i
          BY <3>1
        <4> HIDE DEF k
        <4>2. f[k] = f[k - 1] \o ss[k]
          BY <1>2, <4>1
        <4>3. QED
          BY <4>1, <4>2 DEF k
      <3>3. \A x : In(f[i + 1], x) <=> In(f[i], x) \/ In(ss[i + 1], x)
        BY <1>1, <3>1, <3>2, Joined
      <3>4. \A a : a \in 1 .. i + 1 <=> a \in 1 .. i \/ a = i + 1
        BY <1>1
      <3>5. \A a \in 1 .. i : a \in 1 .. n /\ a < i + 1
        BY <1>1, <3>1
      <3>6. Before(f[i], ss[i + 1], R)
        <4>1. SUFFICES ASSUME NEW x, NEW y, In(f[i], x), In(ss[i + 1], y)
                       PROVE  <<x, y>> \in R
          BY DEF Before
        <4>2. PICK a \in 1 .. i : In(ss[a], x)
          BY <2>2, <4>1
        <4>3. Before(ss[a], ss[i + 1], R)
          BY <1>6, <3>1, <3>5 DEF BlocksOrdered, n
        <4>4. QED
          BY <4>1, <4>2, <4>3 DEF Before
      <3>7. Ordered(ss[i + 1], R)
        BY <1>6, <3>1 DEF BlocksOrdered, n
      <3>8. Ordered(f[i + 1], R)
        BY <1>1, <2>2, <3>1, <3>2, <3>6, <3>7, Joined
      <3>9. QED
        BY <2>2, <3>1, <3>3, <3>4, <3>8
    <2>3. \A i \in 0 .. n - 1 : i \in T => i + 1 \in T
      BY <2>2
    <2> HIDE DEF T
    <2>4. \A i \in 0 .. n : i \in T
      BY <1>1, <2>1, <2>3, UpTo
    <2>5. n \in T
      BY <1>1, <2>4
    <2>6. QED
      BY <2>5 DEF T
  <1>7. f[n] \in Seq(S)
    BY <1>1, <1>2
  <1>8. QED
    BY <1>2, <1>5, <1>6, <1>7 DEF InSome, n

-----------------------------------------------------------------------------
(* iter: the keys with values, in order.                                   *)

Group == Int \X Seq(Nat)

KeyOrder == {p \in Group \X Group : p[1][1] < p[2][1]}

Block(place, h) == IF place.list = 0 THEN << <<place.min, place.leaf>> >> ELSE h[place.list]

Blocks(t, l, h) == [i \in DOMAIN t[l] |-> Block(t[l][i], h)]

LEMMA BlocksTyped ==
  ASSUME NEW t \in Good, NEW l \in 1 .. Len(t), NEW h,
         \A m \in 1 .. Len(t) : m > l => h[m] \in Seq(Group)
  PROVE  /\ Blocks(t, l, h) \in Seq(Seq(Group)) /\ Len(Blocks(t, l, h)) = Len(t[l])
         /\ \A i \in 1 .. Len(t[l]) : Blocks(t, l, h)[i] = Block(t[l][i], h)
  <1> DEFINE n == Len(t[l])
             b == Blocks(t, l, h)
  <1>1. /\ DOMAIN t[l] = 1 .. n /\ n \in Nat
        /\ \A i \in 1 .. n : t[l][i].min \in Int /\ t[l][i].leaf \in Seq(Nat)
    BY GoodFacts, TreeFacts
  <1>2. ASSUME NEW i \in 1 .. n PROVE Block(t[l][i], h) \in Seq(Group)
    <2>1. CASE t[l][i].list = 0
      <3>1. <<t[l][i].min, t[l][i].leaf>> \in Group
        BY <1>1 DEF Group
      <3>2. QED
        BY <2>1, <3>1 DEF Block
    <2>2. CASE t[l][i].list # 0
      <3>1. t[l][i].list \in 1 .. Len(t) /\ t[l][i].list > l
        BY <2>2, GoodFacts
      <3>2. QED
        BY <2>2, <3>1 DEF Block
    <2>3. QED
      BY <2>1, <2>2
  <1>3. b = [i \in 1 .. n |-> Block(t[l][i], h)]
    BY <1>1 DEF Blocks
  <1>4. b \in Seq(Seq(Group))
    <2> HIDE DEF b, n
    <2>1. b \in [1 .. n -> Seq(Group)]
      BY <1>2, <1>3
    <2>2. QED
      BY <1>1, <2>1, SeqDef
  <1>5. Len(b) = n
    <2>1. DOMAIN b = 1 .. n /\ DOMAIN b = 1 .. Len(b) /\ Len(b) \in Nat
      BY <1>3, <1>4, LenProperties
    <2> HIDE DEF b, n
    <2>2. QED
      BY <1>1, <2>1
  <1>6. QED
    BY <1>3, <1>4, <1>5

LEMMA BlocksAbove ==
  ASSUME NEW t \in Good, NEW l \in 1 .. Len(t), NEW h, NEW g,
         \A m \in 1 .. Len(t) : m > l => h[m] = g[m]
  PROVE  Blocks(t, l, h) = Blocks(t, l, g)
  <1>1. DOMAIN t[l] = 1 .. Len(t[l])
    BY GoodFacts, TreeFacts
  <1>2. ASSUME NEW i \in 1 .. Len(t[l]) PROVE Block(t[l][i], h) = Block(t[l][i], g)
    BY GoodFacts DEF Block
  <1>3. QED
    BY <1>1, <1>2 DEF Blocks

LEMMA IterFromDef ==
  ASSUME NEW t \in Good, NEW l \in 1 .. Len(t)
  PROVE  /\ IterFrom(t)[l] \in Seq(Group)
         /\ IterFrom(t)[l] = FlattenSeq(Blocks(t, l, IterFrom(t)))
  <1> DEFINE n == Len(t)
             Z == Seq(Group)
             G == [m \in 1 .. n |-> [h \in [1 .. n -> Z] |-> FlattenSeq(Blocks(t, m, h))]]
             d == <<>>
  <1>1. n \in Nat /\ d \in Z /\ DOMAIN t = 1 .. n
    BY GoodFacts, TreeFacts, EmptySeq
  <1>2. ASSUME NEW m \in 1 .. n, NEW h, \A c \in 1 .. n : c > m => h[c] \in Z
        PROVE  FlattenSeq(Blocks(t, m, h)) \in Z
    <2> DEFINE b == Blocks(t, m, h)
    <2>1. b \in Seq(Z)
      BY <1>2, BlocksTyped
    <2> HIDE DEF b
    <2>2. FlattenSeq(b) \in Seq(Group)
      BY <2>1, Flattened
    <2>3. QED
      BY <2>2 DEF b
  <1>3. ASSUME NEW m \in 1 .. n, NEW h \in [1 .. n -> Z]
        PROVE  /\ FlattenSeq(Blocks(t, m, h)) \in Z
               /\ Blocks(t, m, Above(n, h, m, d)) = Blocks(t, m, h)
    <2>1. FlattenSeq(Blocks(t, m, h)) \in Z
      BY <1>2
    <2>2. \A c \in 1 .. Len(t) : c > m => Above(n, h, m, d)[c] = h[c]
      BY DEF Above
    <2>3. QED
      BY <2>1, <2>2, BlocksAbove
  <1>4. PICK f \in [1 .. n -> Z] : \A m \in 1 .. n : f[m] = G[m][Above(n, f, m, d)]
    <2>1. FromAbove(n, Z, G)
      <3> HIDE DEF Z
      <3>1. QED
        BY <1>3 DEF FromAbove
    <2>2. n \in Nat /\ d \in Z
      BY <1>1
    <2> HIDE DEF G, n, Z, d
    <2>3. QED
      BY <2>1, <2>2, DownwardRecursion
  <1>5. \A m \in 1 .. n : f[m] = FlattenSeq(Blocks(t, m, f))
    <2>1. SUFFICES ASSUME NEW m \in 1 .. n PROVE f[m] = FlattenSeq(Blocks(t, m, f))
      OBVIOUS
    <2>2. Above(n, f, m, d) \in [1 .. n -> Z]
      BY <1>1 DEF Above
    <2> HIDE DEF Z
    <2>3. G[m][Above(n, f, m, d)] = FlattenSeq(Blocks(t, m, Above(n, f, m, d)))
      BY <2>2
    <2> HIDE DEF G
    <2>4. QED
      BY <1>3, <1>4, <2>3
  <1>6. f = [m \in DOMAIN t |-> FlattenSeq(Blocks(t, m, f))]
    <2> HIDE DEF Z
    <2>1. QED
      BY <1>1, <1>4, <1>5
  <1> DEFINE g == IterFrom(t)
  <1>7. g = [m \in DOMAIN t |-> FlattenSeq(Blocks(t, m, g))]
    BY <1>6 DEF IterFrom, Blocks, Block, IsLeaf
  <1> HIDE DEF g, G, Z
  <1>8. \A m \in 1 .. n : g[m] = FlattenSeq(Blocks(t, m, g))
    BY <1>1, <1>7
  <1>9. \A m \in 1 .. n : g[m] \in Z
    <2> DEFINE T == {m \in 1 .. n : g[m] \in Z}
    <2>1. ASSUME NEW m \in 1 .. n, \A c \in m + 1 .. n : c \in T PROVE m \in T
      <3>1. \A c \in 1 .. n : c > m => g[c] \in Z
        <4>1. \A c \in 1 .. n : c > m => c \in m + 1 .. n
          BY <1>1
        <4>2. QED
          BY <2>1, <4>1
      <3>2. FlattenSeq(Blocks(t, m, g)) \in Z
        BY <1>2, <3>1
      <3>3. QED
        BY <1>8, <3>2
    <2> HIDE DEF T
    <2>2. \A m \in 1 .. n : (\A c \in m + 1 .. n : c \in T) => m \in T
      BY <2>1
    <2>3. \A m \in 1 .. n : m \in T
      BY <1>1, <2>2, DownFrom
    <2>4. QED
      BY <2>3 DEF T
  <1>10. QED
    BY <1>8, <1>9 DEF g, Z

(* The key lies in the range of the list, and of a place, when get finds it there. *)
LEMMA GetNear ==
  ASSUME NEW t \in Good, NEW key \in Int, NEW l \in 1 .. Len(t), GetFrom(t, key)[l] # <<>>
  PROVE  /\ InRange(t, l, key)
         /\ \E i \in 1 .. Len(t[l]) : t[l][i].min <= key /\ key <= t[l][i].max
  <1>1. PICK i \in 1 .. Len(t[l]) : t[l][i].min <= key /\ key <= t[l][i].max
    BY GetSteps
  <1>2. QED
    BY <1>1, PlaceReached

LEMMA GetFromTyped ==
  ASSUME NEW t \in Good, NEW key \in Int, NEW l \in 1 .. Len(t)
  PROVE  GetFrom(t, key)[l] \in Seq(Nat)
  BY GetFromDef

(* A list yields the keys in its range that have values.                   *)
GroupOf(t, l, k) == <<k, GetFrom(t, k)[l]>>

Lists(t, l, s) ==
    \A x : In(s, x) <=> \E k \in Int : x = GroupOf(t, l, k) /\ GetFrom(t, k)[l] # <<>>

ListsPlace(t, l, i, s) ==
    \A x : In(s, x) <=> \E k \in Int : /\ t[l][i].min <= k /\ k <= t[l][i].max
                                      /\ x = GroupOf(t, l, k) /\ GetFrom(t, k)[l] # <<>>

LEMMA BlockLists ==
  ASSUME NEW t \in Good, NEW l \in 1 .. Len(t), NEW i \in 1 .. Len(t[l]), NEW h,
         t[l][i].list # 0 => Lists(t, t[l][i].list, h[t[l][i].list])
  PROVE  ListsPlace(t, l, i, Block(t[l][i], h))
  <1> DEFINE p == t[l][i]
             Here(k) == p.min <= k /\ k <= p.max
  <1>1. /\ PlaceFits(t, l, p, 0) /\ p.min \in Int /\ p.max \in Int /\ Fits(t, 0)
        /\ \A k \in Int : Here(k) => GetFrom(t, k)[l] = IF p.list = 0 THEN p.leaf
                                                        ELSE GetFrom(t, k)[p.list]
    <2>1. Fits(t, 0) /\ p.min \in Int /\ p.max \in Int
      BY GoodFacts, TreeFacts
    <2>2. PlaceFits(t, l, p, 0)
      BY <2>1, PlaceHasFit
    <2>3. QED
      BY <2>1, <2>2, GetSteps
  <1>2. SUFFICES ASSUME NEW x
                 PROVE  In(Block(p, h), x) <=>
                          \E k \in Int : Here(k) /\ x = GroupOf(t, l, k) /\ GetFrom(t, k)[l] # <<>>
    BY DEF ListsPlace
  <1>3. CASE p.list = 0
    <2>1. p.leaf # <<>> /\ p.min = p.max
      BY <1>1, <1>3 DEF PlaceFits
    <2>2. Block(p, h) = << <<p.min, p.leaf>> >>
      BY <1>3 DEF Block
    <2> HIDE DEF p
    <2>3. In(Block(p, h), x) <=> x = <<p.min, p.leaf>>
      BY <2>2 DEF In
    <2>4. \A k \in Int : Here(k) <=> k = p.min
      BY <1>1, <2>1
    <2>5. GetFrom(t, p.min)[l] = p.leaf
      BY <1>1, <1>3, <2>4
    <2>6. GroupOf(t, l, p.min) = <<p.min, p.leaf>>
      BY <2>5 DEF GroupOf
    <2> HIDE DEF Here
    <2>7. QED
      BY <1>1, <2>1, <2>3, <2>4, <2>5, <2>6
  <1>4. CASE p.list # 0
    <2> DEFINE c == p.list
    <2>1. /\ c \in 1 .. Len(t) /\ t[c] # <<>> /\ p.max = Last(t[c]).max /\ p.min = t[c][1].min
      <3>1. c \in 1 .. Len(t)
        BY <1>4, GoodFacts
      <3>2. QED
        BY <1>1, <1>4, <3>1 DEF PlaceFits
    <2>2. Block(p, h) = h[c] /\ Lists(t, c, h[c])
      BY <1>4 DEF Block
    <2>3. \A k \in Int : GetFrom(t, k)[c] # <<>> => Here(k)
      <3>1. SUFFICES ASSUME NEW k \in Int, GetFrom(t, k)[c] # <<>> PROVE Here(k)
        OBVIOUS
      <3> HIDE DEF c
      <3>2. InRange(t, c, k)
        BY <2>1, <3>1, GetNear
      <3>3. QED
        BY <2>1, <3>2 DEF InRange
    <2>4. \A k \in Int : Here(k) => GetFrom(t, k)[l] = GetFrom(t, k)[c] /\ GroupOf(t, l, k) = GroupOf(t, c, k)
      BY <1>1, <1>4 DEF GroupOf
    <2> HIDE DEF c, Here, p
    <2>5. In(Block(p, h), x) <=> \E k \in Int : x = GroupOf(t, c, k) /\ GetFrom(t, k)[c] # <<>>
      BY <2>2 DEF Lists
    <2>6. QED
      BY <2>3, <2>4, <2>5
  <1>5. QED
    BY <1>3, <1>4

LEMMA IterLists ==
  ASSUME NEW t \in Good
  PROVE  \A l \in 1 .. Len(t) :
           Lists(t, l, IterFrom(t)[l]) /\ Ordered(IterFrom(t)[l], KeyOrder)
  <1> DEFINE g == IterFrom(t)
             T == {l \in 1 .. Len(t) : Lists(t, l, g[l]) /\ Ordered(g[l], KeyOrder)}
  <1>1. /\ t \in Trees /\ Len(t) \in Nat
        /\ \A l \in 1 .. Len(t) : t[l] \in Seq(Place) /\ Sorted(t[l]) /\ Len(t[l]) \in Nat
    BY GoodFacts, TreeFacts
  <1>2. ASSUME NEW l \in 1 .. Len(t), \A m \in l + 1 .. Len(t) : m \in T
        PROVE  l \in T
    <2> DEFINE b == Blocks(t, l, g)
               n == Len(t[l])
    <2>1. /\ g[l] \in Seq(Group) /\ g[l] = FlattenSeq(b)
          /\ \A m \in 1 .. Len(t) : g[m] \in Seq(Group)
      BY IterFromDef
    <2>2. /\ b \in Seq(Seq(Group)) /\ Len(b) = n
          /\ \A i \in 1 .. n : b[i] = Block(t[l][i], g)
      BY <2>1, BlocksTyped
    <2>3. \A i \in 1 .. n : t[l][i].list # 0 => t[l][i].list \in T
      <3>1. \A i \in 1 .. n : t[l][i].list # 0 => t[l][i].list \in 1 .. Len(t) /\ t[l][i].list > l
        BY GoodFacts
      <3>2. \A m \in 1 .. Len(t) : m > l => m \in l + 1 .. Len(t)
        BY <1>1
      <3>3. QED
        BY <1>2, <3>1, <3>2
    <2> HIDE DEF g, b
    <2>4. \A i \in 1 .. n : t[l][i].list # 0 =>
            Lists(t, t[l][i].list, g[t[l][i].list]) /\ Ordered(g[t[l][i].list], KeyOrder)
      BY <2>3
    <2>5. ASSUME NEW i \in 1 .. n, NEW x
          PROVE  In(b[i], x) <=>
                   \E k \in Int : /\ t[l][i].min <= k /\ k <= t[l][i].max
                                  /\ x = GroupOf(t, l, k) /\ GetFrom(t, k)[l] # <<>>
      <3>1. ListsPlace(t, l, i, Block(t[l][i], g))
        BY <2>4, BlockLists
      <3>2. QED
        BY <2>2, <3>1 DEF ListsPlace
    <2>6. Lists(t, l, g[l])
      <3>1. ASSUME NEW x
            PROVE  In(g[l], x) <=> \E k \in Int : x = GroupOf(t, l, k) /\ GetFrom(t, k)[l] # <<>>
        <4>1. In(g[l], x) <=> InSome(b, x)
          BY <2>1, <2>2, Flattened
        <4>2. InSome(b, x) <=> \E i \in 1 .. n : In(b[i], x)
          BY <2>2 DEF InSome
        <4>3. \A k \in Int : GetFrom(t, k)[l] # <<>> =>
                \E i \in 1 .. n : t[l][i].min <= k /\ k <= t[l][i].max
          BY GetNear
        <4>4. QED
          BY <2>5, <4>1, <4>2, <4>3
      <3>2. QED
        BY <3>1 DEF Lists
    <2>7. BlocksOrdered(b, KeyOrder)
      <3>1. ASSUME NEW i \in 1 .. n PROVE Ordered(b[i], KeyOrder)
        <4>1. CASE t[l][i].list = 0
          <5> DEFINE x == <<t[l][i].min, t[l][i].leaf>>
          <5>1. b[i] = <<x>>
            BY <2>2, <4>1 DEF Block
          <5> HIDE DEF x
          <5>2. Len(<<x>>) = 1 /\ ~ \E j, k \in 1 .. 1 : j < k
            OBVIOUS
          <5>3. Ordered(<<x>>, KeyOrder)
            BY <5>2 DEF Ordered
          <5>4. QED
            BY <5>1, <5>3
        <4>2. CASE t[l][i].list # 0
          BY <2>2, <2>4, <4>2 DEF Block
        <4>3. QED
          BY <4>1, <4>2
      <3>2. ASSUME NEW i \in 1 .. n, NEW j \in 1 .. n, i < j PROVE Before(b[i], b[j], KeyOrder)
        <4>1. SUFFICES ASSUME NEW x, NEW y, In(b[i], x), In(b[j], y) PROVE <<x, y>> \in KeyOrder
          BY DEF Before
        <4>2. PICK k \in Int : k <= t[l][i].max /\ x = GroupOf(t, l, k)
          BY <2>5, <4>1
        <4>3. PICK m \in Int : t[l][j].min <= m /\ y = GroupOf(t, l, m)
          BY <2>5, <4>1
        <4>4. t[l][i].max < t[l][j].min /\ t[l][i].max \in Int /\ t[l][j].min \in Int
          BY <1>1, <3>2, TreeFacts DEF Sorted
        <4>5. k < m
          BY <4>2, <4>3, <4>4
        <4>6. x \in Group /\ y \in Group /\ x[1] = k /\ y[1] = m
          BY <4>2, <4>3, GetFromTyped DEF GroupOf, Group
        <4>7. QED
          BY <4>5, <4>6 DEF KeyOrder
      <3>3. QED
        BY <2>2, <3>1, <3>2 DEF BlocksOrdered
    <2>8. Ordered(g[l], KeyOrder)
      BY <2>1, <2>2, <2>7, Flattened
    <2>9. QED
      BY <2>6, <2>8
  <1>3. \A l \in 1 .. Len(t) : (\A m \in l + 1 .. Len(t) : m \in T) => l \in T
    BY <1>2
  <1> HIDE DEF T
  <1>4. \A l \in 1 .. Len(t) : l \in T
    BY <1>1, <1>3, DownFrom
  <1>5. QED
    BY <1>4 DEF T

LEMMA IterFacts ==
  ASSUME NEW t \in Good
  PROVE  /\ Iter(t) \in Seq(Group) /\ Ordered(Iter(t), KeyOrder)
         /\ \A x : In(Iter(t), x) <=> \E k \in Int : x = <<k, Get(t, k)>> /\ Get(t, k) # <<>>
  <1>1. 1 \in 1 .. Len(t)
    BY GoodFacts
  <1>2. Iter(t) \in Seq(Group) /\ Ordered(Iter(t), KeyOrder) /\ Lists(t, 1, Iter(t))
    BY <1>1, IterFromDef, IterLists DEF Iter
  <1>3. QED
    BY <1>2 DEF Lists, GroupOf, Get

-----------------------------------------------------------------------------
(* The pairs of an iterator: those of a key together, in either order.     *)

Distinct(s) == \A j, k \in 1 .. Len(s) : s[j] = s[k] => j = k

Pair == Int \X Nat

PairOrder == {p \in Pair \X Pair : \/ p[1][1] < p[2][1]
                                   \/ p[1][1] = p[2][1] /\ p[1][2] # p[2][2]}

KeyWith(k, ws) == [i \in DOMAIN ws |-> <<k, ws[i]>>]

\* The values of a group, as many and the same ones.
SameValues(ws, vs) ==
    /\ ws \in Seq(Nat) /\ Distinct(ws)
    /\ \A v : In(ws, v) <=> In(vs, v)

LEMMA KeyWithFacts ==
  ASSUME NEW k \in Int, NEW ws \in Seq(Nat)
  PROVE  /\ KeyWith(k, ws) \in Seq(Pair)
         /\ \A x : In(KeyWith(k, ws), x) <=> \E v \in Nat : In(ws, v) /\ x = <<k, v>>
         /\ Distinct(ws) => Ordered(KeyWith(k, ws), PairOrder)
  <1> DEFINE n == Len(ws)
             b == KeyWith(k, ws)
  <1>1. n \in Nat /\ DOMAIN ws = 1 .. n /\ \A i \in 1 .. n : ws[i] \in Nat
    BY LenProperties, ElementOfSeq
  <1> HIDE DEF n
  <1>2. b = [i \in 1 .. n |-> <<k, ws[i]>>]
    BY <1>1 DEF KeyWith
  <1>3. b \in Seq(Pair)
    <2>1. b \in [1 .. n -> Pair]
      BY <1>1, <1>2 DEF Pair
    <2>2. QED
      BY <1>1, <2>1, SeqDef
  <1>4. Len(b) = n /\ \A i \in 1 .. n : b[i] = <<k, ws[i]>>
    <2>1. DOMAIN b = 1 .. n /\ DOMAIN b = 1 .. Len(b) /\ Len(b) \in Nat
      BY <1>2, <1>3, LenProperties
    <2> HIDE DEF b
    <2>2. QED
      BY <1>1, <1>2, <2>1
  <1> HIDE DEF b
  <1>5. ASSUME NEW x PROVE In(b, x) <=> \E v \in Nat : In(ws, v) /\ x = <<k, v>>
    BY <1>1, <1>4 DEF In, n
  <1>6. ASSUME Distinct(ws) PROVE Ordered(b, PairOrder)
    <2>1. SUFFICES ASSUME NEW i \in 1 .. n, NEW j \in 1 .. n, i < j
                   PROVE  <<b[i], b[j]>> \in PairOrder
      BY <1>4 DEF Ordered
    <2>2. ws[i] # ws[j]
      BY <1>6, <2>1 DEF Distinct, n
    <2>3. QED
      BY <1>1, <1>4, <2>2, SMTT(30) DEF PairOrder, Pair
  <1>7. QED
    BY <1>3, <1>5, <1>6 DEF b

(* What the pairs of groups are made of, whatever the order of the values. *)
ArePairs(s, groups) ==
    /\ s \in Seq(Pair) /\ Ordered(s, PairOrder)
    /\ \A x : In(s, x) <=> \E g \in 1 .. Len(groups) : \E v \in Nat :
                              In(groups[g][2], v) /\ x = <<groups[g][1], v>>

LEMMA PairsOf ==
  ASSUME NEW groups \in Seq(Group), Ordered(groups, KeyOrder), NEW bs, NEW ord,
         bs = [g \in DOMAIN groups |-> KeyWith(groups[g][1], ord[g])],
         \A g \in 1 .. Len(groups) : SameValues(ord[g], groups[g][2])
  PROVE  ArePairs(FlattenSeq(bs), groups)
  <1> DEFINE n == Len(groups)
  <1>1. /\ n \in Nat /\ DOMAIN groups = 1 .. n
        /\ \A g \in 1 .. n : groups[g] \in Group /\ groups[g][1] \in Int /\ groups[g][2] \in Seq(Nat)
    <2>1. \A g \in 1 .. n : groups[g] \in Group
      BY ElementOfSeq
    <2>2. QED
      BY <2>1, LenProperties DEF Group
  <1>2. \A g \in 1 .. n : /\ ord[g] \in Seq(Nat) /\ Distinct(ord[g])
                          /\ \A v : In(ord[g], v) <=> In(groups[g][2], v)
    BY DEF SameValues
  <1>3. bs = [g \in 1 .. n |-> KeyWith(groups[g][1], ord[g])]
    BY <1>1
  <1>4. ASSUME NEW g \in 1 .. n
        PROVE  /\ bs[g] \in Seq(Pair) /\ Ordered(bs[g], PairOrder)
               /\ \A x : In(bs[g], x) <=>
                           \E v \in Nat : In(groups[g][2], v) /\ x = <<groups[g][1], v>>
    <2> DEFINE k == groups[g][1]
               ws == ord[g]
    <2>1. k \in Int /\ ws \in Seq(Nat) /\ Distinct(ws) /\ bs[g] = KeyWith(k, ws)
      BY <1>1, <1>2, <1>3
    <2> HIDE DEF k, ws
    <2>2. /\ KeyWith(k, ws) \in Seq(Pair) /\ Ordered(KeyWith(k, ws), PairOrder)
          /\ \A x : In(KeyWith(k, ws), x) <=> \E v \in Nat : In(ws, v) /\ x = <<k, v>>
      BY <2>1, KeyWithFacts
    <2>3. \A v : In(ws, v) <=> In(groups[g][2], v)
      BY <1>2 DEF ws
    <2>4. QED
      BY <2>1, <2>2, <2>3 DEF k
  <1>5. bs \in Seq(Seq(Pair)) /\ Len(bs) = n
    <2>1. bs \in [1 .. n -> Seq(Pair)]
      BY <1>3, <1>4
    <2> HIDE DEF n
    <2>2. bs \in Seq(Seq(Pair))
      BY <1>1, <2>1, SeqDef
    <2>3. DOMAIN bs = 1 .. n /\ DOMAIN bs = 1 .. Len(bs) /\ Len(bs) \in Nat
      BY <2>1, <2>2, LenProperties
    <2>4. QED
      BY <1>1, <2>2, <2>3
  <1>6. BlocksOrdered(bs, PairOrder)
    <2>1. ASSUME NEW a \in 1 .. n, NEW c \in 1 .. n, a < c PROVE Before(bs[a], bs[c], PairOrder)
      <3>1. SUFFICES ASSUME NEW x, NEW y, In(bs[a], x), In(bs[c], y)
                     PROVE  <<x, y>> \in PairOrder
        BY DEF Before
      <3>2. PICK v \in Nat : x = <<groups[a][1], v>>
        BY <1>4, <3>1
      <3>3. PICK w \in Nat : y = <<groups[c][1], w>>
        BY <1>4, <3>1
      <3>4. groups[a][1] < groups[c][1]
        BY <2>1 DEF Ordered, KeyOrder
      <3>5. QED
        BY <1>1, <3>2, <3>3, <3>4 DEF PairOrder, Pair
    <2>2. QED
      BY <1>4, <1>5, <2>1 DEF BlocksOrdered
  <1> HIDE DEF n
  <1>7. ASSUME NEW x
        PROVE  In(FlattenSeq(bs), x) <=>
                 \E g \in 1 .. n : \E v \in Nat : In(groups[g][2], v) /\ x = <<groups[g][1], v>>
    <2>1. In(FlattenSeq(bs), x) <=> InSome(bs, x)
      BY <1>5, Flattened
    <2>2. QED
      BY <1>4, <1>5, <2>1 DEF InSome
  <1>8. FlattenSeq(bs) \in Seq(Pair) /\ Ordered(FlattenSeq(bs), PairOrder)
    BY <1>5, <1>6, Flattened
  <1>9. QED
    BY <1>7, <1>8 DEF ArePairs, n

LEMMA FirstOneLastFacts ==
  ASSUME NEW vs \in Seq(Nat), vs # <<>>, Distinct(vs)
  PROVE  SameValues(FirstOneLast(vs), vs)
  <1> DEFINE n == Len(vs)
             r == Reverse(Tail(vs))
             ws == FirstOneLast(vs)
  <1>1. n \in Nat /\ n # 0 /\ \A i \in 1 .. n : vs[i] \in Nat
    BY LenProperties, ElementOfSeq, EmptySeq
  <1>2. /\ Tail(vs) \in Seq(Nat) /\ Len(Tail(vs)) = n - 1
        /\ \A i \in 1 .. n - 1 : Tail(vs)[i] = vs[i + 1]
    BY HeadTailProperties
  <1>3. Head(vs) = vs[1] /\ vs[1] \in Nat
    BY <1>1, HeadTailProperties
  <1>4. r = [i \in 1 .. n - 1 |-> Tail(vs)[(n - 1) - i + 1]]
    BY <1>2 DEF Reverse
  <1> HIDE DEF n
  <1>5. \A i \in 1 .. n - 1 : r[i] = vs[n - i + 1] /\ r[i] \in Nat
    <2>1. SUFFICES ASSUME NEW i \in 1 .. n - 1 PROVE r[i] = vs[n - i + 1] /\ r[i] \in Nat
      OBVIOUS
    <2> DEFINE k == (n - 1) - i + 1
    <2>2. k \in 1 .. n - 1 /\ k + 1 = n - i + 1 /\ k + 1 \in 1 .. n
      BY <1>1
    <2>3. r[i] = Tail(vs)[k]
      BY <1>4
    <2> HIDE DEF k, r
    <2>4. r[i] = vs[k + 1]
      BY <1>2, <2>2, <2>3
    <2>5. QED
      BY <1>1, <2>2, <2>4
  <1>6. r \in Seq(Nat) /\ Len(r) = n - 1
    <2>1. r \in [1 .. n - 1 -> Nat] /\ n - 1 \in Nat
      <3>1. r = [i \in 1 .. n - 1 |-> r[i]]
        BY <1>4
      <3>2. n - 1 \in Nat
        BY <1>1
      <3> HIDE DEF r
      <3>3. QED
        BY <1>5, <3>1, <3>2
    <2> HIDE DEF r
    <2>2. r \in Seq(Nat)
      BY <2>1, SeqDef
    <2>3. DOMAIN r = 1 .. n - 1 /\ DOMAIN r = 1 .. Len(r) /\ Len(r) \in Nat
      BY <2>1, <2>2, LenProperties
    <2>4. QED
      BY <2>1, <2>2, <2>3
  <1>7. ws = r \o <<Head(vs)>>
    BY DEF FirstOneLast
  <1> HIDE DEF r, ws
  <1>8. /\ ws \in Seq(Nat) /\ Len(ws) = n
        /\ \A i \in 1 .. n : ws[i] = vs[n - i + 1]
    <2> DEFINE h == <<Head(vs)>>
    <2>1. h \in Seq(Nat) /\ Len(h) = 1 /\ h[1] = vs[1]
      BY <1>3
    <2> HIDE DEF h
    <2>2. /\ r \o h \in Seq(Nat) /\ Len(r \o h) = (n - 1) + 1
          /\ \A i \in 1 .. (n - 1) + 1 :
               (r \o h)[i] = IF i <= n - 1 THEN r[i] ELSE h[i - (n - 1)]
      <3>1. /\ r \o h \in Seq(Nat) /\ Len(r \o h) = Len(r) + Len(h)
            /\ \A i \in 1 .. Len(r) + Len(h) :
                 (r \o h)[i] = IF i <= Len(r) THEN r[i] ELSE h[i - Len(r)]
        BY <1>6, <2>1, ConcatProperties
      <3>2. QED
        BY <1>6, <2>1, <3>1
    <2>3. ws = r \o h
      BY <1>7 DEF h
    <2>4. ASSUME NEW i \in 1 .. n PROVE ws[i] = vs[n - i + 1]
      <3>1. CASE i <= n - 1
        <4>1. i \in 1 .. n - 1 /\ i \in 1 .. (n - 1) + 1
          BY <1>1, <3>1
        <4>2. QED
          BY <1>5, <2>2, <2>3, <3>1, <4>1
      <3>2. CASE i = n
        <4>1. i \in 1 .. (n - 1) + 1 /\ ~ (i <= n - 1) /\ i - (n - 1) = 1 /\ n - i + 1 = 1
          BY <1>1, <3>2
        <4>2. QED
          BY <2>1, <2>2, <2>3, <4>1
      <3>3. QED
        BY <1>1, <3>1, <3>2
    <2>5. (n - 1) + 1 = n
      BY <1>1
    <2>6. QED
      BY <2>2, <2>3, <2>4, <2>5
  <1>9. Distinct(ws)
    <2>1. SUFFICES ASSUME NEW j \in 1 .. n, NEW k \in 1 .. n, ws[j] = ws[k] PROVE j = k
      BY <1>8 DEF Distinct
    <2>2. n - j + 1 \in 1 .. n /\ n - k + 1 \in 1 .. n
      BY <1>1
    <2>3. n - j + 1 = n - k + 1
      BY <1>8, <2>1, <2>2 DEF Distinct, n
    <2>4. QED
      BY <1>1, <2>3
  <1>10. ASSUME NEW v PROVE In(ws, v) <=> In(vs, v)
    <2>1. \A i \in 1 .. n : n - i + 1 \in 1 .. n /\ n - (n - i + 1) + 1 = i
      BY <1>1
    <2>2. QED
      <3>1. ASSUME In(ws, v) PROVE In(vs, v)
        BY <1>8, <2>1, <3>1 DEF In, n
      <3>2. ASSUME In(vs, v) PROVE In(ws, v)
        <4>1. PICK i \in 1 .. n : vs[i] = v
          BY <3>2 DEF In, n
        <4> DEFINE j == n - i + 1
        <4>2. j \in 1 .. n /\ n - j + 1 = i
          BY <2>1
        <4> HIDE DEF j
        <4>3. ws[j] = v
          BY <1>8, <4>1, <4>2
        <4>4. QED
          BY <1>8, <4>2, <4>3 DEF In
      <3>3. QED
        BY <3>1, <3>2
  <1>11. QED
    BY <1>8, <1>9, <1>10 DEF SameValues, ws

(* The pairs that iter and into_iter yield.                                *)
HasPairs(t, s) ==
    /\ s \in Seq(Pair) /\ Ordered(s, PairOrder)
    /\ \A x : In(s, x) <=> \E k \in Int : \E v \in Nat : In(Get(t, k), v) /\ x = <<k, v>>

LEMMA ArePairsOf ==
  ASSUME NEW t \in Good, NEW s, ArePairs(s, Iter(t))
  PROVE  HasPairs(t, s)
  <1> DEFINE g == Iter(t)
  <1>1. \A x : In(g, x) <=> \E k \in Int : x = <<k, Get(t, k)>> /\ Get(t, k) # <<>>
    BY IterFacts
  <1> HIDE DEF g
  <1>2. \A v : ~ In(<<>>, v)
    BY DEF In
  <1>3. ASSUME NEW x
        PROVE  In(s, x) <=> \E k \in Int : \E v \in Nat : In(Get(t, k), v) /\ x = <<k, v>>
    <2>1. In(s, x) <=> \E i \in 1 .. Len(g) : \E v \in Nat : In(g[i][2], v) /\ x = <<g[i][1], v>>
      BY DEF ArePairs, g
    <2>2. ASSUME In(s, x)
          PROVE  \E k \in Int : \E v \in Nat : In(Get(t, k), v) /\ x = <<k, v>>
      <3>1. PICK i \in 1 .. Len(g) : \E v \in Nat : In(g[i][2], v) /\ x = <<g[i][1], v>>
        BY <2>1, <2>2
      <3>2. In(g, g[i])
        BY DEF In
      <3>3. PICK k \in Int : g[i] = <<k, Get(t, k)>>
        BY <1>1, <3>2
      <3>4. QED
        BY <3>1, <3>3
    <2>3. ASSUME NEW k \in Int, NEW v \in Nat, In(Get(t, k), v), x = <<k, v>>
          PROVE  In(s, x)
      <3>1. In(g, <<k, Get(t, k)>>)
        BY <1>1, <1>2, <2>3
      <3>2. PICK i \in 1 .. Len(g) : g[i] = <<k, Get(t, k)>>
        BY <3>1 DEF In
      <3>3. QED
        BY <2>1, <2>3, <3>2
    <2>4. QED
      BY <2>2, <2>3
  <1>4. QED
    BY <1>3 DEF ArePairs, HasPairs

LEMMA IterPairsFacts ==
  ASSUME NEW t \in Good, \A k \in Int : Distinct(Get(t, k))
  PROVE  HasPairs(t, IterPairs(t)) /\ HasPairs(t, IntoIterPairs(t))
  <1> DEFINE g == Iter(t)
             here == [i \in DOMAIN g |-> g[i][2]]
             back == [i \in DOMAIN g |-> FirstOneLast(g[i][2])]
  <1>1. g \in Seq(Group) /\ Ordered(g, KeyOrder) /\ DOMAIN g = 1 .. Len(g)
    BY IterFacts, LenProperties
  <1>2. ASSUME NEW i \in 1 .. Len(g)
        PROVE  /\ g[i][2] \in Seq(Nat) /\ g[i][2] # <<>> /\ Distinct(g[i][2])
    <2>1. In(g, g[i])
      BY DEF In
    <2>2. PICK k \in Int : g[i] = <<k, Get(t, k)>> /\ Get(t, k) # <<>>
      BY <2>1, IterFacts
    <2>3. Get(t, k) \in Seq(Nat)
      BY GoodFacts, GetFromTyped DEF Get
    <2>4. QED
      BY <2>2, <2>3
  <1>3. IterPairs(t) = FlattenSeq([i \in DOMAIN g |-> KeyWith(g[i][1], here[i])])
    BY DEF IterPairs, Pairs, AsTheyAre, KeyWith
  <1>4. IntoIterPairs(t) = FlattenSeq([i \in DOMAIN g |-> KeyWith(g[i][1], back[i])])
    BY DEF IntoIterPairs, Pairs, KeyWith
  <1> HIDE DEF g
  <1>5. \A i \in 1 .. Len(g) : SameValues(here[i], g[i][2])
    BY <1>1, <1>2 DEF SameValues
  <1>6. \A i \in 1 .. Len(g) : SameValues(back[i], g[i][2])
    BY <1>1, <1>2, FirstOneLastFacts
  <1> HIDE DEF here, back
  <1>7. ArePairs(IterPairs(t), g)
    BY <1>1, <1>3, <1>5, PairsOf
  <1>8. ArePairs(IntoIterPairs(t), g)
    BY <1>1, <1>4, <1>6, PairsOf
  <1>9. QED
    BY <1>7, <1>8, ArePairsOf DEF g

-----------------------------------------------------------------------------
(* A tree that holds a set of pairs, each once.                            *)

Holding(t, E) ==
    /\ t \in Good /\ E \subseteq Keys \X Nat
    /\ \A k \in Int : Distinct(Get(t, k))
    /\ \A k \in Int : \A v : In(Get(t, k), v) <=> <<k, v>> \in E

Listing(s, E) ==
    /\ s \in Seq(Keys \X Nat) /\ Distinct(s)
    /\ \A x : In(s, x) <=> x \in E

\* The keys do not get smaller.
Rising(s) == \A i, j \in 1 .. Len(s) : i < j => s[i][1] <= s[j][1]

LEMMA EmptyHolds == Holding(EmptyTree, {})
  <1> DEFINE t == EmptyTree
  <1>1. t \in Trees /\ Len(t) = 1 /\ t # <<>> /\ t[1] = <<>> /\ Len(t[1]) = 0
    <2>1. <<>> \in Seq(Place) /\ Len(<<>>) = 0
      BY EmptySeq
    <2>2. QED
      BY <2>1 DEF EmptyTree, Trees
  <1> HIDE DEF t
  <1>2. t \in Good
    <2>1. \A l \in 1 .. Len(t) : l = 1 /\ Len(t[l]) = 0
      BY <1>1
    <2>2. Fits(t, 0)
      BY <2>1 DEF Fits, Sorted
    <2>3. Hang(t)
      <3>1. \A l, i, m, j : ~ SameList(t, l, i, m, j)
        BY <2>1 DEF SameList
      <3>2. \A m \in 2 .. Len(t) : Hung(t, m)
        BY <1>1
      <3>3. QED
        BY <3>1, <3>2 DEF Hang
    <2>4. QED
      BY <1>1, <2>2, <2>3 DEF Good, Shape
  <1>3. \A k \in Int : Get(t, k) = <<>>
    <2>1. 1 \in 1 .. Len(t) /\ \A k \in Int : \A i \in 1 .. Len(t[1]) :
            ~ (t[1][i].min <= k /\ k <= t[1][i].max)
      BY <1>1
    <2>2. QED
      BY <1>2, <2>1, GetGap
  <1>4. Distinct(<<>>) /\ \A v : ~ In(<<>>, v)
    BY DEF Distinct, In
  <1>5. QED
    BY <1>2, <1>3, <1>4 DEF Holding, t

LEMMA Another ==
  ASSUME NEW s \in Seq(Nat), NEW v \in Nat, Distinct(s), ~ In(s, v)
  PROVE  /\ Distinct(Append(s, v))
         /\ \A x : In(Append(s, v), x) <=> In(s, x) \/ x = v
  <1> DEFINE n == Len(s)
             a == Append(s, v)
  <1>1. /\ n \in Nat /\ Len(a) = n + 1 /\ a[n + 1] = v
        /\ \A i \in 1 .. n : a[i] = s[i]
    BY AppendProperties, LenProperties
  <1>2. \A i : i \in 1 .. n + 1 <=> i \in 1 .. n \/ i = n + 1
    BY <1>1
  <1>3. ~ (n + 1 \in 1 .. n)
    BY <1>1
  <1> HIDE DEF a
  <1>4. \A x : In(a, x) <=> In(s, x) \/ x = v
    BY <1>1, <1>2 DEF In, n
  <1>5. Distinct(a)
    <2>1. SUFFICES ASSUME NEW j \in 1 .. n + 1, NEW k \in 1 .. n + 1, a[j] = a[k]
                   PROVE  j = k
      BY <1>1 DEF Distinct
    <2>2. CASE j \in 1 .. n /\ k \in 1 .. n
      BY <1>1, <2>1, <2>2 DEF Distinct, n
    <2>3. \A i \in 1 .. n : a[i] # v
      BY <1>1 DEF In, n
    <2>4. QED
      BY <1>1, <1>2, <2>1, <2>2, <2>3
  <1>6. QED
    BY <1>4, <1>5 DEF a

LEMMA PushHolds ==
  ASSUME NEW t, NEW E, Holding(t, E), NEW key \in Keys, NEW v \in Nat, <<key, v>> \notin E
  PROVE  Holding(PushInto(t, key, v), E \cup {<<key, v>>})
  <1> DEFINE u == PushInto(t, key, v)
             F == E \cup {<<key, v>>}
  <1>1. /\ t \in Good /\ key \in Int /\ E \subseteq Keys \X Nat
        /\ \A k \in Int : Distinct(Get(t, k))
        /\ \A k \in Int : \A w : In(Get(t, k), w) <=> <<k, w>> \in E
    BY BTreeVecConstants DEF Holding
  <1>2. /\ u \in Good
        /\ \A k \in Int : Get(u, k) = IF k = key THEN Append(Get(t, key), v) ELSE Get(t, k)
    BY <1>1, PushKeeps
  <1> HIDE DEF u
  <1>3. Get(t, key) \in Seq(Nat)
    BY <1>1, GoodFacts, GetFromTyped DEF Get
  <1>4. /\ Distinct(Append(Get(t, key), v))
        /\ \A x : In(Append(Get(t, key), v), x) <=> In(Get(t, key), x) \/ x = v
    BY <1>1, <1>3, Another
  <1>5. F \subseteq Keys \X Nat
    BY <1>1
  <1>6. ASSUME NEW k \in Int
        PROVE  Distinct(Get(u, k)) /\ \A w : In(Get(u, k), w) <=> <<k, w>> \in F
    <2>1. CASE k = key
      BY <1>1, <1>2, <1>4, <2>1
    <2>2. CASE k # key
      BY <1>1, <1>2, <2>2
    <2>3. QED
      BY <2>1, <2>2
  <1> HIDE DEF F
  <1>7. Holding(u, F)
    BY <1>2, <1>5, <1>6 DEF Holding
  <1>8. QED
    BY <1>7 DEF u, F

(* from_iter: the pairs one by one.                                        *)
IsPushed(f, pairs) ==
    /\ f[0] = EmptyTree
    /\ \A n \in 1 .. Len(pairs) : f[n] = PushInto(f[n - 1], pairs[n][1], pairs[n][2])

LEMMA PushedSteps ==
  ASSUME NEW pairs \in Seq(Keys \X Nat)
  PROVE  IsPushed(Pushed(pairs), pairs)
  <1> DEFINE n == Len(pairs)
             G == [i \in 1 .. n |-> [t \in Good |-> PushInto(t, pairs[i][1], pairs[i][2])]]
             Body(i, h) == IF i = 0 THEN EmptyTree
                           ELSE PushInto(h[i - 1], pairs[i][1], pairs[i][2])
             g == Pushed(pairs)
  <1>1. /\ n \in Nat /\ EmptyTree \in Good
        /\ \A i \in 1 .. n : pairs[i][1] \in Keys /\ pairs[i][2] \in Nat
    <2>1. \A i \in 1 .. n : pairs[i] \in Keys \X Nat
      BY ElementOfSeq
    <2>2. QED
      BY <2>1, EmptyHolds, LenProperties DEF Holding
  <1>2. Stepwise(n, Good, G)
    <2>1. \A i \in 1 .. n : \A t \in Good : PushInto(t, pairs[i][1], pairs[i][2]) \in Good
      BY <1>1, PushKeeps
    <2> HIDE DEF n
    <2>2. QED
      BY <2>1 DEF Stepwise
  <1>3. PICK f \in [0 .. n -> Good] : f[0] = EmptyTree /\ \A i \in 1 .. n : f[i] = G[i][f[i - 1]]
    <2>1. n \in Nat /\ EmptyTree \in Good /\ Stepwise(n, Good, G)
      BY <1>1, <1>2
    <2> HIDE DEF n, G
    <2>2. QED
      BY <2>1, UpwardRecursion, SMTT(30)
  <1> HIDE DEF n
  <1>4. \A i \in 1 .. n : f[i] = PushInto(f[i - 1], pairs[i][1], pairs[i][2])
    <2>1. \A i \in 1 .. n : i - 1 \in 0 .. n
      BY <1>1
    <2>2. QED
      BY <1>3, <2>1
  <1>5. f = [i \in 0 .. n |-> Body(i, f)]
    <2>1. \A i \in 0 .. n : i # 0 => i \in 1 .. n
      BY <1>1
    <2>2. \A i \in 0 .. n : f[i] = Body(i, f)
      BY <1>3, <1>4, <2>1
    <2> HIDE DEF Body
    <2>3. QED
      BY <1>3, <2>2
  <1>6. g = [i \in 0 .. n |-> Body(i, g)]
    BY <1>5 DEF Pushed, n
  <1> HIDE DEF g
  <1>7. g[0] = EmptyTree
    <2>1. 0 \in 0 .. n
      BY <1>1
    <2>2. g[0] = Body(0, g)
      <3> HIDE DEF Body
      <3>1. QED
        BY <1>6, <2>1
    <2>3. QED
      BY <2>2
  <1>8. \A i \in 1 .. n : g[i] = PushInto(g[i - 1], pairs[i][1], pairs[i][2])
    <2>1. SUFFICES ASSUME NEW i \in 1 .. n
                   PROVE  g[i] = PushInto(g[i - 1], pairs[i][1], pairs[i][2])
      OBVIOUS
    <2>2. i \in 0 .. n /\ i # 0
      BY <1>1
    <2>3. g[i] = Body(i, g)
      <3> HIDE DEF Body
      <3>1. QED
        BY <1>6, <2>2
    <2>4. QED
      BY <2>2, <2>3
  <1>9. QED
    BY <1>7, <1>8 DEF IsPushed, g, n

LEMMA PushedHolds ==
  ASSUME NEW pairs \in Seq(Keys \X Nat), Distinct(pairs)
  PROVE  \A n \in 0 .. Len(pairs) : Holding(Pushed(pairs)[n], {pairs[i] : i \in 1 .. n})
  <1> DEFINE m == Len(pairs)
             g == Pushed(pairs)
             E(n) == {pairs[i] : i \in 1 .. n}
             T == {n \in 0 .. m : Holding(g[n], E(n))}
  <1>1. /\ m \in Nat
        /\ \A i \in 1 .. m : /\ pairs[i] \in Keys \X Nat /\ pairs[i][1] \in Keys /\ pairs[i][2] \in Nat
                             /\ pairs[i] = <<pairs[i][1], pairs[i][2]>>
    <2>1. \A i \in 1 .. m : pairs[i] \in Keys \X Nat
      BY ElementOfSeq
    <2>2. QED
      BY <2>1, LenProperties
  <1>2. g[0] = EmptyTree /\ \A n \in 1 .. m : g[n] = PushInto(g[n - 1], pairs[n][1], pairs[n][2])
    BY PushedSteps DEF IsPushed
  <1> HIDE DEF g, m
  <1>3. 0 \in T
    <2>1. E(0) = {}
      OBVIOUS
    <2>2. 0 \in 0 .. m
      BY <1>1
    <2> HIDE DEF E
    <2>3. Holding(g[0], E(0))
      BY <1>2, <2>1, EmptyHolds
    <2>4. QED
      BY <2>2, <2>3
  <1>4. ASSUME NEW n \in 0 .. m - 1, n \in T PROVE n + 1 \in T
    <2> DEFINE k == n + 1
    <2>1. k \in 1 .. m /\ k - 1 = n /\ k \in 0 .. m /\ n \in 0 .. m
      BY <1>1
    <2>2. \A i : i \in 1 .. k <=> i \in 1 .. n \/ i = k
      BY <1>1
    <2>3. \A i \in 1 .. n : i # k /\ i \in 1 .. m
      BY <1>1
    <2> HIDE DEF k
    <2>4. g[k] = PushInto(g[n], pairs[k][1], pairs[k][2])
      BY <1>2, <2>1
    <2>5. pairs[k] \notin E(n)
      BY <2>1, <2>3 DEF Distinct, m
    <2>6. E(k) = E(n) \cup {pairs[k]}
      BY <2>2
    <2>7. Holding(g[n], E(n))
      BY <1>4
    <2> DEFINE key == pairs[k][1]
               v == pairs[k][2]
    <2>8. key \in Keys /\ v \in Nat /\ pairs[k] = <<key, v>>
      BY <1>1, <2>1
    <2> HIDE DEF E, key, v
    <2>9. Holding(PushInto(g[n], key, v), E(n) \cup {<<key, v>>})
      BY <2>5, <2>7, <2>8, PushHolds
    <2>10. Holding(g[k], E(k))
      BY <2>4, <2>6, <2>8, <2>9 DEF key, v
    <2>11. QED
      BY <2>1, <2>10 DEF k
  <1>5. \A n \in 0 .. m - 1 : n \in T => n + 1 \in T
    BY <1>4
  <1> HIDE DEF T
  <1>6. \A n \in 0 .. m : n \in T
    BY <1>1, <1>3, <1>5, UpTo
  <1>7. QED
    BY <1>6 DEF T, g, m

LEMMA FromIterHolds ==
  ASSUME NEW E, NEW s, Listing(s, E)
  PROVE  Holding(FromIter(s), E)
  <1>1. s \in Seq(Keys \X Nat) /\ Distinct(s) /\ Len(s) \in Nat
    BY LenProperties DEF Listing
  <1>2. Holding(Pushed(s)[Len(s)], {s[i] : i \in 1 .. Len(s)})
    <2>1. Len(s) \in 0 .. Len(s)
      BY <1>1
    <2>2. \A n \in 0 .. Len(s) : Holding(Pushed(s)[n], {s[i] : i \in 1 .. n})
      BY <1>1, PushedHolds
    <2>3. QED
      BY <2>1, <2>2
  <1>3. {s[i] : i \in 1 .. Len(s)} = E
    BY DEF Listing, In
  <1>4. QED
    BY <1>2, <1>3 DEF FromIter

(* What the iterators yield lists what the tree holds.                     *)
LEMMA PairsList ==
  ASSUME NEW t, NEW E, Holding(t, E), NEW s, HasPairs(t, s)
  PROVE  Listing(s, E) /\ Rising(s)
  <1>1. /\ E \subseteq Keys \X Nat
        /\ \A k \in Int : \A v : In(Get(t, k), v) <=> <<k, v>> \in E
    BY DEF Holding
  <1>2. s \in Seq(Pair) /\ Ordered(s, PairOrder)
    BY DEF HasPairs
  <1>3. ASSUME NEW x PROVE In(s, x) <=> x \in E
    <2>1. In(s, x) <=> \E k \in Int : \E v \in Nat : In(Get(t, k), v) /\ x = <<k, v>>
      BY DEF HasPairs
    <2>2. ASSUME x \in E
          PROVE  \E k \in Int : \E v \in Nat : In(Get(t, k), v) /\ x = <<k, v>>
      <3>1. PICK k \in Keys, v \in Nat : x = <<k, v>>
        BY <1>1, <2>2
      <3>2. k \in Int
        BY BTreeVecConstants
      <3>3. QED
        BY <1>1, <2>2, <3>1, <3>2
    <2>3. ASSUME NEW k \in Int, NEW v \in Nat, In(Get(t, k), v), x = <<k, v>>
          PROVE  x \in E
      BY <1>1, <2>3
    <2>4. QED
      BY <2>1, <2>2, <2>3
  <1>4. s \in Seq(Keys \X Nat)
    <2>1. \A i \in 1 .. Len(s) : s[i] \in Keys \X Nat
      BY <1>1, <1>3 DEF In
    <2>2. s \in [1 .. Len(s) -> Keys \X Nat] /\ Len(s) \in Nat
      <3>1. s = [i \in 1 .. Len(s) |-> s[i]] /\ Len(s) \in Nat
        BY <1>2, LenProperties
      <3>2. QED
        BY <2>1, <3>1
    <2>3. QED
      BY <2>2, SeqDef
  <1>5. \A i, j \in 1 .. Len(s) : i < j =>
          /\ s[i][1] <= s[j][1] /\ s[i] # s[j]
    <2>1. SUFFICES ASSUME NEW i \in 1 .. Len(s), NEW j \in 1 .. Len(s), i < j
                   PROVE  s[i][1] <= s[j][1] /\ s[i] # s[j]
      OBVIOUS
    <2>2. <<s[i], s[j]>> \in PairOrder
      BY <1>2, <2>1 DEF Ordered
    <2>3. s[i] \in Pair /\ s[j] \in Pair
      BY <1>2, ElementOfSeq
    <2>4. s[i][1] \in Int /\ s[j][1] \in Int
      BY <2>3 DEF Pair
    <2>5. QED
      BY <2>2, <2>4 DEF PairOrder
  <1>6. Distinct(s)
    <2>1. Len(s) \in Nat
      BY <1>2, LenProperties
    <2>2. \A i, j \in 1 .. Len(s) : i < j \/ j < i \/ i = j
      BY <2>1
    <2>3. QED
      BY <1>5, <2>2 DEF Distinct
  <1>7. QED
    BY <1>3, <1>4, <1>5, <1>6 DEF Listing, Rising

LEMMA ListingCounts ==
  ASSUME NEW E, NEW s, Listing(s, E)
  PROVE  IsFiniteSet(E) /\ Len(s) = Cardinality(E)
  <1> DEFINE n == Len(s)
  <1>1. /\ s \in Seq(Keys \X Nat) /\ Distinct(s) /\ n \in Nat
        /\ \A x : In(s, x) <=> x \in E
    BY LenProperties DEF Listing
  <1>2. s = [i \in 1 .. n |-> s[i]]
    BY <1>1, LenProperties
  <1>3. s \in Bijection(1 .. n, E)
    <2>1. s \in [1 .. n -> E]
      <3>1. \A i \in 1 .. n : s[i] \in E
        BY <1>1 DEF In
      <3> HIDE DEF n
      <3>2. QED
        BY <1>2, <3>1
    <2>2. \A i, j \in 1 .. n : s[i] = s[j] => i = j
      BY <1>1 DEF Distinct
    <2>3. \A x \in E : \E i \in 1 .. n : s[i] = x
      BY <1>1 DEF In
    <2> HIDE DEF n
    <2>4. QED
      BY <2>1, <2>2, <2>3 DEF Bijection, Injection, Surjection, IsInjective
  <1>4. IsFiniteSet(1 .. n) /\ Cardinality(1 .. n) = n
    <2>1. 1 \in Int /\ n \in Int /\ (1 > n => n = 0) /\ n - 1 + 1 = n
      BY <1>1
    <2> HIDE DEF n
    <2>2. QED
      BY <2>1, FS_Interval
  <1> HIDE DEF n
  <1>5. ExistsBijection(1 .. n, E)
    BY <1>3 DEF ExistsBijection
  <1>6. QED
    BY <1>4, <1>5, FS_Bijection DEF n

-----------------------------------------------------------------------------
(* from_sorted_iter makes of rising pairs what from_iter does.             *)

GroupMore(was, key, v) ==
    IF was # <<>> /\ Last(was).min = key
    THEN [was EXCEPT ![Len(was)].leaf = Append(@, v)]
    ELSE Append(was, Leaf(key, <<v>>))

LEMMA LastPlace ==
  ASSUME NEW s \in Seq(Place), s # <<>>
  PROVE  /\ Len(s) \in 1 .. Len(s) /\ Last(s) = s[Len(s)] /\ s[Len(s)] \in Place
         /\ s[Len(s)].min \in Int /\ s[Len(s)].max \in Int /\ s[Len(s)].leaf \in Seq(Nat)
  <1>1. Len(s) \in Nat /\ Len(s) # 0
    BY LenProperties, EmptySeq
  <1>2. Len(s) \in 1 .. Len(s)
    BY <1>1
  <1>3. QED
    BY <1>2, PlaceFacts DEF Last

LEMMA GroupMoreFacts ==
  ASSUME NEW s \in Seq(Place), NEW key \in Int, NEW v \in Nat
  PROVE  /\ GroupMore(s, key, v) \in Seq(Place) /\ GroupMore(s, key, v) # <<>>
         /\ Last(GroupMore(s, key, v)).min = key
  <1> DEFINE g == GroupMore(s, key, v)
             e == Leaf(key, <<v>>)
  <1>1. e \in Place /\ e.min = key
    <2>1. <<v>> \in Seq(Nat)
      OBVIOUS
    <2>2. QED
      BY <2>1 DEF Leaf, Place
  <1> HIDE DEF e
  <1>2. CASE s # <<>> /\ Last(s).min = key
    <2> DEFINE n == Len(s)
               p == [s[n] EXCEPT !.leaf = Append(@, v)]
    <2>1. n \in 1 .. n /\ n \in Nat /\ s[n].min = key /\ s[n] \in Place /\ s[n].leaf \in Seq(Nat)
      BY <1>2, LastPlace, LenProperties
    <2>2. Append(s[n].leaf, v) \in Seq(Nat)
      BY <2>1, AppendProperties
    <2>3. p \in Place /\ p.min = key
      BY <2>1, <2>2 DEF Place
    <2>4. g = [s EXCEPT ![n] = p]
      BY <1>2 DEF GroupMore
    <2> HIDE DEF p, g, n
    <2>5. g \in Seq(Place) /\ Len(g) = n /\ g[n] = p
      BY <2>1, <2>3, <2>4, ExceptSeq DEF n
    <2>6. g # <<>>
      BY <2>1, <2>5
    <2>7. QED
      BY <2>3, <2>5, <2>6 DEF Last, g
  <1>3. CASE ~ (s # <<>> /\ Last(s).min = key)
    <2>1. g = Append(s, e)
      BY <1>3 DEF GroupMore, e
    <2> HIDE DEF g
    <2>2. /\ g \in Seq(Place) /\ Len(g) = Len(s) + 1 /\ g[Len(s) + 1] = e
          /\ Len(s) \in Nat
      BY <1>1, <2>1, AppendProperties, LenProperties
    <2>3. g # <<>>
      BY <2>2
    <2>4. QED
      BY <1>1, <2>2, <2>3 DEF Last, g
  <1>4. QED
    BY <1>2, <1>3

IsGrouped(f, pairs) ==
    /\ f[0] = <<>> /\ \A n \in 0 .. Len(pairs) : f[n] \in Seq(Place)
    /\ \A n \in 1 .. Len(pairs) : f[n] = GroupMore(f[n - 1], pairs[n][1], pairs[n][2])

LEMMA GroupedSteps ==
  ASSUME NEW pairs \in Seq(Keys \X Nat)
  PROVE  IsGrouped(Grouped(pairs), pairs)
  <1> DEFINE n == Len(pairs)
             Z == Seq(Place)
             G == [i \in 1 .. n |-> [s \in Z |-> GroupMore(s, pairs[i][1], pairs[i][2])]]
             Body(i, h) == IF i = 0 THEN <<>>
                           ELSE GroupMore(h[i - 1], pairs[i][1], pairs[i][2])
             g == Grouped(pairs)
  <1>1. /\ n \in Nat /\ <<>> \in Z
        /\ \A i \in 1 .. n : pairs[i][1] \in Int /\ pairs[i][2] \in Nat
    <2>1. \A i \in 1 .. n : pairs[i] \in Keys \X Nat
      BY ElementOfSeq
    <2>2. \A i \in 1 .. n : pairs[i][1] \in Keys /\ pairs[i][2] \in Nat
      BY <2>1
    <2>3. QED
      BY <2>2, BTreeVecConstants, EmptySeq, LenProperties
  <1>2. \A i \in 1 .. n : \A s \in Z : GroupMore(s, pairs[i][1], pairs[i][2]) \in Z
    BY <1>1, GroupMoreFacts
  <1>3. Stepwise(n, Z, G)
    <2> HIDE DEF n, Z
    <2>1. QED
      BY <1>2 DEF Stepwise
  <1>4. PICK f \in [0 .. n -> Z] : f[0] = <<>> /\ \A i \in 1 .. n : f[i] = G[i][f[i - 1]]
    <2>1. n \in Nat /\ <<>> \in Z /\ Stepwise(n, Z, G)
      BY <1>1, <1>3
    <2> HIDE DEF n, G, Z
    <2>2. QED
      BY <2>1, UpwardRecursion
  <1> HIDE DEF n
  <1>5. \A i \in 1 .. n : f[i] = GroupMore(f[i - 1], pairs[i][1], pairs[i][2])
    <2>1. \A i \in 1 .. n : i - 1 \in 0 .. n
      BY <1>1
    <2> HIDE DEF Z
    <2>2. QED
      BY <1>4, <2>1
  <1>6. f = [i \in 0 .. n |-> Body(i, f)]
    <2>1. \A i \in 0 .. n : i # 0 => i \in 1 .. n
      BY <1>1
    <2>2. \A i \in 0 .. n : f[i] = Body(i, f)
      BY <1>4, <1>5, <2>1
    <2> HIDE DEF Body, Z
    <2>3. QED
      BY <1>4, <2>2
  <1>7. g = [i \in 0 .. n |-> Body(i, g)]
    BY <1>6 DEF Grouped, GroupMore, n
  <1> HIDE DEF g
  <1>8. g[0] = <<>>
    <2>1. 0 \in 0 .. n
      BY <1>1
    <2>2. g[0] = Body(0, g)
      <3> HIDE DEF Body
      <3>1. QED
        BY <1>7, <2>1
    <2>3. QED
      BY <2>2
  <1>9. ASSUME NEW i \in 1 .. n
        PROVE  g[i] = GroupMore(g[i - 1], pairs[i][1], pairs[i][2])
    <2>1. i \in 0 .. n /\ i # 0
      BY <1>1
    <2>2. g[i] = Body(i, g)
      <3> HIDE DEF Body
      <3>1. QED
        BY <1>7, <2>1
    <2>3. QED
      BY <2>1, <2>2
  <1>10. \A i \in 0 .. n : g[i] \in Z
    <2> DEFINE T == {i \in 0 .. n : g[i] \in Z}
    <2>1. 0 \in T
      <3>1. 0 \in 0 .. n
        BY <1>1
      <3> HIDE DEF Z
      <3>2. QED
        BY <1>1, <1>8, <3>1
    <2>2. ASSUME NEW i \in 0 .. n - 1, i \in T PROVE i + 1 \in T
      <3> DEFINE k == i + 1
      <3>1. k \in 1 .. n /\ k - 1 = i /\ k \in 0 .. n
        BY <1>1
      <3> HIDE DEF k, Z
      <3>2. g[k] = GroupMore(g[k - 1], pairs[k][1], pairs[k][2]) /\ g[k - 1] \in Z
        BY <1>9, <2>2, <3>1
      <3>3. g[k] \in Z
        BY <1>2, <3>1, <3>2
      <3>4. QED
        BY <3>1, <3>3 DEF k
    <2>3. \A i \in 0 .. n - 1 : i \in T => i + 1 \in T
      BY <2>2
    <2> HIDE DEF T
    <2>4. \A i \in 0 .. n : i \in T
      BY <1>1, <2>1, <2>3, UpTo
    <2>5. QED
      BY <2>4 DEF T
  <1>11. QED
    BY <1>8, <1>9, <1>10 DEF IsGrouped, g, n

(* Pushing a key that is not below any into a tree of one list.            *)
LEMMA PushAtEnd ==
  ASSUME NEW s \in Seq(Place), << s >> \in Good, NEW key \in Keys, NEW v \in Nat,
         s # <<>> => Last(s).min <= key
  PROVE  PushInto(<< s >>, key, v) = << GroupMore(s, key, v) >>
  <1> DEFINE t == << s >>
             n == Len(s)
             h == PushFrom(t, key, v)
             e == Leaf(key, <<v>>)
             u == PushInto(t, key, v)
  <1>1. t \in Good /\ Len(t) = 1 /\ t[1] = s /\ 1 \in 1 .. Len(t)
    OBVIOUS
  <1> HIDE DEF t
  <1>2. /\ Sorted(s) /\ n \in Nat /\ t \in Trees /\ key \in Int
        /\ \A i \in 1 .. n : s[i].min \in Int /\ s[i].max \in Int /\ s[i].list \in Nat
    BY <1>1, GoodFacts, PlaceFacts, BTreeVecConstants
  <1>3. \A i \in 1 .. n : s[i].list = 0 /\ s[i].min = s[i].max
    <2>1. SUFFICES ASSUME NEW i \in 1 .. n PROVE s[i].list = 0 /\ s[i].min = s[i].max
      OBVIOUS
    <2>2. PlaceFits(t, 1, s[i], 0)
      BY <1>1, GoodFacts, PlaceHasFit
    <2>3. QED
      BY <1>1, <1>2, <2>2 DEF PlaceFits
  <1>4. s # <<>> => n \in 1 .. n /\ Last(s) = s[n]
    BY LastPlace
  <1>5. u = PushBody(t, key, v, 1, h)
    BY <1>1, <1>2, PushFromDef DEF PushInto
  <1>6. IsPush(u, t, key, v, 1, h)
    BY <1>1, <1>2, <1>5, PushBodyCases
  <1>7. e \in Place
    <2>1. <<v>> \in Seq(Nat)
      OBVIOUS
    <2>2. QED
      BY <1>2, <2>1, LeafIsPlace
  <1> HIDE DEF h, u, e
  <1>8. CASE Beyond(s, key) /\ u = Inserted(t, 1, n + 1, key, v)
    <2>1. InsertAt(s, n + 1, e) = Append(s, e)
      <3> DEFINE a == InsertAt(s, n + 1, e)
                 c == Append(s, e)
      <3>1. n + 1 \in 1 .. n + 1
        BY <1>2
      <3>2. /\ a \in Seq(Place) /\ Len(a) = n + 1
            /\ \A j \in 1 .. n + 1 : a[j] = IF j < n + 1 THEN s[j] ELSE IF j = n + 1 THEN e ELSE s[j - 1]
        <4>1. a \in Seq(Place) /\ IsInsert(a, s, n + 1, e)
          BY <1>7, <3>1, InsertAtFacts
        <4> HIDE DEF a
        <4>2. QED
          BY <4>1 DEF IsInsert
      <3>3. /\ c \in Seq(Place) /\ Len(c) = n + 1 /\ c[n + 1] = e
            /\ \A j \in 1 .. n : c[j] = s[j]
        BY <1>7, AppendProperties
      <3> HIDE DEF a, c
      <3>4. \A j \in 1 .. n + 1 : j = n + 1 \/ (j \in 1 .. n /\ j < n + 1)
        BY <1>2
      <3>5. \A j \in 1 .. n + 1 : a[j] = c[j]
        BY <3>2, <3>3, <3>4
      <3>6. a = c
        BY <3>2, <3>3, <3>5, SeqEqual
      <3>7. QED
        BY <3>6 DEF a, c
    <2>2. Inserted(t, 1, n + 1, key, v) = << Append(s, e) >>
      BY <1>1, <2>1 DEF Inserted, e, t
    <2>3. ~ (s # <<>> /\ Last(s).min = key)
      BY <1>2, <1>3, <1>4, <1>8 DEF Beyond
    <2>4. GroupMore(s, key, v) = Append(s, e)
      BY <2>3 DEF GroupMore, e
    <2>5. QED
      BY <1>8, <2>2, <2>4 DEF u, t
  <1>9. ASSUME NEW i \in 1 .. n, InPlace(s, i, key), u = Appended(t, 1, i, v)
        PROVE  u = << GroupMore(s, key, v) >>
    <2>1. s # <<>>
      BY <1>2, <1>9
    <2>2. n \in 1 .. n /\ Last(s) = s[n] /\ s[n].min <= key
      BY <1>4, <2>1
    <2>3. key = s[i].min
      BY <1>2, <1>3, <1>9 DEF InPlace
    <2>4. ~ (i < n)
      <3>1. i < n => s[i].max < s[n].min
        BY <1>2, <2>2 DEF Sorted
      <3>2. QED
        BY <1>2, <1>3, <2>2, <2>3, <3>1
    <2>5. i = n
      BY <1>2, <2>4
    <2>6. Appended(t, 1, n, v) = << [s EXCEPT ![n].leaf = Append(@, v)] >>
      <3> DEFINE q == [s EXCEPT ![n].leaf = Append(@, v)]
      <3>1. Appended(t, 1, n, v) = [t EXCEPT ![1] = q]
        BY <1>1 DEF Appended
      <3> HIDE DEF q
      <3>2. [t EXCEPT ![1] = q] = << q >>
        BY DEF t
      <3>3. QED
        BY <3>1, <3>2 DEF q
    <2>7. GroupMore(s, key, v) = [s EXCEPT ![n].leaf = Append(@, v)]
      BY <2>1, <2>2, <2>3, <2>5 DEF GroupMore
    <2>8. QED
      BY <1>9, <2>5, <2>6, <2>7
  <1>10. ASSUME NEW i \in 1 .. n, BelowPlace(s, i, key) PROVE FALSE
    <2>1. s # <<>>
      BY <1>2, <1>10
    <2>2. n \in 1 .. n /\ s[n].min <= key
      BY <1>4, <2>1
    <2>3. i < n => s[i].max < s[n].min
      BY <1>2, <2>2 DEF Sorted
    <2>4. key < s[i].min
      BY <1>10 DEF BelowPlace
    <2>5. QED
      BY <1>2, <1>3, <2>2, <2>3, <2>4
  <1>11. u = << GroupMore(s, key, v) >>
    <2>1. \/ Beyond(s, key) /\ u = Inserted(t, 1, n + 1, key, v)
          \/ \E i \in 1 .. n : /\ InPlace(s, i, key)
                               /\ u = IF s[i].list = 0 THEN Appended(t, 1, i, v) ELSE h[s[i].list]
          \/ \E i \in 1 .. n : BelowPlace(s, i, key)
      BY <1>1, <1>6 DEF IsPush
    <2>2. CASE \E i \in 1 .. n : /\ InPlace(s, i, key)
                                 /\ u = IF s[i].list = 0 THEN Appended(t, 1, i, v) ELSE h[s[i].list]
      BY <1>3, <1>9, <2>2
    <2>3. QED
      BY <1>8, <1>10, <2>1, <2>2 DEF u, t
  <1>12. QED
    BY <1>11 DEF u, t

LEMMA FromSortedIterSame ==
  ASSUME NEW E, NEW s, Listing(s, E), Rising(s)
  PROVE  FromSortedIter(s) = FromIter(s)
  <1> DEFINE m == Len(s)
             f == Pushed(s)
             g == Grouped(s)
             T == {n \in 0 .. m : f[n] = << g[n] >>}
  <1>1. s \in Seq(Keys \X Nat) /\ Distinct(s) /\ m \in Nat
    BY LenProperties DEF Listing
  <1>2. \A i \in 1 .. m : s[i][1] \in Keys /\ s[i][1] \in Int /\ s[i][2] \in Nat
    <2>1. \A i \in 1 .. m : s[i] \in Keys \X Nat
      BY <1>1, ElementOfSeq
    <2>2. \A i \in 1 .. m : s[i][1] \in Keys /\ s[i][2] \in Nat
      BY <2>1
    <2>3. QED
      BY <2>2, BTreeVecConstants
  <1>3. f[0] = EmptyTree /\ \A n \in 1 .. m : f[n] = PushInto(f[n - 1], s[n][1], s[n][2])
    BY <1>1, PushedSteps DEF IsPushed
  <1>4. /\ g[0] = <<>> /\ \A n \in 0 .. m : g[n] \in Seq(Place)
        /\ \A n \in 1 .. m : g[n] = GroupMore(g[n - 1], s[n][1], s[n][2])
    BY <1>1, GroupedSteps DEF IsGrouped
  <1>5. \A n \in 0 .. m : f[n] \in Good
    BY <1>1, PushedHolds DEF Holding
  <1>6. \A i, j \in 1 .. m : i < j => s[i][1] <= s[j][1]
    BY DEF Rising
  <1> HIDE DEF m, f, g
  <1>7. 0 \in T
    <2>1. 0 \in 0 .. m
      BY <1>1
    <2>2. QED
      BY <1>3, <1>4, <2>1 DEF EmptyTree
  <1>8. ASSUME NEW n \in 0 .. m - 1, n \in T PROVE n + 1 \in T
    <2> DEFINE k == n + 1
               key == s[k][1]
               v == s[k][2]
               was == g[n]
    <2>1. k \in 1 .. m /\ k - 1 = n /\ k \in 0 .. m /\ n \in 0 .. m /\ n < k
      BY <1>1
    <2> HIDE DEF k
    <2>2. /\ f[k] = PushInto(f[n], key, v) /\ g[k] = GroupMore(was, key, v)
          /\ f[n] = << was >> /\ << was >> \in Good /\ was \in Seq(Place)
          /\ key \in Keys /\ v \in Nat
      BY <1>2, <1>3, <1>4, <1>5, <1>8, <2>1
    <2>3. was # <<>> => Last(was).min <= key
      <3>1. CASE n = 0
        BY <1>4, <3>1
      <3>2. CASE n # 0
        <4> DEFINE w == g[n - 1]
                   key0 == s[n][1]
        <4>1. n \in 1 .. m /\ n - 1 \in 0 .. m
          BY <1>1, <3>2
        <4>2. w \in Seq(Place) /\ was = GroupMore(w, key0, s[n][2]) /\ key0 \in Int /\ s[n][2] \in Nat
          BY <1>2, <1>4, <4>1
        <4>3. Last(was).min = key0
          <5> HIDE DEF w, key0, was
          <5>1. QED
            BY <4>2, GroupMoreFacts
        <4>4. key0 <= key
          BY <1>6, <2>1, <4>1
        <4>5. QED
          BY <4>3, <4>4
      <3>3. QED
        BY <3>1, <3>2
    <2> HIDE DEF key, v, was
    <2>4. PushInto(<< was >>, key, v) = << GroupMore(was, key, v) >>
      BY <2>2, <2>3, PushAtEnd
    <2>5. f[k] = << g[k] >>
      BY <2>2, <2>4
    <2>6. QED
      BY <2>1, <2>5 DEF k
  <1>9. \A n \in 0 .. m - 1 : n \in T => n + 1 \in T
    BY <1>8
  <1> HIDE DEF T
  <1>10. \A n \in 0 .. m : n \in T
    BY <1>1, <1>7, <1>9, UpTo
  <1>11. f[m] = << g[m] >>
    <2>1. m \in T
      BY <1>1, <1>10
    <2>2. QED
      BY <2>1 DEF T
  <1>12. QED
    BY <1>11 DEF f, g, m, FromIter, FromSortedIter

-----------------------------------------------------------------------------
(* The invariant.                                                          *)

PairsIn(g) == UNION {{<<k, g[k][i]>> : i \in DOMAIN g[k]} : k \in Keys}

(* The tree holds the values it got, which are numbered up to len.         *)
TreeInv ==
    /\ Holding(itms, Entries) /\ got = Found(itms)
    /\ Entries \subseteq Keys \X (1 .. len)
    /\ len = Cardinality(Entries)

LEMMA PairsFound ==
  ASSUME NEW t, NEW E, Holding(t, E)
  PROVE  PairsIn(Found(t)) = E
  <1> DEFINE g == Found(t)
  <1>1. /\ t \in Good /\ E \subseteq Keys \X Nat
        /\ \A k \in Int : \A v : In(Get(t, k), v) <=> <<k, v>> \in E
    BY DEF Holding
  <1>2. \A k \in Keys : /\ g[k] = Get(t, k) /\ k \in Int
                        /\ DOMAIN g[k] = 1 .. Len(g[k])
    <2>1. SUFFICES ASSUME NEW k \in Keys
                   PROVE  g[k] = Get(t, k) /\ k \in Int /\ DOMAIN g[k] = 1 .. Len(g[k])
      OBVIOUS
    <2>2. k \in Int /\ g[k] = Get(t, k)
      BY BTreeVecConstants DEF Found
    <2>3. Get(t, k) \in Seq(Nat)
      BY <1>1, <2>2, GoodFacts, GetFromTyped DEF Get
    <2> HIDE DEF g
    <2>4. QED
      BY <2>2, <2>3, LenProperties
  <1> HIDE DEF g
  <1>3. ASSUME NEW x PROVE x \in PairsIn(g) <=> x \in E
    <2>1. x \in PairsIn(g) <=> \E k \in Keys : \E i \in 1 .. Len(g[k]) : x = <<k, g[k][i]>>
      BY <1>2 DEF PairsIn
    <2>2. \A k \in Keys : \A v : In(g[k], v) <=> <<k, v>> \in E
      BY <1>1, <1>2
    <2>3. ASSUME x \in PairsIn(g) PROVE x \in E
      <3>1. PICK k \in Keys : \E i \in 1 .. Len(g[k]) : x = <<k, g[k][i]>>
        BY <2>1, <2>3
      <3>2. PICK i \in 1 .. Len(g[k]) : x = <<k, g[k][i]>>
        BY <3>1
      <3>3. In(g[k], g[k][i])
        BY DEF In
      <3>4. QED
        BY <2>2, <3>2, <3>3
    <2>4. ASSUME x \in E PROVE x \in PairsIn(g)
      <3>1. PICK k \in Keys, v \in Nat : x = <<k, v>>
        BY <1>1, <2>4
      <3>2. In(g[k], v)
        BY <2>2, <2>4, <3>1
      <3>3. PICK i \in 1 .. Len(g[k]) : g[k][i] = v
        BY <3>2 DEF In
      <3>4. QED
        BY <2>1, <3>1, <3>3
    <2>5. QED
      BY <2>3, <2>4
  <1>4. QED
    BY <1>3 DEF g

(* Taken apart and built anew, a tree holds what it held.                  *)
LEMMA RebuiltHolds ==
  ASSUME NEW t, NEW E, Holding(t, E)
  PROVE  /\ Holding(FromSortedIter(IterPairs(t)), E)
         /\ Holding(FromIter(IterPairs(t)), E)
         /\ Holding(FromIter(IntoIterPairs(t)), E)
         /\ Len(IterPairs(t)) = Cardinality(E) /\ IsFiniteSet(E)
  <1>1. t \in Good /\ \A k \in Int : Distinct(Get(t, k))
    BY DEF Holding
  <1> DEFINE there == IterPairs(t)
             back == IntoIterPairs(t)
  <1>2. HasPairs(t, there) /\ HasPairs(t, back)
    BY <1>1, IterPairsFacts
  <1> HIDE DEF there, back
  <1>3. Listing(there, E) /\ Rising(there) /\ Listing(back, E)
    BY <1>2, PairsList
  <1>4. FromSortedIter(there) = FromIter(there)
    BY <1>3, FromSortedIterSame
  <1>5. Holding(FromIter(there), E) /\ Holding(FromIter(back), E)
    BY <1>3, FromIterHolds
  <1>6. IsFiniteSet(E) /\ Len(there) = Cardinality(E)
    BY <1>3, ListingCounts
  <1>7. QED
    BY <1>4, <1>5, <1>6 DEF there, back

(* What becomes of the invariant when the tree holds other pairs.          *)
LEMMA TreeInvNext ==
  ASSUME NEW E, Holding(itms', E), got' = Found(itms'),
         E \subseteq Keys \X (1 .. len'), len' = Cardinality(E)
  PROVE  TreeInv' /\ Entries' = E
  <1>1. PairsIn(Found(itms')) = E
    BY PairsFound
  <1>2. Entries' = PairsIn(got')
    BY DEF Entries, PairsIn
  <1>3. QED
    BY <1>1, <1>2 DEF TreeInv

LEMMA TreeInvInit == Init => TreeInv /\ Entries = {} /\ len = 0
  <1>1. SUFFICES ASSUME Init PROVE TreeInv /\ Entries = {} /\ len = 0
    OBVIOUS
  <1>2. itms = EmptyTree /\ len = 0 /\ got = Found(EmptyTree)
    BY <1>1 DEF Init
  <1>3. Holding(EmptyTree, {})
    BY EmptyHolds
  <1>4. PairsIn(Found(EmptyTree)) = {}
    BY <1>3, PairsFound
  <1>5. Entries = {}
    BY <1>2, <1>4 DEF Entries, PairsIn
  <1>6. Cardinality({}) = 0
    BY FS_EmptySet
  <1>7. QED
    BY <1>2, <1>3, <1>5, <1>6 DEF TreeInv

LEMMA TreeInvFacts ==
  ASSUME TreeInv
  PROVE  /\ Holding(itms, Entries) /\ got = Found(itms) /\ IsFiniteSet(Entries)
         /\ len \in Nat /\ len = Cardinality(Entries) /\ Len(IterPairs(itms)) = len
         /\ Entries \subseteq Keys \X (1 .. len)
  <1>1. Holding(itms, Entries)
    BY DEF TreeInv
  <1>2. Len(IterPairs(itms)) = Cardinality(Entries) /\ IsFiniteSet(Entries)
    BY <1>1, RebuiltHolds
  <1>3. Cardinality(Entries) \in Nat
    BY <1>2, FS_CardinalityType
  <1>4. QED
    BY <1>1, <1>2, <1>3 DEF TreeInv

LEMMA TreePush ==
  ASSUME TreeInv, NEW key \in Keys, Push(key)
  PROVE  TreeInv' /\ Entries' = Entries \cup {<<key, len + 1>>} /\ len' = len + 1
  <1> DEFINE E == Entries
             v == len + 1
             F == E \cup {<<key, v>>}
  <1>1. /\ Holding(itms, E) /\ IsFiniteSet(E) /\ len \in Nat /\ len = Cardinality(E)
        /\ E \subseteq Keys \X (1 .. len)
    BY TreeInvFacts
  <1>2. len' = v /\ itms' = PushInto(itms, key, v) /\ got' = Found(itms')
    BY DEF Push
  <1>3. v \in Nat /\ <<key, v>> \notin E
    BY <1>1
  <1> HIDE DEF E
  <1>4. Holding(itms', F)
    <2> HIDE DEF v
    <2>1. QED
      BY <1>1, <1>2, <1>3, PushHolds
  <1>5. Cardinality(F) = Cardinality(E) + 1
    <2> HIDE DEF v
    <2>1. QED
      BY <1>1, <1>3, FS_AddElement
  <1>6. F \subseteq Keys \X (1 .. v)
    BY <1>1
  <1> HIDE DEF F
  <1>7. TreeInv' /\ Entries' = F
    BY <1>1, <1>2, <1>4, <1>5, <1>6, TreeInvNext
  <1>8. QED
    BY <1>2, <1>7 DEF F, E

LEMMA TreeRebuild ==
  ASSUME TreeInv, Rebuild
  PROVE  TreeInv' /\ Entries' = Entries /\ len' = len
  <1> DEFINE E == Entries
  <1>1. /\ Holding(itms, E) /\ len = Cardinality(E) /\ Len(IterPairs(itms)) = len
        /\ E \subseteq Keys \X (1 .. len)
    BY TreeInvFacts
  <1> HIDE DEF E
  <1>2. /\ itms' \in {FromSortedIter(IterPairs(itms)), FromIter(IterPairs(itms)),
                      FromIter(IntoIterPairs(itms))}
        /\ len' = Len(IterPairs(itms)) /\ got' = Found(itms')
    BY DEF Rebuild
  <1>3. Holding(itms', E)
    BY <1>1, <1>2, RebuiltHolds
  <1>4. TreeInv' /\ Entries' = E
    BY <1>1, <1>2, <1>3, TreeInvNext
  <1>5. QED
    BY <1>1, <1>2, <1>4 DEF E

LEMMA TreeSame ==
  ASSUME TreeInv, UNCHANGED treeVars
  PROVE  TreeInv' /\ Entries' = Entries /\ len' = len
  <1>1. itms' = itms /\ len' = len /\ got' = got
    BY DEF treeVars
  <1>2. Entries' = Entries
    BY <1>1 DEF Entries
  <1>3. QED
    BY <1>1, <1>2 DEF TreeInv

(* What a step does to the pairs: one is added under a key, or none.       *)
LEMMA TreeStep ==
  ASSUME TreeInv, [Next]_vars
  PROVE  /\ TreeInv'
         /\ \/ \E k \in Keys : Entries' = Entries \cup {<<k, len + 1>>} /\ len' = len + 1
            \/ Entries' = Entries /\ len' = len
  <1>1. ASSUME NEW key \in Keys, Push(key)
        PROVE  TreeInv' /\ \E k \in Keys : Entries' = Entries \cup {<<k, len + 1>>} /\ len' = len + 1
    BY <1>1, TreePush
  <1>2. CASE Rebuild
    BY <1>2, TreeRebuild
  <1>3. CASE UNCHANGED treeVars
    BY <1>3, TreeSame
  <1>4. BeginIteration \/ StatelessNext \/ UNCHANGED vars => UNCHANGED treeVars
    BY DEF BeginIteration, StatelessNext, vars
  <1>5. QED
    BY <1>1, <1>2, <1>3, <1>4 DEF Next

(* The tree keeps its shape, and what was pushed is in it, each value once. *)
THEOREM TreeCorrect == Spec => []TreeInv
  <1>1. Init => TreeInv
    BY TreeInvInit
  <1>2. TreeInv /\ [Next]_vars => TreeInv'
    BY TreeStep
  <1>3. QED
    BY <1>1, <1>2, PTL DEF Spec

(* The ranges the searches rely on are those of the children, and len is   *)
(* the number of pairs that an iterator yields.                            *)
THEOREM RangesCorrect == Spec => []RangesOrdered
  <1>1. TreeInv => RangesOrdered
    <2>1. SUFFICES ASSUME TreeInv PROVE RangesOrdered
      OBVIOUS
    <2>2. itms \in Good /\ Len(IterPairs(itms)) = len
      BY <2>1, TreeInvFacts DEF Holding
    <2>3. ASSUME NEW l \in DOMAIN itms PROVE ListOrdered(itms, itms[l])
      <3> DEFINE places == itms[l]
      <3>1. l \in 1 .. Len(itms) /\ itms \in Trees /\ Fits(itms, 0)
        BY <2>2, GoodFacts, TreeFacts
      <3>2. /\ places \in Seq(Place) /\ Sorted(places) /\ Len(places) \in Nat
            /\ DOMAIN places = 1 .. Len(places)
        BY <2>2, <3>1, GoodFacts, TreeFacts
      <3>3. \A i \in 1 .. Len(places) : PlaceFits(itms, l, places[i], 0)
        BY <3>1, PlaceHasFit
      <3> HIDE DEF places
      <3>4. \A i \in 1 .. Len(places) - 1 : places[i].max < places[i + 1].min
        <4>1. \A i \in 1 .. Len(places) - 1 : i \in 1 .. Len(places) /\ i + 1 \in 1 .. Len(places) /\ i < i + 1
          BY <3>2
        <4>2. QED
          BY <3>2, <4>1 DEF Sorted
      <3>5. ASSUME NEW i \in 1 .. Len(places)
            PROVE  LET place == places[i]
                       child == itms[place.list]
                   IN  IF IsLeaf(place)
                       THEN place.leaf # <<>> /\ place.min = place.max
                       ELSE /\ child # <<>>
                            /\ place.min = child[1].min /\ place.max = Last(child).max
        <4>1. PlaceFits(itms, l, places[i], 0)
          BY <3>3
        <4>2. QED
          BY <4>1 DEF PlaceFits, IsLeaf
      <3>6. ListOrdered(itms, places)
        BY <3>2, <3>4, <3>5 DEF ListOrdered
      <3>7. QED
        BY <3>6 DEF places
    <2>4. QED
      BY <2>2, <2>3 DEF RangesOrdered
  <1>2. QED
    BY <1>1, TreeCorrect, PTL

(* The tree implements the collection of values under keys.                *)
THEOREM MultimapImplemented == Spec => MultimapSpec
  <1>1. Init => Contents!Init
    BY TreeInvInit DEF Contents!Init
  <1>2. TreeInv /\ [Next]_vars => [Contents!Push]_<<Entries, len>>
    <2>1. SUFFICES ASSUME TreeInv, [Next]_vars PROVE [Contents!Push]_<<Entries, len>>
      OBVIOUS
    <2>2. \/ \E k \in Keys : Entries' = Entries \cup {<<k, len + 1>>} /\ len' = len + 1
          \/ Entries' = Entries /\ len' = len
      BY <2>1, TreeStep
    <2>3. QED
      BY <2>2 DEF Contents!Push
  <1>3. QED
    BY <1>1, <1>2, TreeCorrect, PTL DEF Spec, MultimapSpec, Contents!Spec

-----------------------------------------------------------------------------
(* The levels of a walk: at the index n of the list l, where the keys C    *)
(* have come, those in the places before it are among them and those in    *)
(* the places after it above them all.                                     *)

PassedAt(t, l, n, C) ==
    \A i \in 1 .. Len(t[l]) : i < n =>
        \A k \in Int : InPlace(t[l], i, k) /\ Get(t, k) # <<>> => k \in C

AheadAt(t, l, n, C) ==
    \A i \in 1 .. Len(t[l]) : i > n => \A c \in C : c < t[l][i].min

Level(t, l, n, C) == PassedAt(t, l, n, C) /\ AheadAt(t, l, n, C)

\* The place at the index is still to come.
Here(t, l, n, C) == n \in 1 .. Len(t[l]) => \A c \in C : c < t[l][n].min

LEMMA IntoLevel ==
  ASSUME NEW t \in Good, NEW l \in 1 .. Len(t), NEW n \in 1 .. Len(t[l]), t[l][n].list # 0,
         NEW C \in SUBSET Int, Here(t, l, n, C)
  PROVE  /\ Level(t, t[l][n].list, 1, C) /\ Here(t, t[l][n].list, 1, C)
         /\ t[l][n].list \in 1 .. Len(t) /\ t[t[l][n].list] # <<>>
         /\ t[l][n].min = t[t[l][n].list][1].min /\ t[l][n].max = Last(t[t[l][n].list]).max
  <1> DEFINE m == t[l][n].list
  <1>1. m \in 1 .. Len(t)
    BY GoodFacts
  <1>2. t[m] # <<>> /\ t[l][n].min = t[m][1].min /\ t[l][n].max = Last(t[m]).max
    <2>1. PlaceFits(t, l, t[l][n], 0)
      BY GoodFacts, PlaceHasFit
    <2>2. QED
      BY <2>1 DEF PlaceFits
  <1>3. \A c \in C : c < t[m][1].min
    BY <1>2 DEF Here
  <1> HIDE DEF m
  <1>4. t[m] \in Seq(Place) /\ Sorted(t[m])
    BY <1>1, GoodFacts
  <1>5. ASSUME NEW i \in 1 .. Len(t[m]) PROVE ~ (i < 1) /\ \A c \in C : c < t[m][i].min
    <2>1. t[m][1].min <= t[m][i].min /\ 1 \in 1 .. Len(t[m])
      BY <1>4, WithinList
    <2>2. t[m][1].min \in Int /\ t[m][i].min \in Int
      BY <1>4, <2>1, PlaceFacts
    <2>3. QED
      BY <1>3, <2>1, <2>2
  <1>6. Level(t, m, 1, C) /\ Here(t, m, 1, C)
    BY <1>5 DEF Level, PassedAt, AheadAt, Here
  <1>7. QED
    BY <1>1, <1>2, <1>6 DEF m

LEMMA OutOfLevel ==
  ASSUME NEW t \in Good, NEW l \in 1 .. Len(t), NEW n \in 1 .. Len(t[l]), t[l][n].list # 0,
         NEW C \in SUBSET Int, Level(t, l, n, C),
         NEW a \in Nat, a > Len(t[t[l][n].list]), PassedAt(t, t[l][n].list, a, C)
  PROVE  Level(t, l, n + 1, C) /\ Here(t, l, n + 1, C)
  <1> DEFINE m == t[l][n].list
  <1>1. m \in 1 .. Len(t) /\ Len(t[l]) \in Nat /\ Len(t[m]) \in Nat
    BY GoodFacts, TreeFacts
  <1>2. PlaceFits(t, l, t[l][n], 0)
    BY GoodFacts, PlaceHasFit
  <1>3. t[m] # <<>> /\ t[l][n].min = t[m][1].min /\ t[l][n].max = Last(t[m]).max
    BY <1>2 DEF PlaceFits
  <1> HIDE DEF m
  <1>4. ASSUME NEW k \in Int, InPlace(t[l], n, k), Get(t, k) # <<>> PROVE k \in C
    <2>1. InRange(t, m, k)
      BY <1>3, <1>4 DEF InRange, InPlace
    <2>2. Get(t, k) = GetFrom(t, k)[m]
      BY <1>1, <2>1, GetReaches DEF Get
    <2>3. PICK i \in 1 .. Len(t[m]) : t[m][i].min <= k /\ k <= t[m][i].max
      BY <1>1, <1>4, <2>2, GetNear
    <2>4. i < a
      BY <1>1, <2>3 DEF m
    <2>5. QED
      BY <1>4, <2>3, <2>4 DEF PassedAt, InPlace, m
  <1>5. PassedAt(t, l, n + 1, C)
    <2>1. \A i \in 1 .. Len(t[l]) : i < n + 1 => i < n \/ i = n
      BY <1>1
    <2>2. QED
      BY <1>4, <2>1 DEF PassedAt, Level
  <1>6. AheadAt(t, l, n + 1, C) /\ Here(t, l, n + 1, C)
    <2>1. n + 1 > n /\ \A i \in 1 .. Len(t[l]) : i > n + 1 => i > n
      BY <1>1
    <2>2. QED
      BY <2>1 DEF AheadAt, Level, Here
  <1>7. QED
    BY <1>5, <1>6 DEF Level

LEMMA LeafPassed ==
  ASSUME NEW t \in Good, NEW l \in 1 .. Len(t), NEW n \in 1 .. Len(t[l]), t[l][n].list = 0,
         NEW C \in SUBSET Int, Level(t, l, n, C), Here(t, l, n, C)
  PROVE  /\ Level(t, l, n + 1, C \cup {t[l][n].min}) /\ Here(t, l, n + 1, C \cup {t[l][n].min})
         /\ t[l][n].min \in Keys /\ t[l][n].min = t[l][n].max
         /\ t[l][n].leaf = Get(t, t[l][n].min) /\ t[l][n].leaf # <<>>
         /\ \A c \in C : c < t[l][n].min
  <1> DEFINE x == t[l][n].min
             D == C \cup {x}
  <1>1. /\ t[l] \in Seq(Place) /\ Sorted(t[l]) /\ Len(t[l]) \in Nat
        /\ \A i \in 1 .. Len(t[l]) : t[l][i].min \in Int /\ t[l][i].max \in Int
    BY GoodFacts, TreeFacts
  <1>2. PlaceFits(t, l, t[l][n], 0)
    BY GoodFacts, PlaceHasFit
  <1>3. x \in Keys /\ x = t[l][n].max /\ t[l][n].leaf # <<>> /\ x \in Int
    BY <1>1, <1>2 DEF PlaceFits
  <1>4. t[l][n].leaf = Get(t, x)
    <2>1. LeafOf(t, x, t[l][n].leaf)
      BY DEF LeafOf
    <2>2. QED
      BY <1>3, <2>1, GetLeaves
  <1>5. \A c \in C : c < x
    BY DEF Here
  <1>6. \A i \in 1 .. Len(t[l]) : i > n => x < t[l][i].min
    BY <1>1, <1>3 DEF Sorted
  <1>7. \A k \in Int : InPlace(t[l], n, k) => k = x
    BY <1>1, <1>3 DEF InPlace
  <1> HIDE DEF x
  <1>8. PassedAt(t, l, n + 1, D)
    <2>1. \A i \in 1 .. Len(t[l]) : i < n + 1 => i < n \/ i = n
      BY <1>1
    <2>2. QED
      BY <1>7, <2>1 DEF PassedAt, Level
  <1>9. \A i \in 1 .. Len(t[l]) : i > n => \A c \in D : c < t[l][i].min
    BY <1>6 DEF AheadAt, Level
  <1>10. AheadAt(t, l, n + 1, D) /\ Here(t, l, n + 1, D)
    <2>1. n + 1 > n /\ \A i \in 1 .. Len(t[l]) : i > n + 1 => i > n
      BY <1>1
    <2>2. QED
      BY <1>9, <2>1 DEF AheadAt, Here
  <1>11. QED
    BY <1>3, <1>4, <1>5, <1>8, <1>10 DEF Level, x

LEMMA OuterLevel ==
  ASSUME NEW t \in Good, NEW l \in 1 .. Len(t), NEW n \in 1 .. Len(t[l]),
         NEW C \in SUBSET Int, Level(t, l, n, C), NEW x \in Int, x <= t[l][n].max
  PROVE  Level(t, l, n, C \cup {x})
  <1>1. /\ t[l] \in Seq(Place) /\ Sorted(t[l]) /\ Len(t[l]) \in Nat
        /\ \A i \in 1 .. Len(t[l]) : t[l][i].min \in Int /\ t[l][i].max \in Int
    BY GoodFacts, TreeFacts
  <1>2. \A i \in 1 .. Len(t[l]) : i > n => x < t[l][i].min
    <2>1. \A i \in 1 .. Len(t[l]) : i > n => t[l][n].max < t[l][i].min
      BY <1>1 DEF Sorted
    <2>2. QED
      BY <1>1, <2>1
  <1>3. QED
    BY <1>2 DEF Level, PassedAt, AheadAt

-----------------------------------------------------------------------------
(* The path of a walk leads from the root to a list and an index in it.    *)

Leads(t, p, on) ==
    /\ p \in Seq(Nat) /\ Len(p) # 0
    /\ on \in [1 .. Len(p) -> 1 .. Len(t)] /\ on[1] = 1
    /\ \A j \in 1 .. Len(p) : 1 <= p[j]
    /\ \A j \in 1 .. Len(p) - 1 : /\ p[j] <= Len(t[on[j]])
                                  /\ t[on[j]][p[j]].list = on[j + 1]
    \* What lies in the list of a level lies in the place of those above it.
    /\ \A i, j \in 1 .. Len(p) : i < j =>
          t[on[j]] # <<>> /\ Last(t[on[j]]).max <= t[on[i]][p[i]].max

WalkAt(t, p, on, C) ==
    /\ Leads(t, p, on)
    /\ \A j \in 1 .. Len(p) : Level(t, on[j], p[j], C)
    /\ Here(t, on[Len(p)], p[Len(p)], C)

(* A key with values has come, or is above all that have.                  *)
LEMMA WalkOrder ==
  ASSUME NEW t \in Good, NEW p, NEW on, NEW C \in SUBSET Int, WalkAt(t, p, on, C),
         NEW k \in Int, Get(t, k) # <<>>, k \notin C, NEW c \in C
  PROVE  c < k
  <1> DEFINE m == Len(p)
             T == {j \in 0 .. m - 1 : GetFrom(t, k)[on[j + 1]] # <<>>}
  <1>1. /\ m \in Nat /\ m # 0 /\ on[1] = 1
        /\ \A j \in 1 .. m : on[j] \in 1 .. Len(t) /\ p[j] \in Nat /\ Level(t, on[j], p[j], C)
        /\ \A j \in 1 .. m - 1 : /\ p[j] \in 1 .. Len(t[on[j]])
                                 /\ t[on[j]][p[j]].list = on[j + 1] /\ on[j + 1] \in 1 .. Len(t)
    <2>1. /\ m \in Nat /\ m # 0 /\ on[1] = 1
          /\ \A j \in 1 .. m : on[j] \in 1 .. Len(t) /\ p[j] \in Nat
          /\ \A j \in 1 .. m : Level(t, on[j], p[j], C) /\ 1 <= p[j]
          /\ \A j \in 1 .. m - 1 : p[j] <= Len(t[on[j]]) /\ t[on[j]][p[j]].list = on[j + 1]
      BY LenProperties, ElementOfSeq DEF WalkAt, Leads
    <2>2. \A l \in 1 .. Len(t) : Len(t[l]) \in Nat
      BY GoodFacts, TreeFacts
    <2>3. \A j \in 1 .. m - 1 : j \in 1 .. m /\ j + 1 \in 1 .. m
      BY <2>1
    <2>4. \A j \in 1 .. m - 1 : p[j] \in 1 .. Len(t[on[j]])
      BY <2>1, <2>2, <2>3
    <2>5. QED
      BY <2>1, <2>3, <2>4
  <1>2. Here(t, on[m], p[m], C)
    BY DEF WalkAt
  <1> HIDE DEF m
  <1>3. SUFFICES ASSUME ~ (c < k) PROVE FALSE
    OBVIOUS
  <1>4. ASSUME NEW j \in 1 .. m, GetFrom(t, k)[on[j]] # <<>>
        PROVE  p[j] \in 1 .. Len(t[on[j]]) /\ InPlace(t[on[j]], p[j], k)
    <2> DEFINE l == on[j]
    <2>1. l \in 1 .. Len(t) /\ Level(t, l, p[j], C) /\ p[j] \in Nat
      BY <1>1
    <2> HIDE DEF l
    <2>2. PICK i \in 1 .. Len(t[l]) : t[l][i].min <= k /\ k <= t[l][i].max
      BY <1>4, <2>1, GetNear DEF l
    <2>3. ~ (i < p[j])
      BY <2>1, <2>2 DEF Level, PassedAt, InPlace
    <2>4. ~ (i > p[j])
      <3>1. i > p[j] => c < t[l][i].min
        BY <2>1 DEF Level, AheadAt
      <3>2. t[l][i].min \in Int
        BY <2>1, GoodFacts, TreeFacts
      <3>3. QED
        BY <1>3, <2>2, <3>1, <3>2
    <2>5. i = p[j]
      BY <2>1, <2>3, <2>4
    <2>6. QED
      BY <2>2, <2>5 DEF InPlace, l
  <1>5. 0 \in T
    BY <1>1 DEF Get
  <1>6. ASSUME NEW j \in 0 .. m - 2, j \in T PROVE j + 1 \in T
    <2> DEFINE a == j + 1
               l == on[a]
               i == p[a]
    <2>1. a \in 1 .. m - 1 /\ a \in 1 .. m /\ a \in 0 .. m - 1
      BY <1>1
    <2> HIDE DEF a
    <2>2. GetFrom(t, k)[l] # <<>> /\ l \in 1 .. Len(t)
      BY <1>1, <1>6, <2>1 DEF a
    <2>3. i \in 1 .. Len(t[l]) /\ InPlace(t[l], i, k)
      BY <1>4, <2>1, <2>2
    <2>4. t[l][i].list = on[a + 1] /\ on[a + 1] \in 1 .. Len(t)
      BY <1>1, <2>1
    <2>5. GetFrom(t, k)[l] = GetFrom(t, k)[t[l][i].list]
      <3> HIDE DEF l, i
      <3>1. t[l][i].list # 0
        BY <2>4
      <3>2. QED
        BY <2>2, <2>3, <3>1, GetSteps DEF InPlace
    <2>6. GetFrom(t, k)[on[a + 1]] # <<>>
      BY <2>2, <2>4, <2>5
    <2>7. QED
      BY <2>1, <2>6 DEF a
  <1>7. m - 1 \in T
    <2>1. \A j \in 0 .. (m - 1) - 1 : j \in T => j + 1 \in T
      <3>1. (m - 1) - 1 = m - 2
        BY <1>1
      <3>2. QED
        BY <1>6, <3>1
    <2>2. m - 1 \in Nat
      BY <1>1
    <2> HIDE DEF T
    <2>3. \A j \in 0 .. m - 1 : j \in T
      BY <1>5, <2>1, <2>2, UpTo
    <2>4. QED
      BY <2>2, <2>3
  <1>8. GetFrom(t, k)[on[m]] # <<>> /\ m \in 1 .. m
    <2>1. (m - 1) + 1 = m
      BY <1>1
    <2>2. QED
      BY <1>1, <1>7, <2>1
  <1>9. p[m] \in 1 .. Len(t[on[m]]) /\ InPlace(t[on[m]], p[m], k)
    BY <1>4, <1>8
  <1>10. c < t[on[m]][p[m]].min /\ t[on[m]][p[m]].min <= k
    BY <1>2, <1>9 DEF Here, InPlace
  <1>11. t[on[m]][p[m]].min \in Int
    BY <1>1, <1>8, <1>9, GoodFacts, TreeFacts
  <1>12. QED
    BY <1>3, <1>10, <1>11

(* The lists that stateless_next finds on the path are those it leads to.  *)
LEMMA ListsFound ==
  ASSUME NEW t \in Good, NEW p, NEW on, Leads(t, p, on)
  PROVE  ListsOn(t, p) = on
  <1> DEFINE m == Len(p)
             Body(j, h) == IF j = 1 THEN 1
                           ELSE LET l == h[j - 1]
                                IN  IF l = 0 THEN 0
                                    ELSE IF p[j - 1] > Len(t[l]) THEN 0
                                    ELSE t[l][p[j - 1]].list
             g == ListsOn(t, p)
  <1>1. /\ m \in Nat /\ DOMAIN p = 1 .. m /\ on[1] = 1 /\ on \in [1 .. m -> 1 .. Len(t)]
        /\ \A j \in 1 .. m : p[j] \in Nat
        /\ \A j \in 1 .. m - 1 : p[j] <= Len(t[on[j]]) /\ t[on[j]][p[j]].list = on[j + 1]
    BY LenProperties, ElementOfSeq DEF Leads
  <1>2. \A l \in 1 .. Len(t) : Len(t[l]) \in Nat
    BY GoodFacts, TreeFacts
  <1> HIDE DEF m
  <1>3. ASSUME NEW j \in 1 .. m, NEW h, j # 1 => h[j - 1] = on[j - 1] PROVE Body(j, h) = on[j]
    <2>1. CASE j = 1
      BY <1>1, <2>1
    <2>2. CASE j # 1
      <3> DEFINE i == j - 1
      <3>1. i \in 1 .. m - 1 /\ i \in 1 .. m /\ i + 1 = j
        BY <1>1, <2>2
      <3>2. h[j - 1] = on[i]
        BY <1>3, <2>2
      <3>3. Body(j, h) = IF on[i] = 0 THEN 0 ELSE IF p[i] > Len(t[on[i]]) THEN 0
                         ELSE t[on[i]][p[i]].list
        BY <2>2, <3>2
      <3> HIDE DEF i, Body
      <3>4. on[i] \in 1 .. Len(t) /\ p[i] <= Len(t[on[i]]) /\ p[i] \in Nat /\ t[on[i]][p[i]].list = on[j]
        BY <1>1, <3>1
      <3>5. on[i] # 0 /\ ~ (p[i] > Len(t[on[i]]))
        BY <1>2, <3>4
      <3>6. QED
        BY <3>3, <3>4, <3>5
    <2>3. QED
      BY <2>1, <2>2
  <1>4. on = [j \in DOMAIN p |-> Body(j, on)]
    <2>1. \A j \in 1 .. m : Body(j, on) = on[j]
      BY <1>3
    <2> HIDE DEF Body
    <2>2. QED
      BY <1>1, <2>1
  <1>5. g = [j \in DOMAIN p |-> Body(j, g)]
    BY <1>4 DEF ListsOn
  <1> HIDE DEF g
  <1> DEFINE T == {j \in 0 .. m : j # 0 => g[j] = on[j]}
  <1>6. 0 \in T
    BY <1>1
  <1>7. ASSUME NEW j \in 0 .. m - 1, j \in T PROVE j + 1 \in T
    <2> DEFINE a == j + 1
    <2>1. a \in 1 .. m /\ a - 1 = j /\ a \in 0 .. m /\ (a # 1 => j # 0)
      BY <1>1
    <2> HIDE DEF a
    <2>2. a # 1 => g[a - 1] = on[a - 1]
      BY <1>7, <2>1
    <2>3. Body(a, g) = on[a]
      BY <1>3, <2>1, <2>2
    <2>4. g[a] = Body(a, g)
      <3> HIDE DEF Body
      <3>1. QED
        BY <1>1, <1>5, <2>1
    <2>5. a \in T
      <3> HIDE DEF Body
      <3>1. QED
        BY <2>1, <2>3, <2>4
    <2>6. QED
      BY <2>5 DEF a
  <1>8. \A j \in 0 .. m - 1 : j \in T => j + 1 \in T
    BY <1>7
  <1> HIDE DEF T
  <1>9. \A j \in 0 .. m : j \in T
    BY <1>1, <1>6, <1>8, UpTo
  <1>10. \A j \in 1 .. m : g[j] = on[j]
    <2>1. \A j \in 1 .. m : j \in 0 .. m /\ j # 0
      BY <1>1
    <2>2. QED
      BY <1>9, <2>1 DEF T
  <1>11. g = on
    <2> HIDE DEF Body
    <2>1. g = [j \in 1 .. m |-> g[j]]
      BY <1>1, <1>5
    <2>2. QED
      BY <1>1, <1>10, <2>1
  <1>12. QED
    BY <1>11 DEF g

TurnsTo(t, p, q, s) == Turn(t, p).path = q /\ Turn(t, p).item = s

LEMMA TurnFacts ==
  ASSUME NEW t \in Good, NEW p, NEW on, Leads(t, p, on)
  PROVE  /\ p[Len(p)] > Len(t[on[Len(p)]]) =>
              TurnsTo(t, p, IF Len(p) = 1 THEN <<>> ELSE NextInParent(p), <<>>)
         /\ ~ (p[Len(p)] > Len(t[on[Len(p)]])) /\ t[on[Len(p)]][p[Len(p)]].list = 0 =>
              TurnsTo(t, p, [p EXCEPT ![Len(p)] = @ + 1],
                      << <<t[on[Len(p)]][p[Len(p)]].min, t[on[Len(p)]][p[Len(p)]].leaf>> >>)
         /\ ~ (p[Len(p)] > Len(t[on[Len(p)]])) /\ t[on[Len(p)]][p[Len(p)]].list # 0 =>
              TurnsTo(t, p, Append(p, 1), <<>>)
  <1> DEFINE m == Len(p)
             K == {k \in DOMAIN p : ListsOn(t, p)[k] # 0}
  <1>1. m \in Nat /\ m # 0 /\ DOMAIN p = 1 .. m /\ on \in [1 .. m -> 1 .. Len(t)]
    BY LenProperties DEF Leads
  <1>2. ListsOn(t, p) = on
    BY ListsFound
  <1> HIDE DEF m
  <1>3. K = 1 .. m
    BY <1>1, <1>2
  <1>4. Max(K) = m
    <2> HIDE DEF K
    <2>1. m \in K /\ \A x \in K : (\A y \in K : x >= y) <=> x = m
      BY <1>1, <1>3
    <2>2. QED
      BY <2>1 DEF Max
  <1> HIDE DEF K
  <1> DEFINE places == t[on[m]]
             place == places[p[m]]
  <1>5. Turn(t, p) = IF p[m] > Len(places)
                     THEN [path |-> IF m = 1 THEN <<>> ELSE NextInParent(p), item |-> <<>>]
                     ELSE IF place.list = 0
                     THEN [path |-> [p EXCEPT ![m] = @ + 1], item |-> << <<place.min, place.leaf>> >>]
                     ELSE [path |-> Append(p, 1), item |-> <<>>]
    BY <1>2, <1>4 DEF Turn, IsLeaf, K, m
  <1>6. QED
    BY <1>5 DEF m, TurnsTo

LEMMA LeadsFacts ==
  ASSUME NEW t \in Good, NEW p, NEW on, Leads(t, p, on)
  PROVE  /\ Len(p) \in Nat /\ Len(p) # 0 /\ p \in Seq(Nat) /\ on[1] = 1
         /\ \A j \in 1 .. Len(p) : /\ on[j] \in 1 .. Len(t) /\ p[j] \in Nat /\ 1 <= p[j]
                                   /\ Len(t[on[j]]) \in Nat
         /\ \A j \in 1 .. Len(p) - 1 : /\ p[j] \in 1 .. Len(t[on[j]]) /\ on[j + 1] # 0
                                       /\ t[on[j]][p[j]].list = on[j + 1]
         /\ \A i, j \in 1 .. Len(p) : i < j =>
               t[on[j]] # <<>> /\ Last(t[on[j]]).max <= t[on[i]][p[i]].max
         /\ \A j \in 1 .. Len(p) : p[j] \in 1 .. Len(t[on[j]]) =>
               /\ t[on[j]][p[j]].max \in Int /\ Last(t[on[j]]).max \in Int
               /\ t[on[j]][p[j]].max <= Last(t[on[j]]).max
  <1> DEFINE m == Len(p)
  <1>1. /\ m \in Nat /\ m # 0 /\ p \in Seq(Nat) /\ on[1] = 1
        /\ \A j \in 1 .. m : on[j] \in 1 .. Len(t) /\ p[j] \in Nat
        /\ \A j \in 1 .. m : 1 <= p[j]
        /\ \A j \in 1 .. m - 1 : p[j] <= Len(t[on[j]]) /\ t[on[j]][p[j]].list = on[j + 1]
    BY LenProperties, ElementOfSeq DEF Leads
  <1>2. \A l \in 1 .. Len(t) : Len(t[l]) \in Nat /\ t[l] \in Seq(Place) /\ Sorted(t[l])
    BY GoodFacts, TreeFacts
  <1>3. \A j \in 1 .. m - 1 : j \in 1 .. m /\ j + 1 \in 1 .. m
    BY <1>1
  <1>4. \A j \in 1 .. m : Len(t[on[j]]) \in Nat
    BY <1>1, <1>2
  <1>5. \A j \in 1 .. m - 1 : p[j] \in 1 .. Len(t[on[j]]) /\ on[j + 1] # 0
    BY <1>1, <1>3, <1>4
  <1>6. ASSUME NEW j \in 1 .. m, p[j] \in 1 .. Len(t[on[j]])
        PROVE  /\ t[on[j]][p[j]].max \in Int /\ Last(t[on[j]]).max \in Int
               /\ t[on[j]][p[j]].max <= Last(t[on[j]]).max
    <2> DEFINE s == t[on[j]]
               i == p[j]
    <2>1. s \in Seq(Place) /\ Sorted(s) /\ i \in 1 .. Len(s)
      BY <1>1, <1>2, <1>6
    <2> HIDE DEF s, i
    <2>2. s[i].max <= Last(s).max /\ Len(s) \in 1 .. Len(s)
      BY <2>1, WithinList
    <2>3. s[i].max \in Int /\ Last(s).max \in Int
      BY <2>1, <2>2, PlaceFacts DEF Last
    <2>4. QED
      BY <2>2, <2>3 DEF s, i
  <1>7. \A i, j \in 1 .. m : i < j =>
          t[on[j]] # <<>> /\ Last(t[on[j]]).max <= t[on[i]][p[i]].max
    BY DEF Leads
  <1>8. QED
    BY <1>1, <1>4, <1>5, <1>6, <1>7

(* The three turns of a walk: into a list, past a leaf, out of a list.     *)
LEMMA TurnInto ==
  ASSUME NEW t \in Good, NEW p, NEW on, NEW C \in SUBSET Int, WalkAt(t, p, on, C),
         p[Len(p)] \in 1 .. Len(t[on[Len(p)]]), t[on[Len(p)]][p[Len(p)]].list # 0
  PROVE  \E o : WalkAt(t, Append(p, 1), o, C)
  <1> DEFINE m == Len(p)
             l == on[m]
             n == p[m]
             d == t[l][n].list
             q == Append(p, 1)
             o == [j \in 1 .. m + 1 |-> IF j <= m THEN on[j] ELSE d]
  <1>1. Leads(t, p, on) /\ Here(t, l, n, C) /\ \A j \in 1 .. m : Level(t, on[j], p[j], C)
    BY DEF WalkAt
  <1>2. /\ m \in Nat /\ m # 0 /\ m \in 1 .. m /\ p \in Seq(Nat) /\ on[1] = 1
        /\ \A j \in 1 .. m : on[j] \in 1 .. Len(t) /\ p[j] \in Nat /\ 1 <= p[j]
        /\ \A j \in 1 .. m - 1 : p[j] \in 1 .. Len(t[on[j]]) /\ t[on[j]][p[j]].list = on[j + 1]
        /\ \A i, j \in 1 .. m : i < j =>
             t[on[j]] # <<>> /\ Last(t[on[j]]).max <= t[on[i]][p[i]].max
        /\ \A j \in 1 .. m : p[j] \in 1 .. Len(t[on[j]]) =>
               /\ t[on[j]][p[j]].max \in Int /\ Last(t[on[j]]).max \in Int
               /\ t[on[j]][p[j]].max <= Last(t[on[j]]).max
    BY <1>1, LeadsFacts
  <1>3. /\ q \in Seq(Nat) /\ Len(q) = m + 1 /\ q[m + 1] = 1 /\ \A j \in 1 .. m : q[j] = p[j]
    BY <1>2, AppendProperties
  <1>4. /\ o \in [1 .. m + 1 -> 1 .. Len(t)] /\ o[m + 1] = d /\ \A j \in 1 .. m : o[j] = on[j]
        /\ Level(t, d, 1, C) /\ Here(t, d, 1, C) /\ t[d] # <<>> /\ t[l][n].max = Last(t[d]).max
    <2>1. l \in 1 .. Len(t) /\ n \in 1 .. Len(t[l]) /\ t[l][n].list # 0
      BY <1>2
    <2> HIDE DEF l, n
    <2>2. /\ Level(t, d, 1, C) /\ Here(t, d, 1, C) /\ d \in 1 .. Len(t)
          /\ t[d] # <<>> /\ t[l][n].max = Last(t[d]).max
      BY <1>1, <2>1, IntoLevel
    <2> HIDE DEF d, m
    <2>3. \A j \in 1 .. m + 1 : j <= m => j \in 1 .. m
      BY <1>2
    <2>4. o \in [1 .. m + 1 -> 1 .. Len(t)]
      BY <1>2, <2>2, <2>3
    <2>5. m + 1 \in 1 .. m + 1 /\ ~ (m + 1 <= m) /\ \A j \in 1 .. m : j \in 1 .. m + 1 /\ j <= m
      BY <1>2
    <2>6. QED
      BY <2>2, <2>4, <2>5
  <1>5. \A j : j \in 1 .. m + 1 <=> j \in 1 .. m \/ j = m + 1
    BY <1>2
  <1>6. 1 \in 1 .. m
    BY <1>2
  <1> HIDE DEF q, o
  <1>7. ASSUME NEW j \in 1 .. m
        PROVE  /\ q[j] <= Len(t[o[j]]) /\ t[o[j]][q[j]].list = o[j + 1]
    <2>1. CASE j = m
      <3>1. q[j] = n /\ o[j] = l /\ o[j + 1] = d
        BY <1>3, <1>4, <2>1
      <3>2. n <= Len(t[l]) /\ t[l][n].list = d
        OBVIOUS
      <3> HIDE DEF n, l, d
      <3>3. QED
        BY <3>1, <3>2
    <2>2. CASE j # m
      <3>1. j \in 1 .. m - 1 /\ j + 1 \in 1 .. m
        BY <1>2, <2>2
      <3>2. p[j] <= Len(t[on[j]])
        BY <1>1, <3>1 DEF Leads
      <3>3. QED
        BY <1>2, <1>3, <1>4, <3>1, <3>2
    <2>3. QED
      BY <2>1, <2>2
  <1>8. ASSUME NEW i \in 1 .. m + 1, NEW j \in 1 .. m + 1, i < j
        PROVE  t[o[j]] # <<>> /\ Last(t[o[j]]).max <= t[o[i]][q[i]].max
    <2>1. i \in 1 .. m
      BY <1>2, <1>8
    <2>2. CASE j \in 1 .. m
      BY <1>2, <1>3, <1>4, <1>8, <2>1, <2>2
    <2>3. CASE j = m + 1
      <3>1. CASE i = m
        <4>1. o[j] = d /\ o[i] = l /\ q[i] = n
          BY <1>3, <1>4, <2>1, <2>3, <3>1
        <4>2. t[d] # <<>> /\ Last(t[d]).max = t[l][n].max /\ t[l][n].max \in Int
          BY <1>2, <1>4
        <4> HIDE DEF l, n, d
        <4>3. QED
          BY <4>1, <4>2
      <3>2. CASE i # m
        <4>1. i < m /\ i \in 1 .. m - 1
          BY <1>2, <2>1, <3>2
        <4>2. Last(t[l]).max <= t[on[i]][p[i]].max
          BY <1>2, <2>1, <4>1
        <4>3. /\ t[l][n].max <= Last(t[l]).max /\ t[l][n].max \in Int /\ Last(t[l]).max \in Int
              /\ t[on[i]][p[i]].max \in Int
          BY <1>2, <2>1, <4>1
        <4>4. t[l][n].max <= t[on[i]][p[i]].max
          <5> HIDE DEF l, n
          <5>1. QED
            BY <4>2, <4>3
        <4>5. o[j] = d /\ o[i] = on[i] /\ q[i] = p[i]
          BY <1>3, <1>4, <2>1, <2>3
        <4>6. QED
          BY <1>4, <4>4, <4>5
      <3>3. QED
        BY <3>1, <3>2
    <2>4. QED
      BY <1>5, <2>2, <2>3
  <1>9. Leads(t, q, o)
    <2>1. (m + 1) - 1 = m /\ m + 1 # 0
      BY <1>2
    <2>2. \A j \in 1 .. m + 1 : 1 <= q[j]
      <3>1. \A j \in 1 .. m : 1 <= p[j]
        BY <1>2
      <3>2. QED
        BY <1>3, <1>5, <3>1
    <2>3. o[1] = 1
      BY <1>2, <1>4, <1>6
    <2>4. QED
      BY <1>3, <1>4, <1>7, <1>8, <2>1, <2>2, <2>3 DEF Leads
  <1>10. \A j \in 1 .. m + 1 : Level(t, o[j], q[j], C)
    BY <1>1, <1>3, <1>4, <1>5
  <1>11. WalkAt(t, q, o, C)
    BY <1>3, <1>4, <1>9, <1>10 DEF WalkAt
  <1>12. QED
    BY <1>11 DEF q

LEMMA TurnPast ==
  ASSUME NEW t \in Good, NEW p, NEW on, NEW C \in SUBSET Int, WalkAt(t, p, on, C),
         p[Len(p)] \in 1 .. Len(t[on[Len(p)]]), t[on[Len(p)]][p[Len(p)]].list = 0
  PROVE  WalkAt(t, [p EXCEPT ![Len(p)] = @ + 1], on, C \cup {t[on[Len(p)]][p[Len(p)]].min})
  <1> DEFINE m == Len(p)
             l == on[m]
             n == p[m]
             x == t[l][n].min
             D == C \cup {x}
             q == [p EXCEPT ![m] = @ + 1]
  <1>1. Leads(t, p, on) /\ Here(t, l, n, C) /\ \A j \in 1 .. m : Level(t, on[j], p[j], C)
    BY DEF WalkAt
  <1>2. /\ m \in Nat /\ m # 0 /\ m \in 1 .. m /\ p \in Seq(Nat) /\ on[1] = 1
        /\ \A j \in 1 .. m : on[j] \in 1 .. Len(t) /\ p[j] \in Nat /\ 1 <= p[j]
        /\ \A j \in 1 .. m - 1 : p[j] \in 1 .. Len(t[on[j]]) /\ t[on[j]][p[j]].list = on[j + 1]
        /\ \A i, j \in 1 .. m : i < j =>
             t[on[j]] # <<>> /\ Last(t[on[j]]).max <= t[on[i]][p[i]].max
        /\ \A j \in 1 .. m : p[j] \in 1 .. Len(t[on[j]]) =>
               /\ t[on[j]][p[j]].max \in Int /\ Last(t[on[j]]).max \in Int
               /\ t[on[j]][p[j]].max <= Last(t[on[j]]).max
    BY <1>1, LeadsFacts
  <1>3. q \in Seq(Nat) /\ Len(q) = m /\ \A j \in 1 .. m : q[j] = IF j = m THEN n + 1 ELSE p[j]
    <2>1. n + 1 \in Nat /\ q = [p EXCEPT ![m] = n + 1]
      BY <1>2
    <2> HIDE DEF n, q
    <2>2. QED
      BY <1>2, <2>1, ExceptSeq
  <1>4. /\ Level(t, l, n + 1, D) /\ Here(t, l, n + 1, D) /\ x = t[l][n].max /\ x \in Int
    <2>1. l \in 1 .. Len(t) /\ n \in 1 .. Len(t[l]) /\ t[l][n].list = 0 /\ Level(t, l, n, C)
      BY <1>1, <1>2
    <2> HIDE DEF l, n
    <2>2. /\ Level(t, l, n + 1, D) /\ Here(t, l, n + 1, D) /\ x = t[l][n].max /\ x \in Keys
      BY <1>1, <2>1, LeafPassed
    <2>3. QED
      BY <2>2, BTreeVecConstants
  <1>5. ASSUME NEW j \in 1 .. m, j # m PROVE Level(t, on[j], p[j], D) /\ j \in 1 .. m - 1
    <2>1. j \in 1 .. m - 1 /\ j < m
      BY <1>2, <1>5
    <2>2. Last(t[l]).max <= t[on[j]][p[j]].max
      BY <1>2, <2>1
    <2>3. /\ t[l][n].max <= Last(t[l]).max /\ t[l][n].max \in Int /\ Last(t[l]).max \in Int
          /\ t[on[j]][p[j]].max \in Int
      BY <1>2, <2>1
    <2> DEFINE h == on[j]
               i == p[j]
    <2>4. h \in 1 .. Len(t) /\ i \in 1 .. Len(t[h]) /\ Level(t, h, i, C)
      BY <1>1, <1>2, <2>1
    <2> HIDE DEF x, l, n
    <2>5. x <= t[h][i].max
      BY <1>4, <2>2, <2>3
    <2> HIDE DEF h, i
    <2>6. Level(t, h, i, D)
      BY <1>4, <2>4, <2>5, OuterLevel
    <2>7. QED
      BY <2>1, <2>6 DEF h, i
  <1> HIDE DEF q, D, x
  <1>6. Leads(t, q, on)
    <2>1. \A j \in 1 .. m - 1 : /\ j \in 1 .. m /\ j # m
                                /\ p[j] <= Len(t[on[j]]) /\ t[on[j]][p[j]].list = on[j + 1]
      <3>1. \A j \in 1 .. m - 1 : j \in 1 .. m /\ j # m
        BY <1>2
      <3>2. QED
        BY <1>1, <3>1 DEF Leads
    <2>2. \A j \in 1 .. m - 1 : q[j] <= Len(t[on[j]]) /\ t[on[j]][q[j]].list = on[j + 1]
      BY <1>3, <2>1
    <2>3. \A j \in 1 .. m : 1 <= q[j]
      <3>1. (\A j \in 1 .. m : 1 <= p[j]) /\ 1 <= n + 1
        BY <1>2
      <3> HIDE DEF n
      <3>2. QED
        BY <1>3, <3>1
    <2>4. \A i, j \in 1 .. m : i < j => i # m /\ q[i] = p[i]
      BY <1>2, <1>3
    <2>5. \A i, j \in 1 .. m : i < j =>
             t[on[j]] # <<>> /\ Last(t[on[j]]).max <= t[on[i]][q[i]].max
      BY <1>2, <2>4
    <2>6. on \in [1 .. m -> 1 .. Len(t)] /\ on[1] = 1
      BY <1>1 DEF Leads
    <2>7. QED
      BY <1>2, <1>3, <2>2, <2>3, <2>5, <2>6 DEF Leads
  <1>7. \A j \in 1 .. m : Level(t, on[j], q[j], D)
    BY <1>3, <1>4, <1>5
  <1>8. Here(t, on[m], q[m], D)
    BY <1>2, <1>3, <1>4
  <1>9. WalkAt(t, q, on, D)
    BY <1>3, <1>6, <1>7, <1>8 DEF WalkAt
  <1>10. QED
    BY <1>9 DEF q, D, x

LEMMA TurnOut ==
  ASSUME NEW t \in Good, NEW p, NEW on, NEW C \in SUBSET Int, WalkAt(t, p, on, C),
         p[Len(p)] > Len(t[on[Len(p)]]), Len(p) # 1
  PROVE  \E o : WalkAt(t, NextInParent(p), o, C)
  <1> DEFINE m == Len(p)
             r == m - 1
             l == on[r]
             n == p[r]
             f == Front(p)
             q == NextInParent(p)
             o == [j \in 1 .. r |-> on[j]]
  <1>1. Leads(t, p, on) /\ \A j \in 1 .. m : Level(t, on[j], p[j], C)
    BY DEF WalkAt
  <1>2. /\ m \in Nat /\ m # 0 /\ m \in 1 .. m /\ p \in Seq(Nat) /\ on[1] = 1
        /\ \A j \in 1 .. m : on[j] \in 1 .. Len(t) /\ p[j] \in Nat /\ 1 <= p[j]
        /\ \A j \in 1 .. m - 1 : /\ p[j] \in 1 .. Len(t[on[j]]) /\ on[j + 1] # 0
                                 /\ t[on[j]][p[j]].list = on[j + 1]
        /\ \A i, j \in 1 .. m : i < j =>
             t[on[j]] # <<>> /\ Last(t[on[j]]).max <= t[on[i]][p[i]].max
    BY <1>1, LeadsFacts
  <1>3. /\ r \in Nat /\ r # 0 /\ r \in 1 .. r /\ r \in 1 .. m - 1 /\ r + 1 = m /\ 1 \in 1 .. r
        /\ \A j \in 1 .. r : j \in 1 .. m
        /\ \A j \in 1 .. r - 1 : j \in 1 .. m - 1 /\ j # r /\ j + 1 \in 1 .. r /\ j \in 1 .. r
    <2>1. m \in Nat /\ m # 0 /\ m # 1
      BY <1>2
    <2> HIDE DEF m
    <2>2. r \in Nat /\ r # 0 /\ r + 1 = m
      BY <2>1
    <2>3. /\ r \in 1 .. r /\ r \in 1 .. m - 1 /\ 1 \in 1 .. r
          /\ \A j \in 1 .. r : j \in 1 .. m
      BY <2>1
    <2>4. \A j \in 1 .. r - 1 : j \in 1 .. m - 1 /\ j # r /\ j + 1 \in 1 .. r /\ j \in 1 .. r
      BY <2>1
    <2>5. QED
      BY <2>2, <2>3, <2>4
  <1>4. /\ f \in Seq(Nat) /\ Len(f) = r /\ \A j \in 1 .. r : f[j] = p[j]
    <2>1. f = SubSeq(p, 1, m - 1)
      BY DEF Front
    <2> HIDE DEF f
    <2>2. /\ SubSeq(p, 1, m - 1) \in Seq(Nat)
          /\ Len(SubSeq(p, 1, m - 1)) = r
          /\ \A j \in 1 .. r : SubSeq(p, 1, m - 1)[j] = p[j]
      <3>1. \A j \in 1 .. r : p[j] \in Nat
        BY <1>2, <1>3
      <3>2. 1 \in Int /\ r \in Int /\ 1 <= r /\ r - 1 + 1 = r
        <4>1. r \in Nat /\ r # 0
          BY <1>3
        <4> HIDE DEF r
        <4>2. QED
          BY <4>1
      <3> HIDE DEF r
      <3>3. /\ SubSeq(p, 1, r) \in Seq(Nat) /\ Len(SubSeq(p, 1, r)) = r
            /\ \A j \in 1 .. r : SubSeq(p, 1, r)[j] = p[1 + j - 1]
        BY <3>1, <3>2, SubSeqProperties
      <3>4. \A j \in 1 .. r : 1 + j - 1 = j
        BY <3>2
      <3>5. QED
        BY <3>3, <3>4 DEF r
    <2>3. QED
      BY <2>1, <2>2
  <1>5. q \in Seq(Nat) /\ Len(q) = r /\ \A j \in 1 .. r : q[j] = IF j = r THEN n + 1 ELSE p[j]
    <2>1. n + 1 \in Nat /\ q = [f EXCEPT ![r] = n + 1]
      <3>1. n + 1 \in Nat /\ f[r] = n
        <4>1. r \in 1 .. r /\ r \in 1 .. m
          BY <1>3
        <4> HIDE DEF r, f, m
        <4>2. n \in Nat /\ f[r] = n
          BY <1>2, <1>4, <4>1
        <4>3. QED
          BY <4>2
      <3>2. q = [f EXCEPT ![r] = f[r] + 1]
        BY DEF NextInParent
      <3> HIDE DEF n, f, q, r
      <3>3. QED
        BY <3>1, <3>2
    <2> HIDE DEF n, q, f, r
    <2>2. QED
      BY <1>3, <1>4, <2>1, ExceptSeq
  <1>6. Level(t, l, n + 1, C) /\ Here(t, l, n + 1, C)
    <2> DEFINE a == p[m]
    <2>1. /\ l \in 1 .. Len(t) /\ n \in 1 .. Len(t[l]) /\ t[l][n].list # 0 /\ Level(t, l, n, C)
          /\ a \in Nat /\ t[l][n].list = on[m] /\ a > Len(t[on[m]]) /\ PassedAt(t, on[m], a, C)
      <3>1. on[m] # 0 /\ t[l][n].list = on[m] /\ n \in 1 .. Len(t[l])
        BY <1>2, <1>3
      <3>2. PassedAt(t, on[m], a, C)
        BY <1>1, <1>2 DEF Level
      <3>3. QED
        BY <1>1, <1>2, <1>3, <3>1, <3>2
    <2> HIDE DEF l, n, a
    <2>2. QED
      BY <2>1, OutOfLevel
  <1> HIDE DEF q, r
  <1>7. o \in [1 .. r -> 1 .. Len(t)] /\ \A j \in 1 .. r : o[j] = on[j]
    BY <1>2, <1>3
  <1> HIDE DEF o
  <1>8. Leads(t, q, o)
    <2>1. \A j \in 1 .. r - 1 : p[j] <= Len(t[on[j]]) /\ t[on[j]][p[j]].list = on[j + 1]
      BY <1>1, <1>3 DEF Leads
    <2>2. \A j \in 1 .. r - 1 : q[j] <= Len(t[o[j]]) /\ t[o[j]][q[j]].list = o[j + 1]
      BY <1>3, <1>5, <1>7, <2>1
    <2>3. \A j \in 1 .. r : 1 <= q[j]
      <3>1. (\A j \in 1 .. r : 1 <= p[j]) /\ n \in Nat
        BY <1>2, <1>3
      <3> HIDE DEF n
      <3>2. 1 <= n + 1
        BY <3>1
      <3>3. QED
        BY <1>5, <3>1, <3>2
    <2>4. \A i, j \in 1 .. r : i < j => i # r /\ q[i] = p[i]
      BY <1>3, <1>5
    <2>5. \A i, j \in 1 .. r : i < j =>
             t[o[j]] # <<>> /\ Last(t[o[j]]).max <= t[o[i]][q[i]].max
      BY <1>2, <1>3, <1>7, <2>4
    <2>6. o[1] = 1
      BY <1>2, <1>3, <1>7
    <2>7. QED
      BY <1>3, <1>5, <1>7, <2>2, <2>3, <2>5, <2>6 DEF Leads
  <1>9. \A j \in 1 .. r : Level(t, o[j], q[j], C)
    BY <1>1, <1>3, <1>5, <1>6, <1>7
  <1>10. Here(t, o[r], q[r], C)
    BY <1>3, <1>5, <1>6, <1>7
  <1>11. WalkAt(t, q, o, C)
    BY <1>5, <1>8, <1>9, <1>10 DEF WalkAt
  <1>12. QED
    BY <1>11 DEF q

(* A walk at a path, or at its end, that has yielded the groups s.         *)
Came(s) == {s[i][1] : i \in 1 .. Len(s)}

Yielded(t, s) ==
    /\ s \in Seq(Group) /\ Ordered(s, KeyOrder)
    /\ \A x : In(s, x) => x[1] \in Keys /\ x[2] = Get(t, x[1])

Walks(t, p, s) ==
    /\ Yielded(t, s) /\ p \in Seq(Nat)
    /\ p = <<>> => \A k \in Int : Get(t, k) # <<>> => k \in Came(s)
    /\ p # <<>> => \E on : WalkAt(t, p, on, Came(s))

LEMMA CameFacts ==
  ASSUME NEW t, NEW s, Yielded(t, s)
  PROVE  /\ Came(s) \in SUBSET Int
         /\ \A c : c \in Came(s) <=> \E x : In(s, x) /\ c = x[1]
         /\ s \o <<>> = s
  <1>1. \A c : c \in Came(s) <=> \E x : In(s, x) /\ c = x[1]
    BY DEF Came, In
  <1>2. \A x : In(s, x) => x[1] \in Int
    BY BTreeVecConstants DEF Yielded
  <1>3. s \o <<>> = s
    BY ConcatEmptySeq DEF Yielded
  <1>4. QED
    BY <1>1, <1>2, <1>3

LEMMA YieldsMore ==
  ASSUME NEW t, NEW s, Yielded(t, s), NEW x \in Keys, NEW vs \in Seq(Nat), vs = Get(t, x),
         \A c \in Came(s) : c < x
  PROVE  /\ Yielded(t, s \o << <<x, vs>> >>)
         /\ Came(s \o << <<x, vs>> >>) = Came(s) \cup {x}
  <1> DEFINE g == <<x, vs>>
             b == <<g>>
             r == s \o b
  <1>1. g \in Group /\ g[1] = x /\ g[2] = vs
    BY BTreeVecConstants DEF Group
  <1> HIDE DEF g
  <1>2. b \in Seq(Group) /\ \A y : In(b, y) <=> y = g
    <2>1. b \in Seq(Group) /\ Len(b) = 1 /\ b[1] = g
      BY <1>1
    <2> HIDE DEF b
    <2>2. QED
      BY <2>1 DEF In
  <1>3. Ordered(b, KeyOrder)
    <2>1. Len(b) = 1 /\ ~ \E j, k \in 1 .. 1 : j < k
      OBVIOUS
    <2>2. QED
      BY <2>1 DEF Ordered
  <1> HIDE DEF b
  <1>4. s \in Seq(Group) /\ Ordered(s, KeyOrder)
    BY DEF Yielded
  <1>5. Before(s, b, KeyOrder)
    <2>1. SUFFICES ASSUME NEW y, In(s, y) PROVE <<y, g>> \in KeyOrder
      BY <1>2 DEF Before
    <2>2. y \in Group
      BY <1>4, <2>1, ElementOfSeq DEF In
    <2>3. y[1] < x
      BY <2>1, CameFacts
    <2>4. QED
      BY <1>1, <2>2, <2>3 DEF KeyOrder
  <1>6. /\ r \in Seq(Group) /\ Ordered(r, KeyOrder)
        /\ \A y : In(r, y) <=> In(s, y) \/ y = g
    <2>1. r \in Seq(Group) /\ \A y : In(r, y) <=> In(s, y) \/ In(b, y)
      BY <1>2, <1>4, Joined
    <2>2. Ordered(r, KeyOrder)
      BY <1>2, <1>3, <1>4, <1>5, Joined
    <2>3. QED
      BY <1>2, <2>1, <2>2
  <1> HIDE DEF r
  <1>7. Yielded(t, r)
    BY <1>1, <1>6 DEF Yielded
  <1>8. Came(r) = Came(s) \cup {x}
    <2>1. \A c : c \in Came(r) <=> \E y : In(r, y) /\ c = y[1]
      BY <1>7, CameFacts
    <2>2. \A c : c \in Came(s) <=> \E y : In(s, y) /\ c = y[1]
      BY CameFacts
    <2>3. \A c : c \in Came(r) <=> c \in Came(s) \/ c = x
      BY <1>1, <1>6, <2>1, <2>2
    <2>4. QED
      BY <2>3
  <1>9. QED
    BY <1>7, <1>8 DEF r, b, g

LEMMA TurnIsRecord ==
  ASSUME NEW t, NEW p
  PROVE  Turn(t, p) = [path |-> Turn(t, p).path, item |-> Turn(t, p).item]
  BY DEF Turn

LEMMA TurnWalks ==
  ASSUME NEW t \in Good, NEW p, p # <<>>, NEW s, Walks(t, p, s)
  PROVE  /\ Turn(t, p) \in [path : Seq(Nat), item : Seq(Group)]
         /\ Walks(t, Turn(t, p).path, s \o Turn(t, p).item)
  <1> DEFINE C == Came(s)
             m == Len(p)
             T == Turn(t, p)
  <1>1. Yielded(t, s)
    BY DEF Walks
  <1>2. C \in SUBSET Int /\ s \o <<>> = s
    BY <1>1, CameFacts
  <1>3. PICK on : WalkAt(t, p, on, C)
    BY DEF Walks
  <1> HIDE DEF C
  <1> DEFINE l == on[m]
             n == p[m]
  <1>4. Leads(t, p, on) /\ Level(t, l, n, C) /\ Here(t, l, n, C)
    <2>1. Leads(t, p, on)
      BY <1>3 DEF WalkAt
    <2>2. m \in Nat /\ m # 0
      BY <2>1, LeadsFacts
    <2>3. m \in 1 .. m
      BY <2>2
    <2> HIDE DEF m
    <2>4. QED
      BY <1>3, <2>1, <2>3 DEF WalkAt, m
  <1>5. /\ m \in Nat /\ m # 0 /\ m \in 1 .. m /\ on[1] = 1 /\ l \in 1 .. Len(t)
        /\ n \in Nat /\ 1 <= n /\ Len(t[l]) \in Nat
    <2>1. m \in Nat /\ m # 0
      BY <1>4, LeadsFacts
    <2>2. m \in 1 .. m
      BY <2>1
    <2>3. QED
      BY <1>4, <2>1, <2>2, LeadsFacts
  <1>6. ASSUME T.path \in Seq(Nat), T.item \in Seq(Group)
        PROVE  T \in [path : Seq(Nat), item : Seq(Group)]
    <2>1. T = [path |-> T.path, item |-> T.item]
      BY TurnIsRecord
    <2> HIDE DEF T
    <2>2. QED
      BY <1>6, <2>1
  <1>7. <<>> \in Seq(Nat) /\ <<>> \in Seq(Group)
    BY EmptySeq
  <1>8. ASSUME NEW o, WalkAt(t, T.path, o, C), T.item = <<>>
        PROVE  /\ T \in [path : Seq(Nat), item : Seq(Group)]
               /\ Walks(t, T.path, s \o T.item)
    <2>1. T.path \in Seq(Nat) /\ Len(T.path) # 0
      BY <1>8 DEF WalkAt, Leads
    <2>2. T.path # <<>>
      BY <2>1
    <2>3. T \in [path : Seq(Nat), item : Seq(Group)]
      BY <1>6, <1>7, <1>8, <2>1
    <2> HIDE DEF T
    <2>4. Walks(t, T.path, s)
      BY <1>1, <1>8, <2>1, <2>2 DEF Walks, C
    <2>5. QED
      BY <1>2, <1>8, <2>3, <2>4
  <1>9. CASE n > Len(t[l])
    <2>1. T.item = <<>> /\ T.path = IF m = 1 THEN <<>> ELSE NextInParent(p)
      BY <1>4, <1>9, TurnFacts DEF TurnsTo
    <2> HIDE DEF T
    <2>2. CASE m = 1
      <3>1. T.path = <<>> /\ l = 1
        BY <1>5, <2>1, <2>2
      <3>2. ASSUME NEW k \in Int, Get(t, k) # <<>> PROVE k \in C
        <4> HIDE DEF l, n
        <4>1. PICK i \in 1 .. Len(t[l]) : t[l][i].min <= k /\ k <= t[l][i].max
          BY <1>5, <3>1, <3>2, GetNear DEF Get
        <4>2. i < n
          BY <1>5, <1>9, <4>1
        <4>3. QED
          BY <1>4, <3>2, <4>1, <4>2 DEF Level, PassedAt, InPlace
      <3>3. Walks(t, <<>>, s)
        BY <1>1, <1>7, <3>2 DEF Walks, C
      <3>4. QED
        BY <1>2, <1>6, <1>7, <2>1, <3>1, <3>3 DEF T
    <2>3. CASE m # 1
      <3>1. \E o : WalkAt(t, NextInParent(p), o, C)
        BY <1>2, <1>3, <1>9, <2>3, TurnOut
      <3>2. QED
        BY <1>8, <2>1, <2>3, <3>1 DEF T
    <2>4. QED
      BY <2>2, <2>3
  <1>10. CASE ~ (n > Len(t[l])) /\ t[l][n].list # 0
    <2>1. n \in 1 .. Len(t[l])
      BY <1>5, <1>10
    <2>2. T.path = Append(p, 1) /\ T.item = <<>>
      <3>1. ~ (p[Len(p)] > Len(t[on[Len(p)]])) /\ t[on[Len(p)]][p[Len(p)]].list # 0
        BY <1>10
      <3>2. Leads(t, p, on)
        BY <1>4
      <3>3. TurnsTo(t, p, Append(p, 1), <<>>)
        BY <3>1, <3>2, TurnFacts
      <3>4. QED
        BY <3>3 DEF TurnsTo
    <2>3. \E o : WalkAt(t, Append(p, 1), o, C)
      BY <1>2, <1>3, <1>10, <2>1, TurnInto
    <2> HIDE DEF T
    <2>4. QED
      BY <1>8, <2>2, <2>3 DEF T
  <1>11. CASE ~ (n > Len(t[l])) /\ t[l][n].list = 0
    <2> DEFINE x == t[l][n].min
               vs == t[l][n].leaf
               q == [p EXCEPT ![m] = @ + 1]
    <2>1. n \in 1 .. Len(t[l])
      BY <1>5, <1>11
    <2>2. T.item = << <<x, vs>> >> /\ T.path = q
      BY <1>4, <1>11, TurnFacts DEF TurnsTo
    <2>3. WalkAt(t, q, on, C \cup {x})
      BY <1>2, <1>3, <1>11, <2>1, TurnPast
    <2> HIDE DEF T, q
    <2>4. x \in Keys /\ vs = Get(t, x) /\ vs \in Seq(Nat) /\ \A c \in C : c < x
      <3> HIDE DEF l, n
      <3>1. x \in Keys /\ vs = Get(t, x) /\ \A c \in C : c < x
        BY <1>2, <1>4, <1>5, <1>11, <2>1, LeafPassed
      <3>2. vs \in Seq(Nat)
        BY <1>5, <2>1, GoodFacts, TreeFacts
      <3>3. QED
        BY <3>1, <3>2
    <2> HIDE DEF x, vs, l, n
    <2>5. /\ Yielded(t, s \o << <<x, vs>> >>)
          /\ Came(s \o << <<x, vs>> >>) = C \cup {x}
      BY <1>1, <2>4, YieldsMore DEF C
    <2>6. q \in Seq(Nat) /\ q # <<>>
      <3>1. q \in Seq(Nat) /\ Len(q) # 0
        BY <2>3 DEF WalkAt, Leads
      <3>2. QED
        BY <3>1
    <2>7. << <<x, vs>> >> \in Seq(Group)
      BY <2>4, BTreeVecConstants DEF Group
    <2>8. T \in [path : Seq(Nat), item : Seq(Group)]
      BY <1>6, <2>2, <2>6, <2>7
    <2>9. Walks(t, q, s \o << <<x, vs>> >>)
      BY <2>3, <2>5, <2>6 DEF Walks
    <2>10. QED
      BY <2>2, <2>8, <2>9 DEF T
  <1>12. QED
    BY <1>9, <1>10, <1>11

LEMMA FollowWalks ==
  ASSUME NEW t \in Good, NEW p, NEW s, Walks(t, p, s)
  PROVE  Walks(t, Follow(t, p).path, s \o Follow(t, p).item)
  <1> DEFINE n == Len(p) + Len(t)
             b == [path |-> p, item |-> <<>>]
             Turned(r) == IF r.path = <<>> \/ r.item # <<>> THEN r ELSE Turn(t, r.path)
             Z == {r \in [path : Seq(Nat), item : Seq(Group)] : Walks(t, r.path, s \o r.item)}
             G == [i \in 1 .. n |-> [r \in Z |-> Turned(r)]]
             Body(i, h) == IF i = 0 THEN b ELSE Turned(h[i - 1])
  <1>1. n \in Nat
    BY GoodFacts, TreeFacts, LenProperties DEF Walks
  <1>2. b \in Z
    <2>1. <<>> \in Seq(Group) /\ p \in Seq(Nat) /\ s \o <<>> = s
      BY CameFacts, EmptySeq DEF Walks
    <2>2. QED
      BY <2>1
  <1>3. \A r \in Z : Turned(r) \in Z
    <2>1. SUFFICES ASSUME NEW r \in Z, r.path # <<>>, r.item = <<>> PROVE Turn(t, r.path) \in Z
      OBVIOUS
    <2>2. Walks(t, r.path, s)
      BY <2>1, CameFacts DEF Walks
    <2>3. /\ Turn(t, r.path) \in [path : Seq(Nat), item : Seq(Group)]
          /\ Walks(t, Turn(t, r.path).path, s \o Turn(t, r.path).item)
      BY <2>1, <2>2, TurnWalks
    <2>4. QED
      BY <2>3
  <1> HIDE DEF n, b, Turned, Z
  <1>4. PICK f \in [0 .. n -> Z] : f[0] = b /\ \A i \in 1 .. n : f[i] = G[i][f[i - 1]]
    <2>1. Stepwise(n, Z, G)
      BY <1>3 DEF Stepwise
    <2> HIDE DEF G
    <2>2. QED
      BY <1>1, <1>2, <2>1, UpwardRecursion
  <1>5. \A i \in 1 .. n : f[i] = Turned(f[i - 1])
    <2>1. \A i \in 1 .. n : i - 1 \in 0 .. n
      BY <1>1
    <2>2. QED
      BY <1>4, <2>1
  <1>6. f = [i \in 0 .. n |-> Body(i, f)]
    <2>1. \A i \in 0 .. n : i # 0 => i \in 1 .. n
      BY <1>1
    <2>2. \A i \in 0 .. n : f[i] = Body(i, f)
      BY <1>4, <1>5, <2>1
    <2> HIDE DEF Body
    <2>3. QED
      BY <1>4, <2>2
  <1> DEFINE g == CHOOSE h : h = [i \in 0 .. n |-> Body(i, h)]
  <1>7. g = [i \in 0 .. n |-> Body(i, g)]
    <2> HIDE DEF Body
    <2>1. QED
      BY <1>6
  <1>8. Follow(t, p) = g[n]
    BY DEF Follow, Turned, b, n
  <1> HIDE DEF g
  <1> DEFINE S == {i \in 0 .. n : g[i] \in Z}
  <1>9. 0 \in S
    <2>1. 0 \in 0 .. n
      BY <1>1
    <2>2. g[0] = Body(0, g)
      <3> HIDE DEF Body
      <3>1. QED
        BY <1>7, <2>1
    <2>3. QED
      BY <1>2, <2>1, <2>2
  <1>10. ASSUME NEW i \in 0 .. n - 1, i \in S PROVE i + 1 \in S
    <2> DEFINE k == i + 1
    <2>1. k \in 0 .. n /\ k # 0 /\ k - 1 = i
      BY <1>1
    <2> HIDE DEF k
    <2>2. g[k] = Body(k, g)
      <3> HIDE DEF Body
      <3>1. QED
        BY <1>7, <2>1
    <2>3. g[k] \in Z
      BY <1>3, <1>10, <2>1, <2>2
    <2>4. QED
      BY <2>1, <2>3 DEF k
  <1>11. \A i \in 0 .. n - 1 : i \in S => i + 1 \in S
    BY <1>10
  <1> HIDE DEF S
  <1>12. \A i \in 0 .. n : i \in S
    BY <1>1, <1>9, <1>11, UpTo
  <1>13. g[n] \in Z
    <2>1. n \in S
      BY <1>1, <1>12
    <2>2. QED
      BY <2>1 DEF S
  <1>14. QED
    BY <1>8, <1>13 DEF Z

LEMMA WalkBegins ==
  ASSUME NEW t \in Good
  PROVE  Walks(t, <<1>>, <<>>)
  <1> DEFINE p == <<1>>
             on == [j \in 1 .. 1 |-> 1]
  <1>1. 1 \in 1 .. Len(t)
    BY GoodFacts
  <1>2. p \in Seq(Nat) /\ Len(p) = 1 /\ p[1] = 1 /\ p # <<>> /\ on \in [1 .. 1 -> 1 .. Len(t)] /\ on[1] = 1
    BY <1>1
  <1>3. \A x : ~ In(<<>>, x)
    BY DEF In
  <1>4. Yielded(t, <<>>) /\ Came(<<>>) = {}
    <2>1. <<>> \in Seq(Group) /\ Len(<<>>) = 0
      BY EmptySeq
    <2>2. Ordered(<<>>, KeyOrder)
      BY <2>1 DEF Ordered
    <2>3. QED
      BY <1>3, <2>1, <2>2 DEF Yielded, Came
  <1> HIDE DEF p, on
  <1>5. Leads(t, p, on)
    <2>1. \A j \in 1 .. 1 : j = 1
      OBVIOUS
    <2>2. \A i, j \in 1 .. 1 : ~ (i < j)
      BY <2>1
    <2>3. \A j \in 1 .. 1 - 1 : FALSE
      OBVIOUS
    <2>4. QED
      BY <1>2, <2>1, <2>2, <2>3 DEF Leads
  <1>6. Level(t, 1, 1, {}) /\ Here(t, 1, 1, {})
    <2>1. \A i \in 1 .. Len(t[1]) : ~ (i < 1)
      BY <1>1, GoodFacts, TreeFacts
    <2>2. QED
      BY <2>1 DEF Level, PassedAt, AheadAt, Here
  <1>7. WalkAt(t, p, on, {})
    BY <1>2, <1>5, <1>6 DEF WalkAt
  <1>8. QED
    BY <1>2, <1>4, <1>7 DEF Walks, p

-----------------------------------------------------------------------------
(* The invariant of a walk.                                                *)

WalkInv == ~ changed => Walks(itms, state, seen)

LEMMA WalkInvInit == Init => WalkInv
  <1>1. SUFFICES ASSUME Init PROVE Walks(EmptyTree, <<>>, <<>>)
    BY DEF Init, WalkInv
  <1>2. EmptyTree \in Good /\ \A k \in Int : \A v : ~ In(Get(EmptyTree, k), v)
    BY EmptyHolds DEF Holding
  <1>3. Yielded(EmptyTree, <<>>)
    BY <1>2, WalkBegins DEF Walks
  <1>4. \A k \in Int : Get(EmptyTree, k) = <<>>
    <2>1. SUFFICES ASSUME NEW k \in Int PROVE Get(EmptyTree, k) = <<>>
      OBVIOUS
    <2> DEFINE w == Get(EmptyTree, k)
    <2>2. w \in Seq(Nat)
      BY <1>2, GoodFacts, GetFromTyped DEF Get
    <2>3. \A v : ~ In(w, v)
      BY <1>2
    <2> HIDE DEF w
    <2>4. Len(w) = 0
      <3>1. Len(w) \in Nat /\ ~ (1 \in 1 .. Len(w))
        BY <2>2, <2>3, LenProperties DEF In
      <3>2. QED
        BY <3>1
    <2>5. w = <<>>
      BY <2>2, <2>4, EmptySeq
    <2>6. QED
      BY <2>5 DEF w
  <1>5. QED
    BY <1>3, <1>4, EmptySeq DEF Walks

LEMMA WalkStep ==
  ASSUME TreeInv, WalkInv, [Next]_vars
  PROVE  WalkInv'
  <1>1. itms \in Good
    BY DEF TreeInv, Holding
  <1>2. ASSUME NEW key \in Keys, Push(key) PROVE WalkInv'
    BY <1>2 DEF Push, WalkInv
  <1>3. CASE Rebuild
    BY <1>3 DEF Rebuild, WalkInv
  <1>4. CASE BeginIteration
    BY <1>1, <1>4, WalkBegins DEF BeginIteration, WalkInv, treeVars
  <1>5. CASE StatelessNext
    <2>1. SUFFICES ASSUME ~ changed PROVE Walks(itms, state', seen')
      BY <1>5 DEF StatelessNext, WalkInv, treeVars
    <2>2. state' = Follow(itms, state).path /\ seen' = seen \o Follow(itms, state).item
      BY <1>5, <2>1 DEF StatelessNext
    <2>3. Walks(itms, state, seen)
      BY <2>1 DEF WalkInv
    <2>4. QED
      BY <1>1, <2>2, <2>3, FollowWalks
  <1>6. CASE UNCHANGED vars
    BY <1>6 DEF vars, treeVars, WalkInv
  <1>7. QED
    BY <1>2, <1>3, <1>4, <1>5, <1>6 DEF Next

(* A walk over a tree that stays as it is yields every key once, in the    *)
(* order of the keys, with the values that get finds for it.               *)
THEOREM WalkCorrect == Spec => []WalkExact
  <1>1. TreeInv /\ WalkInv => WalkExact
    <2>1. SUFFICES ASSUME TreeInv, Walks(itms, state, seen)
                   PROVE  LET came == {seen[i][1] : i \in DOMAIN seen}
                              toCome == {k \in Keys \ came : got[k] # <<>>}
                          IN  /\ \A i \in DOMAIN seen : seen[i][2] = got[seen[i][1]]
                              /\ \A i \in 2 .. Len(seen) : seen[i - 1][1] < seen[i][1]
                              /\ \A k \in toCome, c \in came : c < k
                              /\ state = <<>> => toCome = {}
      BY DEF WalkExact, WalkInv
    <2> DEFINE C == Came(seen)
    <2>2. itms \in Good /\ \A k \in Keys : k \in Int /\ got[k] = Get(itms, k)
      BY <2>1, BTreeVecConstants DEF TreeInv, Holding, Found
    <2>3. /\ seen \in Seq(Group) /\ Ordered(seen, KeyOrder)
          /\ \A x : In(seen, x) => x[1] \in Keys /\ x[2] = Get(itms, x[1])
          /\ C \in SUBSET Int
      BY <2>1, CameFacts DEF Walks, Yielded
    <2>4. DOMAIN seen = 1 .. Len(seen) /\ Len(seen) \in Nat
      BY <2>3, LenProperties
    <2>5. C = {seen[i][1] : i \in DOMAIN seen}
      BY <2>4 DEF Came
    <2>6. \A i \in 1 .. Len(seen) : seen[i][2] = got[seen[i][1]]
      BY <2>2, <2>3 DEF In
    <2>7. ASSUME NEW i \in 2 .. Len(seen) PROVE seen[i - 1][1] < seen[i][1]
      <3>1. i - 1 \in 1 .. Len(seen) /\ i \in 1 .. Len(seen) /\ i - 1 < i
        BY <2>4
      <3>2. <<seen[i - 1], seen[i]>> \in KeyOrder
        BY <2>3, <3>1 DEF Ordered
      <3>3. QED
        BY <3>2 DEF KeyOrder
    <2>8. ASSUME state = <<>>, NEW k \in Keys, got[k] # <<>> PROVE k \in C
      BY <2>1, <2>2, <2>8 DEF Walks
    <2>9. ASSUME NEW k \in Keys \ C, got[k] # <<>>, NEW c \in C PROVE c < k
      <3>1. PICK on : WalkAt(itms, state, on, C)
        BY <2>1, <2>8, <2>9 DEF Walks
      <3>2. QED
        BY <2>2, <2>3, <2>9, <3>1, WalkOrder
    <2> HIDE DEF C
    <2>10. QED
      BY <2>4, <2>5, <2>6, <2>7, <2>8, <2>9
  <1>2. Init => TreeInv /\ WalkInv
    BY TreeInvInit, WalkInvInit
  <1>3. TreeInv /\ WalkInv /\ [Next]_vars => (TreeInv /\ WalkInv)'
    BY TreeStep, WalkStep
  <1>4. QED
    BY <1>1, <1>2, <1>3, PTL DEF Spec
=============================================================================
