------------------------- MODULE ElementStoreProofs -------------------------
(***************************************************************************)
(* What the trees rest on in boxes, ranges and their halves, for every     *)
(* width of a coordinate; that the blocks of the value pools can be        *)
(* walked, for every map, every schema of its tags and every size of a     *)
(* block; and that what is written of numbers, strings, relations and ways *)
(* is read back.  TLC has seen the boxes, the blocks and the bytes of one  *)
(* instance only.                                                          *)
(***************************************************************************)
EXTENDS ElementStore, SequenceTheorems, WellFoundedInduction, TLAPS

Axes == {"Long", "Lat"}

(* The corners of a box are integers in their order. *)
LEMMA BoxShape ==
    ASSUME NEW b \in Boxes
    PROVE  /\ b = [x |-> b.x, y |-> b.y, xEnd |-> b.xEnd, yEnd |-> b.yEnd]
           /\ b.x \in Coords /\ b.y \in Coords /\ b.xEnd \in Coords /\ b.yEnd \in Coords
           /\ b.x <= b.xEnd /\ b.y <= b.yEnd
  BY DEF Boxes

(* A coordinate is an integer, and one between two coordinates is one. *)
LEMMA CoordsAreIntegers ==
    /\ Coords \subseteq Int
    /\ \A a, b \in Coords, m \in Int : a <= m /\ m <= b => m \in Coords
  <1> DEFINE half == 2 ^ (W - 1)
  <1>1. half \in Int
    BY WidthOK
  <1> HIDE DEF half
  <1>2. Coords = -half .. half - 1
    BY DEF Coords, half
  <1> QED BY <1>1, <1>2

(* avg lies between its arguments. *)
LEMMA AvgBetween ==
    ASSUME NEW a \in Int, NEW b \in Int, a <= b
    PROVE  Avg(a, b) \in Int /\ a <= Avg(a, b) /\ Avg(a, b) <= b
  BY DEF Avg

-----------------------------------------------------------------------------
(* Boxes. *)

(* Two corners in their order make a box. *)
LEMMA CornersMakeBox ==
    ASSUME NEW x \in Coords, NEW y \in Coords, NEW xEnd \in Coords, NEW yEnd \in Coords,
           x <= xEnd, y <= yEnd
    PROVE  Box(x, y, xEnd, yEnd) \in Boxes
  <1> DEFINE new == [x |-> x, y |-> y, xEnd |-> xEnd, yEnd |-> yEnd]
  <1>1. new \in [x : Coords, y : Coords, xEnd : Coords, yEnd : Coords]
    OBVIOUS
  <1>2. new.x = x /\ new.y = y /\ new.xEnd = xEnd /\ new.yEnd = yEnd
    OBVIOUS
  <1> HIDE DEF new
  <1>3. new \in Boxes
    BY <1>1, <1>2 DEF Boxes
  <1> QED BY <1>3 DEF new, Box

(* The halves of a box are boxes inside it. *)
LEMMA HalvesAreBoxes ==
    ASSUME NEW b \in Boxes, NEW axis \in Axes
    PROVE  /\ LeftHalf(b, axis) \in Boxes /\ BoxContains(b, LeftHalf(b, axis))
           /\ RightHalf(b, axis) \in Boxes /\ BoxContains(b, RightHalf(b, axis))
  <1> USE BoxShape, CoordsAreIntegers
  <1>1. CASE axis = "Long"
    <2> DEFINE m == Avg(b.y, b.yEnd)
    <2>1. m \in Int /\ b.y <= m /\ m <= b.yEnd
      BY AvgBetween
    <2>2. m \in Coords
      BY <2>1
    <2>3. /\ LeftHalf(b, axis) = [x |-> b.x, y |-> b.y, xEnd |-> b.xEnd, yEnd |-> m]
          /\ RightHalf(b, axis) = [x |-> b.x, y |-> m, xEnd |-> b.xEnd, yEnd |-> b.yEnd]
      BY <1>1 DEF LeftHalf, RightHalf, Boxes
    <2> HIDE DEF m
    <2>4. LeftHalf(b, axis) \in Boxes /\ RightHalf(b, axis) \in Boxes
      BY <2>1, <2>2, <2>3, CornersMakeBox DEF Box
    <2>5. BoxContains(b, LeftHalf(b, axis)) /\ BoxContains(b, RightHalf(b, axis))
      BY <2>1, <2>3 DEF BoxContains
    <2> QED BY <2>4, <2>5
  <1>2. CASE axis = "Lat"
    <2> DEFINE m == Avg(b.x, b.xEnd)
    <2>1. m \in Int /\ b.x <= m /\ m <= b.xEnd
      BY AvgBetween
    <2>2. m \in Coords
      BY <2>1
    <2>3. /\ LeftHalf(b, axis) = [x |-> b.x, y |-> b.y, xEnd |-> m, yEnd |-> b.yEnd]
          /\ RightHalf(b, axis) = [x |-> m, y |-> b.y, xEnd |-> b.xEnd, yEnd |-> b.yEnd]
      BY <1>2 DEF LeftHalf, RightHalf, Boxes
    <2> HIDE DEF m
    <2>4. LeftHalf(b, axis) \in Boxes /\ RightHalf(b, axis) \in Boxes
      BY <2>1, <2>2, <2>3, CornersMakeBox DEF Box
    <2>5. BoxContains(b, LeftHalf(b, axis)) /\ BoxContains(b, RightHalf(b, axis))
      BY <2>1, <2>3 DEF BoxContains
    <2> QED BY <2>4, <2>5
  <1> QED BY <1>1, <1>2 DEF Axes

(* Insertion and search find the way through a tree by different functions *)
(* (split_enclosed_in_side of BoundingBox at bbox.rs:459, and the default  *)
(* of the trait, which tests the halves).  For every box in the node's     *)
(* they choose the same side and the same half, also for one that touches  *)
(* the line both halves share: what was put there is looked for there.     *)
THEOREM SidesAgree ==
    ASSUME NEW b \in Boxes, NEW c \in Boxes, NEW axis \in Axes, BoxContains(b, c)
    PROVE  SideByMiddle(b, axis, c) = SideByHalves(b, axis, c)
  <1> USE CoordsAreIntegers
  <1>0. /\ b.x \in Int /\ b.y \in Int /\ b.xEnd \in Int /\ b.yEnd \in Int
        /\ c.x \in Int /\ c.y \in Int /\ c.xEnd \in Int /\ c.yEnd \in Int
    BY BoxShape
  <1>1. CASE axis = "Long"
    <2> DEFINE m == Avg(b.y, b.yEnd)
    <2>1. m \in Int /\ b.y <= m /\ m <= b.yEnd
      BY AvgBetween, BoxShape
    <2>2. BoxContains(LeftHalf(b, axis), c) <=> c.yEnd <= m
      BY <1>0, <1>1, <2>1 DEF LeftHalf, BoxContains, Boxes
    <2>3. BoxContains(RightHalf(b, axis), c) <=> c.y >= m
      BY <1>0, <1>1, <2>1 DEF RightHalf, BoxContains, Boxes
    <2> QED BY <1>1, <2>2, <2>3 DEF SideByMiddle, SideByHalves
  <1>2. CASE axis = "Lat"
    <2> DEFINE m == Avg(b.x, b.xEnd)
    <2>1. m \in Int /\ b.x <= m /\ m <= b.xEnd
      BY AvgBetween, BoxShape
    <2>2. BoxContains(LeftHalf(b, axis), c) <=> c.xEnd <= m
      BY <1>0, <1>2, <2>1 DEF LeftHalf, BoxContains, Boxes
    <2>3. BoxContains(RightHalf(b, axis), c) <=> c.x >= m
      BY <1>0, <1>2, <2>1 DEF RightHalf, BoxContains, Boxes
    <2> QED BY <1>2, <2>2, <2>3 DEF SideByMiddle, SideByHalves
  <1> QED BY <1>1, <1>2 DEF Axes

(* A point is never kept by a node that could pass it on: whichever way a  *)
(* box is split, it goes to a half, and the half is a box again.  Elements *)
(* at one place, more than a leaf holds, are passed on together at every   *)
(* level, so no depth is enough for them (dense/tree.rs:454).              *)
THEOREM PointsGoDown ==
    ASSUME NEW b \in Boxes, NEW p \in Boxes, NEW axis \in Axes,
           IsPoint(p), BoxContains(b, p)
    PROVE  LET side == SideByMiddle(b, axis, p)
           IN /\ side[1] # "Split"
              /\ side[2] \in Boxes
              /\ BoxContains(side[2], p)
  <1> DEFINE m == IF axis = "Long" THEN Avg(b.y, b.yEnd) ELSE Avg(b.x, b.xEnd)
             at == IF axis = "Long" THEN p.y ELSE p.x
  <1>0. /\ b.x \in Int /\ b.y \in Int /\ b.xEnd \in Int /\ b.yEnd \in Int
        /\ p.x \in Int /\ p.y \in Int
    BY BoxShape, CoordsAreIntegers
  <1>1. m \in Int /\ at \in Int
    BY <1>0, AvgBetween, BoxShape
  <1>2. SideByMiddle(b, axis, p) =
          IF at <= m THEN <<"Left", LeftHalf(b, axis)>>
          ELSE IF at >= m THEN <<"Right", RightHalf(b, axis)>> ELSE <<"Split", b>>
    BY DEF SideByMiddle, IsPoint
  <1>3. SideByMiddle(b, axis, p) = SideByHalves(b, axis, p)
    BY SidesAgree
  <1>4. CASE at <= m
    <2>1. SideByMiddle(b, axis, p) = <<"Left", LeftHalf(b, axis)>>
      BY <1>2, <1>4
    <2>2. BoxContains(LeftHalf(b, axis), p)
      BY <2>1, <1>3 DEF SideByHalves
    <2> QED BY <2>1, <2>2, HalvesAreBoxes
  <1>5. CASE at > m
    <2>1. SideByMiddle(b, axis, p) = <<"Right", RightHalf(b, axis)>>
      BY <1>1, <1>2, <1>5
    <2>2. BoxContains(RightHalf(b, axis), p)
      BY <2>1, <1>3 DEF SideByHalves
    <2> QED BY <2>1, <2>2, HalvesAreBoxes
  <1> QED BY <1>1, <1>4, <1>5

-----------------------------------------------------------------------------
(* Ranges. *)

Ranges == {r \in Int \X Int : r[1] <= r[2]}

(* The way of a key leads to a half with it (point_range.rs, the key's     *)
(* parent_split_enclosed_in_side): a search by key never leaves its node.  *)
THEOREM KeyInItsSide ==
    ASSUME NEW r \in Ranges, NEW k \in Int, HasKey(r, k)
    PROVE  /\ KeySide(r, k)[2] \in Ranges
           /\ HasKey(KeySide(r, k)[2], k)
           /\ RangeContains(r, KeySide(r, k)[2])
  <1>1. r[1] \in Int /\ r[2] \in Int /\ r[1] <= r[2]
    BY DEF Ranges
  <1>2. Avg(r[1], r[2]) \in Int /\ r[1] <= Avg(r[1], r[2]) /\ Avg(r[1], r[2]) <= r[2]
    BY <1>1, AvgBetween
  <1> QED BY <1>1, <1>2 DEF KeySide, LeftRange, RightRange, HasKey, RangeContains, Ranges

(* The way of a range is the opposite one (point_range.rs:173): unless it  *)
(* is the key in the middle alone, the half it is sent to does not contain *)
(* it, although the other one does.                                        *)
THEOREM RangeSideSwapped ==
    ASSUME NEW r \in Ranges, NEW s \in Ranges, RangeContains(r, s),
           RangeSide(r, s)[1] # "Split",
           s # <<Avg(r[1], r[2]), Avg(r[1], r[2])>>
    PROVE  /\ ~ RangeContains(RangeSide(r, s)[2], s)
           /\ RangeContains(IF RangeSide(r, s)[1] = "Left" THEN RightRange(r)
                            ELSE LeftRange(r), s)
  <1>1. /\ r[1] \in Int /\ r[2] \in Int /\ r[1] <= r[2]
        /\ s[1] \in Int /\ s[2] \in Int /\ s[1] <= s[2] /\ s = <<s[1], s[2]>>
    BY DEF Ranges
  <1>2. Avg(r[1], r[2]) \in Int /\ r[1] <= Avg(r[1], r[2]) /\ Avg(r[1], r[2]) <= r[2]
    BY <1>1, AvgBetween
  <1>3. ~ (s[1] = Avg(r[1], r[2]) /\ s[2] = Avg(r[1], r[2]))
    BY <1>1
  <1> QED BY <1>1, <1>2, <1>3 DEF RangeSide, LeftRange, RightRange, RangeContains

(* A search of a range of keys (overlaps, point_range.rs:161) leaves out a *)
(* node whose range meets it in one key only, so a range of a single key   *)
(* is found in no node, whatever the tree holds.                           *)
THEOREM OneKeyOverlapsNothing ==
    ASSUME NEW r \in Ranges, NEW k \in Int
    PROVE  ~ RangeOverlaps(r, <<k, k>>)
  BY DEF RangeOverlaps, Ranges, Upper, Lower

-----------------------------------------------------------------------------
(* Recursion: functions whose values are defined from those below.         *)

(* A set of naturals that is not empty has a least member.                 *)
LEMMA LeastNat ==
  ASSUME NEW T, T \subseteq Nat, T # {}
  PROVE  \E x \in T : \A y \in T : x <= y
  <1> DEFINE R == OpToRel(<, Nat)
  <1>1. IsWellFoundedOn(R, Nat)
    BY NatLessThanWellFounded
  <1>2. \A x, y \in Nat : <<y, x>> \in R <=> y < x
    BY DEF OpToRel
  <1> HIDE DEF R
  <1>3. PICK x \in T : \A y \in T : ~ (<<y, x>> \in R)
    BY <1>1, WFMin
  <1>4. \A y \in T : ~ (y < x)
    BY <1>2, <1>3
  <1>5. QED
    BY <1>3, <1>4

(* A set of naturals that holds zero and with each of its members below n  *)
(* the next one holds all that are up to n.                                *)
LEMMA Upwards ==
  ASSUME NEW n \in Nat, NEW T, 0 \in T,
         \A i \in 0 .. n - 1 : i \in T => i + 1 \in T
  PROVE  \A i \in 0 .. n : i \in T
  <1> DEFINE Out == {i \in 0 .. n : i \notin T}
  <1>1. SUFFICES ASSUME Out # {} PROVE FALSE
    OBVIOUS
  <1>2. PICK x \in Out : \A y \in Out : x <= y
    <2>1. Out \subseteq Nat
      OBVIOUS
    <2> HIDE DEF Out
    <2>2. QED
      BY <1>1, <2>1, LeastNat
  <1>3. x # 0 /\ x - 1 \in 0 .. n - 1
    BY <1>2
  <1>4. x - 1 \in T
    BY <1>2, <1>3
  <1>5. QED
    BY <1>2, <1>3, <1>4

(* What n steps from b, each a function on S, come to.                     *)
Stepwise(n, S, G) == G \in [1 .. n -> [S -> S]]

IsRun(f, n, S, b, G) ==
    f \in [0 .. n -> S] /\ f[0] = b /\ \A i \in 1 .. n : f[i] = G[i][f[i - 1]]

LEMMA UpwardRecursion ==
  ASSUME NEW n \in Nat, NEW S, NEW b \in S, NEW G, Stepwise(n, S, G)
  PROVE  \E f : IsRun(f, n, S, b, G)
  <1> DEFINE Up(f, k) == f[0] = b /\ \A i \in 1 .. k : f[i] = G[i][f[i - 1]]
             T == {k \in 0 .. n : \E f \in [0 .. k -> S] : Up(f, k)}
  <1>1. 0 \in T
    <2>1. [i \in 0 .. 0 |-> b] \in [0 .. 0 -> S]
      OBVIOUS
    <2>2. Up([i \in 0 .. 0 |-> b], 0)
      OBVIOUS
    <2> HIDE DEF Up
    <2>3. QED
      BY <2>1, <2>2
  <1>2. ASSUME NEW k \in 0 .. n - 1, k \in T PROVE k + 1 \in T
    <2>1. PICK f \in [0 .. k -> S] : Up(f, k)
      BY <1>2
    <2> DEFINE g == [i \in 0 .. k + 1 |-> IF i = k + 1 THEN G[k + 1][f[k]] ELSE f[i]]
    <2>2. G[k + 1][f[k]] \in S
      BY <2>1 DEF Stepwise
    <2>3. g \in [0 .. k + 1 -> S]
      BY <2>1, <2>2
    <2>4. Up(g, k + 1)
      <3>1. g[0] = b
        BY <2>1
      <3>2. \A i \in 1 .. k + 1 : g[i - 1] = f[i - 1]
        OBVIOUS
      <3>3. \A i \in 1 .. k + 1 : g[i] = G[i][f[i - 1]]
        BY <2>1
      <3> HIDE DEF g
      <3>4. QED
        BY <3>1, <3>2, <3>3
    <2> HIDE DEF Up, g
    <2>5. QED
      BY <2>3, <2>4
  <1>3. n \in T
    <2> HIDE DEF T
    <2>1. \A k \in 0 .. n - 1 : k \in T => k + 1 \in T
      BY <1>2
    <2>2. \A k \in 0 .. n : k \in T
      BY <1>1, <2>1, Upwards
    <2>3. QED
      BY <2>2
  <1>4. PICK f \in [0 .. n -> S] : Up(f, n)
    BY <1>3
  <1>5. IsRun(f, n, S, b, G)
    BY <1>4 DEF IsRun
  <1>6. QED
    BY <1>5

(* The steps decide it.                                                    *)
Follows(f, n, S, b, G) ==
    f[0] = b /\ \A i \in 1 .. n : f[i - 1] \in S => f[i] = G[i][f[i - 1]]

LEMMA Determined ==
  ASSUME NEW n \in Nat, NEW S, NEW b \in S, NEW G, Stepwise(n, S, G),
         NEW f, Follows(f, n, S, b, G)
  PROVE  \A i \in 0 .. n : f[i] \in S
  <1> DEFINE T == {i \in 0 .. n : f[i] \in S}
  <1>1. ASSUME NEW i \in 0 .. n - 1, i \in T PROVE i + 1 \in T
    <2> DEFINE k == i + 1
    <2>1. k \in 1 .. n /\ k - 1 = i /\ k \in 0 .. n
      OBVIOUS
    <2> HIDE DEF k
    <2>2. f[k] = G[k][f[k - 1]] /\ f[k - 1] \in S
      BY <1>1, <2>1 DEF Follows
    <2>3. f[k] \in S
      BY <2>1, <2>2 DEF Stepwise
    <2>4. k \in T
      BY <2>1, <2>3
    <2>5. QED
      BY <2>4 DEF k
  <1>2. 0 \in T
    BY DEF Follows
  <1>3. \A i \in 0 .. n - 1 : i \in T => i + 1 \in T
    BY <1>1
  <1> HIDE DEF T
  <1>4. \A i \in 0 .. n : i \in T
    BY <1>2, <1>3, Upwards
  <1>5. QED
    BY <1>4 DEF T

-----------------------------------------------------------------------------
(* Bytes and files.                                                        *)

Byte == 0 .. 255

File == Seq(Byte)

LEMMA BlockWriteFacts == BlockWrite \in Nat \ {0} /\ 0 < BlockWrite
  BY BlockWriteOK, SMT

WordLimit == 1073741824   \* what four bytes hold of which the last is below 64

LEMMA BlockWriteLimit ==
  ASSUME NEW n \in Nat, n <= 1030 * BlockWrite
  PROVE  n < WordLimit
  BY BlockWriteOK, SMT DEF WordLimit

LEMMA FileFacts ==
  ASSUME NEW file \in File
  PROVE  /\ Len(file) \in Nat /\ DOMAIN file = 1 .. Len(file)
         /\ \A i \in 1 .. Len(file) : file[i] \in Byte
  BY LenProperties, ElementOfSeq DEF File

LEMMA MakesFile ==
  ASSUME NEW n \in Nat, NEW f \in [1 .. n -> Byte]
  PROVE  f \in File /\ Len(f) = n
  BY DEF File

LEMMA WriteAtFacts ==
  ASSUME NEW file \in File, NEW at \in 0 .. Len(file), NEW bytes \in File
  PROVE  LET new == WriteAt(file, at, bytes)
         IN  /\ new \in File
             /\ Len(file) <= Len(new) /\ at + Len(bytes) <= Len(new)
             /\ \A i \in 1 .. at : new[i] = file[i]
             /\ \A i \in 1 .. Len(bytes) : new[at + i] = bytes[i]
             /\ \A i \in at + Len(bytes) + 1 .. Len(file) : new[i] = file[i]
  <1> DEFINE n == Upper(Len(file), at + Len(bytes))
             f == [i \in 1 .. n |-> IF at < i /\ i <= at + Len(bytes)
                                    THEN bytes[i - at] ELSE file[i]]
  <1>1. Len(file) \in Nat /\ Len(bytes) \in Nat /\ at \in Nat /\ at <= Len(file)
    BY FileFacts
  <1>2. n \in Nat /\ Len(file) <= n /\ at + Len(bytes) <= n
        /\ (n = Len(file) \/ n = at + Len(bytes))
    BY <1>1 DEF Upper
  <1>3. WriteAt(file, at, bytes) = f
    BY DEF WriteAt
  <1> HIDE DEF n
  <1>4. ASSUME NEW i \in 1 .. n PROVE f[i] \in Byte
    <2>1. CASE at < i /\ i <= at + Len(bytes)
      <3>1. i - at \in 1 .. Len(bytes)
        BY <1>1, <1>2, <2>1
      <3>2. QED
        BY <2>1, <3>1, FileFacts
    <2>2. CASE ~ (at < i /\ i <= at + Len(bytes))
      <3>1. i \in 1 .. Len(file)
        BY <1>1, <1>2, <2>2
      <3>2. QED
        BY <2>2, <3>1, FileFacts
    <2>3. QED
      BY <2>1, <2>2
  <1>5. f \in File /\ Len(f) = n
    <2>1. f \in [1 .. n -> Byte]
      BY <1>4
    <2> HIDE DEF f
    <2>2. QED
      BY <1>2, <2>1, MakesFile
  <1>6. \A i \in 1 .. at : f[i] = file[i]
    BY <1>1, <1>2
  <1>7. ASSUME NEW i \in 1 .. Len(bytes) PROVE f[at + i] = bytes[i]
    <2>1. at + i \in 1 .. n /\ at < at + i /\ at + i <= at + Len(bytes) /\ at + i - at = i
      BY <1>1, <1>2
    <2>2. QED
      BY <2>1
  <1>8. \A i \in at + Len(bytes) + 1 .. Len(file) : f[i] = file[i]
    BY <1>1, <1>2
  <1> HIDE DEF f
  <1>9. QED
    BY <1>2, <1>3, <1>5, <1>6, <1>7, <1>8

(* Numbers below a power of 256 are the sums of their bytes. *)
LEMMA SumOfBytes ==
  ASSUME NEW n \in Int, NEW q1 \in Int, NEW q2 \in Int, NEW q3 \in Int,
         NEW r0 \in Int, NEW r1 \in Int, NEW r2 \in Int,
         n = 256 * q1 + r0, q1 = 256 * q2 + r1, q2 = 256 * q3 + r2
  PROVE  n = r0 + 256 * r1 + 65536 * r2 + 16777216 * q3
  BY SMT

LEMMA WordIsNat ==
  ASSUME NEW a \in Nat, NEW b \in Nat, NEW c \in Nat, NEW d \in Nat
  PROVE  a + 256 * b + 65536 * c + 16777216 * (d % 64) \in Nat
  <1>1. d % 64 \in Nat
    OBVIOUS
  <1> DEFINE e == d % 64
  <1> HIDE DEF e
  <1>2. a + 256 * b + 65536 * c + 16777216 * e \in Nat
    BY <1>1, SMT DEF e
  <1>3. QED
    BY <1>2 DEF e

LEMMA DivBy256 ==
  ASSUME NEW n \in Nat
  PROVE  n \div 256 \in Nat /\ n = 256 * (n \div 256) + (n % 256)
  OBVIOUS

LEMMA DivTwice ==
  ASSUME NEW n \in Nat
  PROVE  /\ (n \div 256) \div 256 = n \div 65536
         /\ (n \div 65536) \div 256 = n \div 16777216
  BY SMT

LEMMA SmallByte ==
  ASSUME NEW d \in Nat, d < 64
  PROVE  d % 64 = d
  OBVIOUS

(* The word at a place in a file. *)
WordIn(file, a) == WordOf(SubSeq(file, a + 1, Len(file)))

Bytes4(f, a) == f[a + 1] + 256 * f[a + 2] + 65536 * f[a + 3] + 16777216 * (f[a + 4] % 64)

LEMMA WordInFacts ==
  ASSUME NEW file \in File, NEW a \in Nat
  PROVE  /\ WordIn(file, a) \in Nat
         /\ a + 4 <= Len(file) => WordIn(file, a) = Bytes4(file, a)
  <1> DEFINE s == SubSeq(file, a + 1, Len(file))
  <1>1. Len(file) \in Nat /\ \A i \in 1 .. Len(file) : file[i] \in Byte
    BY FileFacts
  <1>2. /\ s \in File
        /\ Len(s) = IF a + 1 <= Len(file) THEN Len(file) - (a + 1) + 1 ELSE 0
        /\ \A i \in 1 .. Len(file) - (a + 1) + 1 : s[i] = file[a + 1 + i - 1]
    BY <1>1, SubSeqProperties DEF File
  <1> HIDE DEF s
  <1>3. Len(s) \in Nat /\ \A i \in 1 .. Len(s) : s[i] \in Byte
    BY <1>2, FileFacts
  <1> DEFINE byte(i) == IF i <= Len(s) THEN s[i] ELSE 0
  <1>4. WordIn(file, a) = byte(1) + 256 * byte(2) + 65536 * byte(3) + 16777216 * (byte(4) % 64)
    BY SMT DEF WordIn, WordOf, s
  <1>5. ASSUME NEW i \in 1 .. 4 PROVE byte(i) \in Nat
    <2>1. i <= Len(s) => s[i] \in Nat
      <3>1. i <= Len(s) => i \in 1 .. Len(s)
        BY <1>3
      <3>2. Byte \subseteq Nat
        BY DEF Byte
      <3>3. QED
        BY <1>3, <3>1, <3>2
    <2>2. QED
      BY <2>1
  <1>6. \A i \in 1 .. 4 : a + 4 <= Len(file) => byte(i) = file[a + i]
    BY <1>1, <1>2
  <1> HIDE DEF byte
  <1>7. byte(1) \in Nat /\ byte(2) \in Nat /\ byte(3) \in Nat /\ byte(4) \in Nat
    BY <1>5
  <1>8. a + 4 <= Len(file) => /\ byte(1) = file[a + 1] /\ byte(2) = file[a + 2]
                              /\ byte(3) = file[a + 3] /\ byte(4) = file[a + 4]
    BY <1>6
  <1>9. WordIn(file, a) \in Nat
    BY <1>4, <1>7, WordIsNat
  <1>10. a + 4 <= Len(file) => WordIn(file, a) = Bytes4(file, a)
    BY <1>4, <1>8 DEF Bytes4
  <1>11. QED
    BY <1>9, <1>10

(* The size written in a header is the one that is read. *)
LEMMA SizeIsRead ==
  ASSUME NEW file \in File, NEW a \in Nat, a + 8 <= Len(file),
         NEW n \in Nat, n < WordLimit,
         \A i \in 1 .. 8 : file[a + i] = WordBytes(n)[i]
  PROVE  WordIn(file, a) = n
  <1>1. /\ file[a + 1] = n % 256 /\ file[a + 2] = (n \div 256) % 256
        /\ file[a + 3] = (n \div 65536) % 256 /\ file[a + 4] = n \div 16777216
    BY SMT DEF WordBytes
  <1>2. Len(file) \in Nat
    BY FileFacts
  <1>3. a + 4 <= Len(file)
    BY <1>2
  <1>4. WordIn(file, a) = file[a + 1] + 256 * file[a + 2] + 65536 * file[a + 3]
                          + 16777216 * (file[a + 4] % 64)
    <2>1. WordIn(file, a) = Bytes4(file, a)
      BY <1>3, WordInFacts
    <2>2. QED
      BY <2>1 DEF Bytes4
  <1> DEFINE q1 == n \div 256
             q2 == q1 \div 256
             q3 == q2 \div 256
  <1>5. q1 = n \div 256 /\ q2 = n \div 65536 /\ q3 = n \div 16777216
    <2>1. q2 = n \div 65536
      BY DivTwice, SMTT(20)
    <2>2. q3 = (n \div 65536) \div 256
      <3> HIDE DEF q2
      <3>1. QED
        BY <2>1
    <2>3. q3 = n \div 16777216
      <3> DEFINE x == (n \div 65536) \div 256
                 y == n \div 16777216
      <3>1. x = y
        BY DivTwice, SMTT(20)
      <3> HIDE DEF x, y, q3
      <3>2. q3 = x
        BY <2>2 DEF x
      <3>3. q3 = y
        BY <3>1, <3>2
      <3>4. QED
        BY <3>3 DEF y
    <2>4. QED
      BY <2>1, <2>3
  <1>6. /\ q1 \in Nat /\ q2 \in Nat /\ q3 \in Nat /\ n = 256 * q1 + (n % 256)
        /\ q1 = 256 * q2 + (q1 % 256) /\ q2 = 256 * q3 + (q2 % 256)
    <2>1. q1 \in Nat /\ n = 256 * q1 + (n % 256)
      BY DivBy256
    <2> HIDE DEF q1
    <2>2. q2 \in Nat /\ q1 = 256 * q2 + (q1 % 256)
      <3>1. q1 \in Nat
        BY <2>1
      <3>2. QED
        BY <3>1, DivBy256, Zenon
    <2> HIDE DEF q2
    <2>3. q3 \in Nat /\ q2 = 256 * q3 + (q2 % 256)
      <3>1. q2 \in Nat
        BY <2>2
      <3>2. QED
        BY <3>1, DivBy256, Zenon
    <2>4. QED
      BY <2>1, <2>2, <2>3
  <1>7. q3 < 64
    BY SMT DEF WordLimit
  <1> HIDE DEF q1, q2, q3
  <1>8. q3 % 64 = q3
    BY <1>6, <1>7, SmallByte
  <1>9. WordIn(file, a) = (n % 256) + 256 * (q1 % 256) + 65536 * (q2 % 256) + 16777216 * q3
    BY <1>1, <1>4, <1>5, <1>8, SMT
  <1> DEFINE r0 == n % 256
             r1 == q1 % 256
             r2 == q2 % 256
             w == WordIn(file, a)
  <1>10. r0 \in Int /\ r1 \in Int /\ r2 \in Int
    BY <1>6
  <1>11. /\ n = 256 * q1 + r0 /\ q1 = 256 * q2 + r1 /\ q2 = 256 * q3 + r2
         /\ w = r0 + 256 * r1 + 65536 * r2 + 16777216 * q3
    BY <1>6, <1>9, SMT
  <1> HIDE DEF r0, r1, r2, w
  <1>12. w = n
    BY <1>6, <1>10, <1>11, SumOfBytes, SMT
  <1>13. QED
    BY <1>12 DEF w

LEMMA WordBytesFile ==
  ASSUME NEW n \in Nat, n < WordLimit
  PROVE  WordBytes(n) \in File /\ Len(WordBytes(n)) = 8
  <1>1. /\ n % 256 \in Byte /\ (n \div 256) % 256 \in Byte /\ (n \div 65536) % 256 \in Byte
        /\ n \div 16777216 \in Byte /\ 0 \in Byte
    BY SMT DEF Byte, WordLimit
  <1> DEFINE a == n % 256
             b == (n \div 256) % 256
             c == (n \div 65536) % 256
             d == n \div 16777216
  <1>2. WordBytes(n) = <<a, b, c, d, 0, 0, 0, 0>>
    BY SMT DEF WordBytes
  <1>3. a \in Byte /\ b \in Byte /\ c \in Byte /\ d \in Byte
    BY <1>1, SMT
  <1> HIDE DEF a, b, c, d
  <1>4. QED
    BY <1>1, <1>2, <1>3, SMT DEF File

-----------------------------------------------------------------------------
(* The blocks of a pool's file.                                            *)

(* at gives where the first k blocks begin, by the sizes in the file, and  *)
(* where the one after them does.                                          *)
IsWalk(file, at, k) ==
    /\ at \in [0 .. k -> Nat] /\ at[0] = 0
    /\ \A n \in 1 .. k : at[n] = at[n - 1] + HeaderSize + WordIn(file, at[n - 1])

LEMMA WalkFacts ==
  ASSUME NEW file, NEW k \in Nat, NEW at, IsWalk(file, at, k)
  PROVE  /\ at[0] = 0 /\ at[k] \in Nat /\ \A n \in 0 .. k : at[n] \in Nat
         /\ \A n \in 1 .. k : at[n] = at[n - 1] + HeaderSize + WordIn(file, at[n - 1])
  <1>1. at \in [0 .. k -> Nat]
    BY DEF IsWalk
  <1>2. QED
    BY <1>1 DEF IsWalk

(* BlockAt takes the walk. *)
LEMMA BlockAtWalks ==
  ASSUME NEW p, p.file \in File, NEW k \in Nat
  PROVE  \E at : IsWalk(p.file, at, k) /\ BlockAt(p, k) = at[k]
  <1> DEFINE G == [n \in 1 .. k |-> [x \in Nat |-> x + HeaderSize + WordIn(p.file, x)]]
             Body(n, h) == IF n = 0 THEN 0
                           ELSE h[n - 1] + HeaderSize + WordOf(FileFrom(p, h[n - 1]))
             at == CHOOSE h : h = [n \in 0 .. k |-> Body(n, h)]
  <1>1. Stepwise(k, Nat, G)
    <2>1. \A x \in Nat : x + HeaderSize + WordIn(p.file, x) \in Nat
      BY WordInFacts DEF HeaderSize
    <2>2. QED
      BY <2>1 DEF Stepwise
  <1>2. PICK f \in [0 .. k -> Nat] : f[0] = 0 /\ \A n \in 1 .. k : f[n] = G[n][f[n - 1]]
    <2> DEFINE Z == Nat
               z == 0
    <2>1. Stepwise(k, Z, G) /\ z \in Z
      BY <1>1
    <2> HIDE DEF G, Z, z
    <2>2. PICK f : IsRun(f, k, Z, z, G)
      BY <2>1, UpwardRecursion
    <2>3. QED
      BY <2>2 DEF IsRun, Z, z
  <1>3. \A h : \A n \in 1 .. k : Body(n, h) = h[n - 1] + HeaderSize + WordIn(p.file, h[n - 1])
    BY DEF WordIn, FileFrom
  <1>4. f = [n \in 0 .. k |-> Body(n, f)]
    <2>1. ASSUME NEW n \in 0 .. k PROVE f[n] = Body(n, f)
      <3>1. CASE n = 0
        BY <1>2, <3>1
      <3>2. CASE n # 0
        <4>1. n \in 1 .. k /\ f[n - 1] \in Nat
          BY <3>2
        <4> HIDE DEF Body
        <4>2. QED
          BY <1>2, <1>3, <4>1
      <3>3. QED
        BY <3>1, <3>2
    <2> HIDE DEF Body
    <2>2. QED
      BY <2>1
  <1>5. at = [n \in 0 .. k |-> Body(n, at)]
    <2> HIDE DEF Body
    <2>1. QED
      BY <1>4
  <1>6. BlockAt(p, k) = at[k]
    BY DEF BlockAt
  <1> HIDE DEF at
  <1>7. at[0] = 0 /\ \A n \in 1 .. k : at[n] = at[n - 1] + HeaderSize + WordIn(p.file, at[n - 1])
    <2>1. at[0] = Body(0, at)
      <3> HIDE DEF Body
      <3>1. QED
        BY <1>5
    <2>2. \A n \in 1 .. k : at[n] = Body(n, at)
      <3> HIDE DEF Body
      <3>1. QED
        BY <1>5
    <2>3. Body(0, at) = 0
      OBVIOUS
    <2> HIDE DEF Body
    <2>4. QED
      BY <1>3, <2>1, <2>2, <2>3
  <1>8. \A n \in 0 .. k : at[n] \in Nat
    <2>1. \A n \in 1 .. k : at[n - 1] \in Nat => at[n] = G[n][at[n - 1]]
      BY <1>7
    <2> DEFINE Z == Nat
               z == 0
    <2>2. Stepwise(k, Z, G) /\ z \in Z /\ at[0] = z
      BY <1>1, <1>7
    <2>3. Follows(at, k, Z, z, G)
      <3>1. \A n \in 1 .. k : at[n - 1] \in Z => at[n] = G[n][at[n - 1]]
        BY <2>1
      <3> HIDE DEF G, Z, z
      <3>2. QED
        BY <2>2, <3>1 DEF Follows
    <2> HIDE DEF G, Z, z
    <2>4. \A n \in 0 .. k : at[n] \in Z
      BY <2>2, <2>3, Determined
    <2>5. QED
      BY <2>4 DEF Z
  <1>9. at \in [0 .. k -> Nat]
    <2> HIDE DEF Body
    <2>1. QED
      BY <1>5, <1>8
  <1>10. QED
    BY <1>6, <1>7, <1>9 DEF IsWalk

(* Each block begins behind the header of the one before it. *)
LEMMA WalkGrows ==
  ASSUME NEW file \in File, NEW k \in Nat, NEW at, IsWalk(file, at, k)
  PROVE  \A n \in 0 .. k - 1 : at[n] + 8 <= at[k]
  <1> DEFINE T == {i \in 0 .. k : at[k - i] <= at[k] /\ (i # 0 => at[k - i] + 8 <= at[k])}
  <1>1. \A n \in 0 .. k : at[n] \in Nat
    BY WalkFacts
  <1>2. ASSUME NEW i \in 0 .. k - 1, i \in T PROVE i + 1 \in T
    <2> DEFINE n == k - i
    <2>1. n \in 1 .. k /\ n - 1 = k - (i + 1) /\ n - 1 \in 0 .. k /\ i + 1 \in 0 .. k
      OBVIOUS
    <2>2. at[n] <= at[k]
      BY <1>2
    <2> HIDE DEF n
    <2>3. at[n] = at[n - 1] + HeaderSize + WordIn(file, at[n - 1])
      BY <2>1, WalkFacts
    <2>4. at[n - 1] \in Nat /\ at[n] \in Nat /\ at[k] \in Nat
      BY <1>1, <2>1
    <2>5. WordIn(file, at[n - 1]) \in Nat
      <3> DEFINE a == at[n - 1]
      <3>1. a \in Nat
        BY <2>4
      <3> HIDE DEF a
      <3>2. WordIn(file, a) \in Nat
        BY <3>1, WordInFacts
      <3>3. QED
        BY <3>2 DEF a
    <2>6. at[n - 1] + 8 <= at[k] /\ at[n - 1] <= at[k]
      BY <2>2, <2>3, <2>4, <2>5 DEF HeaderSize
    <2>7. QED
      BY <2>1, <2>6
  <1>3. 0 \in T
    BY <1>1
  <1>4. \A i \in 0 .. k : i \in T
    <2>1. \A i \in 0 .. k - 1 : i \in T => i + 1 \in T
      BY <1>2
    <2> HIDE DEF T
    <2>2. QED
      BY <1>3, <2>1, Upwards
  <1>5. ASSUME NEW n \in 0 .. k - 1 PROVE at[n] + 8 <= at[k]
    <2>1. k - n \in 0 .. k /\ k - n # 0 /\ k - (k - n) = n
      OBVIOUS
    <2>2. QED
      BY <1>4, <2>1
  <1>6. QED
    BY <1>5

(* What is written behind the blocks leaves the walk as it was. *)
LEMMA WalkKept ==
  ASSUME NEW file \in File, NEW new \in File, NEW k \in Nat, NEW at, IsWalk(file, at, k),
         at[k] <= Len(file), at[k] <= Len(new),
         \A i \in 1 .. at[k] : new[i] = file[i]
  PROVE  IsWalk(new, at, k)
  <1>1. ASSUME NEW n \in 1 .. k PROVE WordIn(new, at[n - 1]) = WordIn(file, at[n - 1])
    <2> DEFINE a == at[n - 1]
    <2>1. a \in Nat /\ at[k] \in Nat /\ n - 1 \in 0 .. k - 1
      <3>1. n - 1 \in 0 .. k /\ k \in 0 .. k /\ n - 1 \in 0 .. k - 1
        OBVIOUS
      <3>2. QED
        BY <3>1, WalkFacts
    <2>2. a + 8 <= at[k]
      BY <2>1, WalkGrows
    <2> HIDE DEF a
    <2>3. Len(file) \in Nat /\ Len(new) \in Nat
      BY FileFacts
    <2>4. /\ a + 4 <= Len(file) /\ a + 4 <= Len(new)
          /\ a + 1 \in 1 .. at[k] /\ a + 2 \in 1 .. at[k]
          /\ a + 3 \in 1 .. at[k] /\ a + 4 \in 1 .. at[k]
      BY <2>1, <2>2, <2>3
    <2>5. /\ new[a + 1] = file[a + 1] /\ new[a + 2] = file[a + 2]
          /\ new[a + 3] = file[a + 3] /\ new[a + 4] = file[a + 4]
      BY <2>4
    <2>6. WordIn(file, a) = Bytes4(file, a) /\ WordIn(new, a) = Bytes4(new, a)
      BY <2>1, <2>4, WordInFacts
    <2>7. QED
      BY <2>5, <2>6 DEF a, Bytes4
  <1>2. QED
    BY <1>1 DEF IsWalk

(* One block more. *)
On(at, k, e) == [n \in 0 .. k + 1 |-> IF n = k + 1 THEN e ELSE at[n]]

LEMMA WalkOn ==
  ASSUME NEW file, NEW k \in Nat, NEW at, IsWalk(file, at, k), NEW e \in Nat,
         e = at[k] + HeaderSize + WordIn(file, at[k])
  PROVE  IsWalk(file, On(at, k, e), k + 1) /\ On(at, k, e)[k + 1] = e
  <1> DEFINE on == [n \in 0 .. k + 1 |-> IF n = k + 1 THEN e ELSE at[n]]
  <1>1. /\ \A n \in 0 .. k : n \in 0 .. k + 1 /\ n # k + 1 /\ at[n] \in Nat
        /\ \A n \in 0 .. k + 1 : n # k + 1 => n \in 0 .. k
    BY DEF IsWalk
  <1>2. on \in [0 .. k + 1 -> Nat]
    BY <1>1
  <1>3. on[0] = 0 /\ on[k + 1] = e /\ \A n \in 0 .. k : on[n] = at[n]
    BY <1>1 DEF IsWalk
  <1> HIDE DEF on
  <1>4. ASSUME NEW n \in 1 .. k + 1
        PROVE  on[n] = on[n - 1] + HeaderSize + WordIn(file, on[n - 1])
    <2>1. CASE n = k + 1
      BY <1>3, <2>1
    <2>2. CASE n # k + 1
      <3>1. n \in 1 .. k /\ n \in 0 .. k /\ n - 1 \in 0 .. k
        BY <2>2
      <3>2. QED
        BY <1>3, <3>1 DEF IsWalk
    <2>3. QED
      BY <2>1, <2>2
  <1>5. QED
    BY <1>2, <1>3, <1>4 DEF IsWalk, On, on

(* There is one walk only. *)
LEMMA WalkIsOne ==
  ASSUME NEW file, NEW k \in Nat, NEW f, NEW g, IsWalk(file, f, k), IsWalk(file, g, k)
  PROVE  f[k] = g[k]
  <1> DEFINE T == {i \in 0 .. k : f[i] = g[i]}
  <1>1. ASSUME NEW i \in 0 .. k - 1, i \in T PROVE i + 1 \in T
    <2>1. i + 1 \in 1 .. k /\ i + 1 - 1 = i /\ i + 1 \in 0 .. k
      OBVIOUS
    <2>2. /\ f[i + 1] = f[i] + HeaderSize + WordIn(file, f[i])
          /\ g[i + 1] = g[i] + HeaderSize + WordIn(file, g[i])
      BY <2>1 DEF IsWalk
    <2>3. QED
      BY <1>1, <2>1, <2>2
  <1>2. 0 \in T
    BY DEF IsWalk
  <1>3. \A i \in 0 .. k - 1 : i \in T => i + 1 \in T
    BY <1>1
  <1> HIDE DEF T
  <1>4. k \in T
    BY <1>2, <1>3, Upwards
  <1>5. QED
    BY <1>4 DEF T

-----------------------------------------------------------------------------
(* Pools that are written and not read from.                               *)

MaxBlob == 1030   \* a known field with the longest value

Blobs == {b \in File : Len(b) <= MaxBlob}

Pools == [file : File, cursor : Nat, valueCount : Nat, blockValues : Nat,
          blockSize : Nat, firstIndex : Nat, recentWrites : Seq(File \X Nat),
          recentReads : {<<>>}]

(* The first k blocks are whole, and the cursor is at the end of the next. *)
Holds(p, k, at) ==
    /\ IsWalk(p.file, at, k)
    /\ p.firstIndex = k * BlockWrite
    /\ at[k] + HeaderSize + p.blockSize = p.cursor
    /\ p.cursor <= Len(p.file)
    /\ p.blockSize <= MaxBlob * p.blockValues

GoodPools == {p \in Pools : /\ p.blockValues < BlockWrite
                            /\ \E k \in Nat : \E at : Holds(p, k, at)}

LEMMA PoolFacts ==
  ASSUME NEW p \in Pools
  PROVE  /\ p.file \in File /\ p.cursor \in Nat /\ p.valueCount \in Nat
         /\ p.blockValues \in Nat /\ p.blockSize \in Nat /\ p.firstIndex \in Nat
         /\ p.recentWrites \in Seq(File \X Nat) /\ p.recentReads = <<>>
         /\ Len(p.file) \in Nat
  <1>1. /\ p.file \in File /\ p.cursor \in Nat /\ p.valueCount \in Nat
        /\ p.blockValues \in Nat /\ p.blockSize \in Nat /\ p.firstIndex \in Nat
        /\ p.recentWrites \in Seq(File \X Nat) /\ p.recentReads = <<>>
    BY DEF Pools
  <1>2. QED
    BY <1>1, FileFacts

(* The fields of a pool after a value is written. *)
Written(p, file, cursor, count, writes, size, in) ==
    [p EXCEPT !.file = file, !.cursor = cursor, !.valueCount = count,
              !.recentWrites = writes, !.blockSize = size, !.blockValues = in]

(* A pool is good when it is begun, on whatever file. *)
LEMMA NewPoolIsGood ==
  ASSUME NEW file \in File
  PROVE  NewPool(file) \in GoodPools
  <1> DEFINE new == WriteAt(file, 0, WordBytes(0))
             at == [n \in 0 .. 0 |-> 0]
             p == [file |-> new, cursor |-> HeaderSize,
                   valueCount |-> 0, blockValues |-> 0, blockSize |-> 0, firstIndex |-> 0,
                   recentWrites |-> <<>>, recentReads |-> <<>>]
  <1>1. NewPool(file) = p
    BY DEF NewPool
  <1>2. new \in File /\ Len(new) \in Nat /\ 8 <= Len(new)
    <2>1. WordBytes(0) \in File /\ Len(WordBytes(0)) = 8
      BY WordBytesFile, SMT DEF WordLimit
    <2>2. 0 \in 0 .. Len(file)
      BY FileFacts
    <2>3. new \in File /\ 0 + 8 <= Len(new)
      BY <2>1, <2>2, WriteAtFacts
    <2> HIDE DEF new
    <2>4. QED
      BY <2>3, FileFacts
  <1> HIDE DEF new
  <1>3. p \in Pools
    <2>1. <<>> \in Seq(File \X Nat)
      BY EmptySeq
    <2>2. QED
      BY <1>2, <2>1 DEF Pools, HeaderSize
  <1>4. IsWalk(new, at, 0) /\ at[0] = 0
    BY DEF IsWalk
  <1> HIDE DEF at
  <1>5. 0 * BlockWrite = 0 /\ 0 < BlockWrite
    BY BlockWriteFacts
  <1>6. Holds(p, 0, at)
    BY <1>2, <1>4, <1>5 DEF Holds, HeaderSize, MaxBlob
  <1>7. p.blockValues < BlockWrite
    BY <1>5
  <1> HIDE DEF p
  <1>8. QED
    BY <1>1, <1>3, <1>6, <1>7 DEF GoodPools

(* A full block gets its size, and then the walk goes past it. *)
LEMMA PostInsertIsGood ==
  ASSUME NEW p \in Pools, p.blockValues <= BlockWrite,
         NEW k \in Nat, NEW at, Holds(p, k, at)
  PROVE  PostInsert(p) \in GoodPools
  <1>1. /\ p.file \in File /\ p.cursor \in Nat /\ p.valueCount \in Nat
        /\ p.blockValues \in Nat /\ p.blockSize \in Nat /\ p.firstIndex \in Nat
        /\ Len(p.file) \in Nat
    BY PoolFacts
  <1>2. CASE p.blockValues < BlockWrite
    <2>1. PostInsert(p) = p
      BY <1>2 DEF PostInsert
    <2>2. QED
      BY <1>2, <2>1 DEF GoodPools
  <1>3. CASE ~ (p.blockValues < BlockWrite)
    <2> DEFINE h == p.cursor - p.blockSize - HeaderSize
               size == p.blockSize
               end == p.cursor
               file1 == WriteAt(p.file, h, WordBytes(size))
               file2 == WriteAt(file1, end, WordBytes(0))
               q == PostInsert(p)
    <2>1. /\ p.blockValues = BlockWrite /\ BlockWrite \in Nat
          /\ h \in Nat /\ size \in Nat /\ end \in Nat /\ Len(p.file) \in Nat
          /\ end = h + 8 + size /\ end <= Len(p.file) /\ size < WordLimit /\ at[k] = h
      <3>1. p.blockValues = BlockWrite /\ BlockWrite \in Nat
        BY <1>1, <1>3, BlockWriteFacts
      <3>2. at[k] \in Nat
        <4>1. IsWalk(p.file, at, k)
          BY DEF Holds
        <4>2. QED
          BY <4>1, WalkFacts
      <3>3. /\ at[k] + HeaderSize + size = end /\ end <= Len(p.file)
            /\ size <= MaxBlob * p.blockValues
        BY DEF Holds
      <3>4. size \in Nat /\ end \in Nat /\ h = end - size - HeaderSize /\ Len(p.file) \in Nat
        BY <1>1
      <3> HIDE DEF h, size, end
      <3>5. size < WordLimit
        BY <3>1, <3>3, <3>4, BlockWriteLimit DEF MaxBlob
      <3>6. at[k] = h
        BY <3>2, <3>3, <3>4 DEF HeaderSize
      <3>7. QED
        BY <3>1, <3>2, <3>3, <3>4, <3>5, <3>6 DEF HeaderSize
    <2>2. q = [p EXCEPT !.file = file2, !.cursor = @ + HeaderSize,
                        !.firstIndex = @ + p.blockValues,
                        !.blockSize = 0, !.blockValues = 0]
      BY <1>3, SMT DEF PostInsert
    <2> HIDE DEF h, size, end, file1, file2, q
    <2>3. /\ file1 \in File /\ Len(file1) \in Nat /\ end <= Len(file1)
          /\ \A i \in 1 .. h : file1[i] = p.file[i]
          /\ \A i \in 1 .. 8 : file1[h + i] = WordBytes(size)[i]
      <3>1. WordBytes(size) \in File /\ Len(WordBytes(size)) = 8
        BY <2>1, WordBytesFile
      <3>2. p.file \in File /\ h \in 0 .. Len(p.file)
        BY <1>1, <2>1
      <3> DEFINE word == WordBytes(size)
                 file0 == p.file
      <3>3. /\ file1 \in File /\ Len(p.file) <= Len(file1)
            /\ \A i \in 1 .. h : file1[i] = p.file[i]
            /\ \A i \in 1 .. 8 : file1[h + i] = WordBytes(size)[i]
        <4>1. file1 = WriteAt(file0, h, word)
          BY DEF file1
        <4>2. word \in File /\ Len(word) = 8 /\ file0 \in File /\ h \in 0 .. Len(file0)
          BY <3>1, <3>2
        <4> HIDE DEF word, file0
        <4>3. /\ file1 \in File /\ Len(file0) <= Len(file1)
              /\ \A i \in 1 .. h : file1[i] = file0[i]
              /\ \A i \in 1 .. Len(word) : file1[h + i] = word[i]
          BY <4>1, <4>2, WriteAtFacts
        <4>4. QED
          BY <4>2, <4>3 DEF word, file0
      <3>4. Len(file1) \in Nat
        BY <3>3, FileFacts
      <3>5. end <= Len(file1)
        <4>1. Len(p.file) <= Len(file1) /\ end <= Len(p.file)
          BY <2>1, <3>3
        <4>2. Len(p.file) \in Nat /\ end \in Nat
          BY <2>1
        <4>3. QED
          BY <3>4, <4>1, <4>2
      <3>6. QED
        BY <3>3, <3>4, <3>5
    <2>4. /\ file2 \in File /\ Len(file2) \in Nat /\ end + 8 <= Len(file2)
          /\ \A i \in 1 .. end : file2[i] = file1[i]
      <3>1. WordBytes(0) \in File /\ Len(WordBytes(0)) = 8
        BY WordBytesFile, SMT DEF WordLimit
      <3>2. end \in 0 .. Len(file1)
        BY <2>1, <2>3
      <3>3. /\ file2 \in File /\ end + 8 <= Len(file2)
            /\ \A i \in 1 .. end : file2[i] = file1[i]
        BY <2>3, <3>1, <3>2, WriteAtFacts DEF file2
      <3>4. QED
        BY <3>3, FileFacts
    <2>5. \A i \in 1 .. h : file2[i] = p.file[i]
      <3>1. \A i \in 1 .. h : i \in 1 .. end
        BY <2>1
      <3>2. QED
        BY <2>3, <2>4, <3>1
    <2>6. IsWalk(file2, at, k)
      <3>1. IsWalk(p.file, at, k)
        BY DEF Holds
      <3>2. h <= Len(p.file) /\ h <= Len(file2)
        BY <2>1, <2>4
      <3>3. p.file \in File
        BY <1>1
      <3>4. QED
        BY <2>1, <2>4, <2>5, <3>1, <3>2, <3>3, WalkKept
    <2>7. WordIn(file2, h) = size
      <3>1. h + 8 <= Len(file2)
        BY <2>1, <2>4
      <3>2. \A i \in 1 .. 8 : h + i \in 1 .. end
        BY <2>1
      <3>3. \A i \in 1 .. 8 : file2[h + i] = WordBytes(size)[i]
        BY <2>3, <2>4, <3>2
      <3>4. QED
        BY <2>1, <2>4, <3>1, <3>3, SizeIsRead
    <2> DEFINE on == On(at, k, end)
    <2>8. IsWalk(file2, on, k + 1) /\ on[k + 1] = end
      <3>1. end = at[k] + HeaderSize + WordIn(file2, at[k])
        BY <2>1, <2>7 DEF HeaderSize
      <3>2. \A e \in Nat : e = at[k] + HeaderSize + WordIn(file2, at[k])
                            => IsWalk(file2, On(at, k, e), k + 1) /\ On(at, k, e)[k + 1] = e
        BY <2>6, WalkOn
      <3>3. QED
        BY <2>1, <3>1, <3>2
    <2> HIDE DEF on
    <2>9. /\ q.file = file2 /\ q.cursor = end + 8 /\ q.firstIndex = p.firstIndex + BlockWrite
          /\ q.blockSize = 0 /\ q.blockValues = 0 /\ q.valueCount = p.valueCount
          /\ q.recentWrites = p.recentWrites /\ q.recentReads = p.recentReads
      BY <2>1, <2>2 DEF Pools, HeaderSize, end
    <2>10. q \in Pools
      <3>1. q.cursor \in Nat /\ q.firstIndex \in Nat /\ q.file \in File
        <4>1. q.cursor \in Nat
          BY <2>1, <2>9
        <4>2. q.firstIndex \in Nat
          BY <1>1, <2>1, <2>9
        <4>3. QED
          BY <2>4, <2>9, <4>1, <4>2
      <3>2. QED
        BY <2>1, <2>2, <2>4, <3>1 DEF Pools, HeaderSize
    <2>11. Holds(q, k + 1, on)
      <3>1. p.firstIndex + BlockWrite = (k + 1) * BlockWrite
        <4>1. p.firstIndex = k * BlockWrite
          BY DEF Holds
        <4>2. QED
          BY <2>1, <4>1
      <3>2. QED
        BY <2>1, <2>4, <2>8, <2>9, <3>1 DEF Holds, HeaderSize, MaxBlob
    <2>12. QED
      <3>1. q.blockValues < BlockWrite /\ k + 1 \in Nat
        BY <2>9, BlockWriteFacts
      <3>2. q \in GoodPools
        BY <2>10, <2>11, <3>1 DEF GoodPools
      <3>3. QED
        BY <3>2 DEF q
  <1>4. QED
    BY <1>2, <1>3

(* Where SelectInSeq finds something, and where it finds nothing. *)
LEMMA HeapIndexFacts ==
  ASSUME NEW S, NEW heap \in Seq(S), NEW item
  PROVE  LET i == HeapIndex(heap, item)
         IN  i = 0 \/ i \in 1 .. Len(heap)
  <1> DEFINE I == {i \in 1 .. Len(heap) : heap[i][1] = item}
  <1>1. Len(heap) \in Nat
    BY LenProperties
  <1>2. HeapIndex(heap, item) = IF I # {} THEN Min(I) ELSE 0
    BY DEF HeapIndex, SelectInSeq
  <1>3. ASSUME I # {} PROVE Min(I) \in 1 .. Len(heap)
    <2>1. PICK i \in I : \A j \in I : i <= j
      <3>1. I \subseteq Nat
        OBVIOUS
      <3> HIDE DEF I
      <3>2. QED
        BY <1>3, <3>1, LeastNat
    <2>2. Min(I) \in I
      <3> HIDE DEF I
      <3>1. QED
        BY <2>1 DEF Min
    <2>3. QED
      BY <2>2
  <1>4. QED
    BY <1>2, <1>3

(* The newest entry is in front. *)
LEMMA FirstOfHeap ==
  ASSUME NEW S, NEW heap \in Seq(S), NEW item, NEW value, <<item, value>> \in S,
         HeapIndex(heap, item) = 0
  PROVE  InsertAndIncrease(heap, item, value) \in Seq(S)
  <1> DEFINE n == Lower(BlockWrite - 1, Len(heap))
             rest == SubSeq(heap, 1, n)
  <1>1. n \in Nat /\ n <= Len(heap) /\ Len(heap) \in Nat
    BY LenProperties, BlockWriteFacts DEF Lower
  <1>2. rest \in Seq(S)
    <2>1. \A i \in 1 .. n : heap[i] \in S
      BY <1>1, ElementOfSeq
    <2> HIDE DEF n
    <2>2. QED
      BY <1>1, <2>1, SubSeqProperties
  <1>3. InsertAndIncrease(heap, item, value) = <<<<item, value>>>> \o rest
    BY DEF InsertAndIncrease, UpTo
  <1>4. <<<<item, value>>>> \in Seq(S)
    OBVIOUS
  <1> HIDE DEF rest
  <1>5. QED
    BY <1>2, <1>3, <1>4, ConcatProperties

(* An insert gives a good pool and an id. *)
LEMMA InsertBlobIsGood ==
  ASSUME NEW p \in GoodPools, NEW blob \in Blobs
  PROVE  InsertBlob(p, blob) \in [pool : GoodPools, id : Nat]
  <1> DEFINE known == HeapIndex(p.recentWrites, blob)
             id == 2 * p.valueCount + 1
             n == Len(blob)
             r == [p EXCEPT !.file = WriteAt(p.file, p.cursor, blob),
                            !.cursor = @ + n,
                            !.valueCount = @ + 1,
                            !.recentWrites = InsertAndIncrease(@, blob, id),
                            !.blockSize = @ + n,
                            !.blockValues = @ + 1]
  <1>1. PICK k \in Nat : \E at : Holds(p, k, at)
    BY DEF GoodPools
  <1>2. PICK at : Holds(p, k, at)
    BY <1>1
  <1>3. p \in Pools /\ p.blockValues < BlockWrite
    BY DEF GoodPools
  <1>4. blob \in File /\ n \in Nat /\ n <= MaxBlob
    BY FileFacts DEF Blobs
  <1>5. /\ p.file \in File /\ p.cursor \in Nat /\ p.valueCount \in Nat
        /\ p.blockValues \in Nat /\ p.blockSize \in Nat /\ p.firstIndex \in Nat
        /\ p.recentWrites \in Seq(File \X Nat) /\ p.recentReads = <<>>
        /\ Len(p.file) \in Nat
    BY <1>3, PoolFacts
  <1>6. id \in Nat
    BY <1>5
  <1>7. CASE n <= InlineBytes
    <2>1. InsertBlob(p, blob) = [pool |-> p, id |-> 2 * WordOf(blob)]
      BY <1>4, <1>7 DEF InsertBlob, InlineBytes
    <2>2. 2 * WordOf(blob) \in Nat
      <3>1. SubSeq(blob, 0 + 1, Len(blob)) = blob
        BY <1>4 DEF File
      <3>2. WordIn(blob, 0) = WordOf(blob)
        BY <3>1 DEF WordIn
      <3>3. WordIn(blob, 0) \in Nat
        BY <1>4, WordInFacts
      <3>4. QED
        BY <3>2, <3>3
    <2> DEFINE w == 2 * WordOf(blob)
    <2> HIDE DEF w
    <2>3. QED
      BY <2>1, <2>2 DEF w
  <1>8. CASE n > InlineBytes /\ known # 0
    <2>1. InsertBlob(p, blob) = [pool |-> p, id |-> p.recentWrites[known][2]]
      BY <1>4, <1>8 DEF InsertBlob, InlineBytes
    <2>2. known \in 1 .. Len(p.recentWrites)
      BY <1>5, <1>8, HeapIndexFacts
    <2> HIDE DEF known
    <2>3. p.recentWrites[known] \in File \X Nat
      BY <1>5, <2>2, ElementOfSeq
    <2>4. p.recentWrites[known][2] \in Nat
      BY <2>3
    <2>5. QED
      BY <2>1, <2>4
  <1>9. CASE n > InlineBytes /\ known = 0
    <2>1. InsertBlob(p, blob) = [pool |-> PostInsert(r), id |-> id]
      BY <1>4, <1>9 DEF InsertBlob, InlineBytes
    <2> DEFINE new == WriteAt(p.file, p.cursor, blob)
               heap == InsertAndIncrease(p.recentWrites, blob, id)
    <2>2. /\ p.cursor <= Len(p.file) /\ IsWalk(p.file, at, k)
          /\ at[k] + HeaderSize + p.blockSize = p.cursor
          /\ p.blockSize <= MaxBlob * p.blockValues
      BY <1>2 DEF Holds
    <2>3. p.firstIndex = k * BlockWrite
      BY <1>2 DEF Holds
    <2>4. /\ new \in File /\ Len(new) \in Nat /\ p.cursor + n <= Len(new)
          /\ \A i \in 1 .. p.cursor : new[i] = p.file[i]
      <3>1. p.cursor \in 0 .. Len(p.file)
        BY <1>5, <2>2
      <3>2. /\ new \in File /\ p.cursor + n <= Len(new)
            /\ \A i \in 1 .. p.cursor : new[i] = p.file[i]
        BY <1>4, <1>5, <3>1, WriteAtFacts
      <3> HIDE DEF new
      <3>3. QED
        BY <3>2, FileFacts
    <2>5. heap \in Seq(File \X Nat)
      <3>1. <<blob, id>> \in File \X Nat
        BY <1>4, <1>6
      <3> HIDE DEF id
      <3>2. QED
        BY <1>5, <1>9, <3>1, FirstOfHeap
    <2> HIDE DEF new, heap, n, id
    <2>6. r = [p EXCEPT !.file = new, !.cursor = p.cursor + n, !.valueCount = p.valueCount + 1,
                        !.recentWrites = heap, !.blockSize = p.blockSize + n,
                        !.blockValues = p.blockValues + 1]
      BY <1>3 DEF new, heap, id, n, Pools
    <2> HIDE DEF r
    <2>7. /\ r \in Pools /\ r.file = new /\ r.cursor = p.cursor + n
          /\ r.firstIndex = p.firstIndex
          /\ r.blockSize = p.blockSize + n /\ r.blockValues = p.blockValues + 1
      <3> DEFINE cursor == p.cursor + n
                 count == p.valueCount + 1
                 size == p.blockSize + n
                 in == p.blockValues + 1
      <3>1. cursor \in Nat /\ count \in Nat /\ size \in Nat /\ in \in Nat
        <4>1. n \in Nat
          BY <1>4 DEF n
        <4>2. /\ p.cursor \in Nat /\ p.valueCount \in Nat
              /\ p.blockSize \in Nat /\ p.blockValues \in Nat
          BY <1>5
        <4>3. QED
          BY <4>1, <4>2
      <3>2. r = Written(p, new, cursor, count, heap, size, in)
        BY <2>6 DEF Written
      <3> HIDE DEF cursor, count, size, in
      <3>3. /\ r \in Pools /\ r.file = new /\ r.cursor = cursor
            /\ r.firstIndex = p.firstIndex /\ r.blockSize = size /\ r.blockValues = in
        <4>1. new \in File /\ heap \in Seq(File \X Nat)
          BY <2>4, <2>5
        <4>2. QED
          BY <1>3, <3>1, <3>2, <4>1 DEF Pools, Written
      <3>4. QED
        BY <3>3 DEF cursor, size, in
    <2>8. IsWalk(new, at, k)
      <3>1. at[k] \in Nat
        BY <2>2, WalkFacts
      <3> DEFINE a == at[k]
                 c == p.cursor
                 m == Len(p.file)
                 mm == Len(new)
                 size == p.blockSize
      <3>2. /\ a \in Nat /\ c \in Nat /\ m \in Nat /\ mm \in Nat /\ size \in Nat /\ n \in Nat
            /\ a + 8 + size = c /\ c <= m /\ c + n <= mm
        BY <1>4, <1>5, <2>2, <2>4, <3>1 DEF HeaderSize, n
      <3> HIDE DEF a, c, m, mm, size
      <3>3. a <= c /\ a <= m /\ a <= mm
        BY <3>2
      <3>4. at[k] <= p.cursor /\ at[k] <= Len(p.file) /\ at[k] <= Len(new)
        BY <3>3 DEF a, c, m, mm
      <3>5. \A i \in 1 .. at[k] : new[i] = p.file[i]
        BY <1>5, <2>4, <3>1, <3>4
      <3>6. QED
        BY <1>5, <2>2, <2>4, <3>4, <3>5, WalkKept
    <2>9. Holds(r, k, at)
      <3>1. at[k] \in Nat
        BY <2>2, WalkFacts
      <3> DEFINE a == at[k]
                 c == p.cursor
                 size == p.blockSize
      <3>2. /\ a \in Nat /\ c \in Nat /\ size \in Nat /\ n \in Nat /\ a + 8 + size = c
            /\ r.cursor = c + n /\ r.blockSize = size + n
        BY <1>4, <1>5, <2>2, <2>7, <3>1 DEF HeaderSize, n
      <3> HIDE DEF a, c, size
      <3>3. a + 8 + r.blockSize = r.cursor
        BY <3>2
      <3>4. at[k] + HeaderSize + r.blockSize = r.cursor /\ r.cursor <= Len(r.file)
        <4>1. r.cursor <= Len(r.file)
          BY <2>4, <2>7
        <4>2. QED
          BY <3>3, <4>1 DEF a, HeaderSize
      <3>5. r.blockSize <= MaxBlob * r.blockValues
        BY <1>4, <1>5, <2>2, <2>7 DEF MaxBlob
      <3>6. QED
        BY <2>3, <2>7, <2>8, <3>4, <3>5 DEF Holds
    <2>10. r.blockValues <= BlockWrite
      BY <1>3, <1>5, <2>7, BlockWriteFacts
    <2>11. PostInsert(r) \in GoodPools
      BY <2>7, <2>9, <2>10, PostInsertIsGood
    <2>12. QED
      BY <1>6, <2>1, <2>11 DEF id
  <1>10. QED
    BY <1>4, <1>7, <1>8, <1>9 DEF InlineBytes

-----------------------------------------------------------------------------
(* The bytes of what goes to a pool.                                       *)

LEMMA MaxFacts ==
  ASSUME NEW m \in Nat, NEW T, T \subseteq 0 .. m, T # {}
  PROVE  Max(T) \in T /\ \A y \in T : Max(T) >= y
  <1> DEFINE D == {m - g : g \in T}
  <1>1. D \subseteq Nat /\ D # {}
    <2>1. \A g \in T : m - g \in Nat
      <3>1. \A g \in T : g \in 0 .. m
        OBVIOUS
      <3>2. \A g \in 0 .. m : m - g \in Nat
        OBVIOUS
      <3>3. QED
        BY <3>1, <3>2
    <2>2. PICK g \in T : TRUE
      OBVIOUS
    <2>3. m - g \in D
      OBVIOUS
    <2>4. QED
      BY <2>1, <2>3
  <1>2. PICK d \in D : \A e \in D : d <= e
    <2> HIDE DEF D
    <2>1. QED
      BY <1>1, LeastNat
  <1>3. PICK g \in T : d = m - g
    BY <1>2
  <1>4. \A y \in T : g >= y
    <2>1. SUFFICES ASSUME NEW y \in T PROVE g >= y
      OBVIOUS
    <2>2. d <= m - y
      BY <1>2
    <2>3. g \in 0 .. m /\ y \in 0 .. m
      OBVIOUS
    <2>4. QED
      BY <1>3, <2>2, <2>3
  <1>5. QED
    BY <1>4 DEF Max

LEMMA GroupsFacts ==
  ASSUME NEW n \in Int
  PROVE  Groups(n) \in 0 .. 4
  <1> DEFINE T == {g \in 0 .. WordBits \div 7 : g = 0 \/ 2 ^ (7 * g - 1) <= n}
  <1>1. WordBits \div 7 = 4
    BY SMT DEF WordBits
  <1>2. T \subseteq 0 .. 4 /\ 0 \in T
    BY <1>1
  <1>3. Groups(n) = Max(T)
    BY DEF Groups
  <1> HIDE DEF T
  <1>4. Max(T) \in T
    BY <1>2, MaxFacts
  <1>5. QED
    BY <1>2, <1>3, <1>4

LEMMA PowersOf128 ==
  ASSUME NEW e \in 0 .. 4
  PROVE  128 ^ e \in Nat /\ 128 ^ e > 0
  <1>1. CASE e = 0
    BY <1>1, SMT
  <1>2. CASE e = 1
    BY <1>2, SMT
  <1>3. CASE e = 2
    BY <1>3, SMT
  <1>4. CASE e = 3
    BY <1>4, SMT
  <1>5. CASE e = 4
    BY <1>5, SMT
  <1>6. QED
    BY <1>1, <1>2, <1>3, <1>4, <1>5

(* A group of 7 bits and the mark make a byte. *)
LEMMA GroupIsByte ==
  ASSUME NEW n \in Int, NEW d \in Nat, d > 0, NEW mark \in {0, 128}
  PROVE  ((n \div d) % 128) + mark \in Byte
  <1>1. n \div d \in Int
    OBVIOUS
  <1> DEFINE q == n \div d
  <1> HIDE DEF q
  <1>2. (q % 128) + mark \in Byte
    BY <1>1 DEF Byte, q
  <1>3. QED
    BY <1>2 DEF q

LEMMA VarintIsShort ==
  ASSUME NEW n \in Int
  PROVE  Varint(n) \in File /\ Len(Varint(n)) = Groups(n) + 1 /\ Len(Varint(n)) <= 5
  <1> DEFINE g == Groups(n)
             f == [i \in 1 .. g + 1 |-> ((n \div 128 ^ (g + 1 - i)) % 128)
                                        + (IF i <= g THEN 128 ELSE 0)]
  <1>1. g \in 0 .. 4
    BY GroupsFacts
  <1>2. Varint(n) = f
    BY DEF Varint
  <1> HIDE DEF g
  <1>3. ASSUME NEW i \in 1 .. g + 1 PROVE f[i] \in Byte
    <2> DEFINE d == 128 ^ (g + 1 - i)
               mark == IF i <= g THEN 128 ELSE 0
    <2>1. g + 1 - i \in 0 .. 4
      BY <1>1
    <2>2. d \in Nat /\ d > 0
      BY <2>1, PowersOf128
    <2>3. mark \in {0, 128}
      OBVIOUS
    <2>4. f[i] = ((n \div d) % 128) + mark
      OBVIOUS
    <2> HIDE DEF d, mark, f
    <2>5. QED
      BY <2>2, <2>3, <2>4, GroupIsByte
  <1>4. f \in [1 .. g + 1 -> Byte]
    BY <1>3
  <1> HIDE DEF f
  <1>5. g + 1 \in Nat /\ g + 1 <= 5
    BY <1>1
  <1>6. f \in File /\ Len(f) = g + 1
    BY <1>4, <1>5, MakesFile
  <1>7. QED
    BY <1>2, <1>5, <1>6 DEF g

LEMMA ZigZagIsNat ==
  ASSUME NEW n \in Int
  PROVE  ZigZag(n, WordBits) \in Nat
  BY SMT DEF ZigZag, WordBits

LEMMA SignedIsShort ==
  ASSUME NEW n \in Int
  PROVE  SignedVarint(n, WordBits) \in File /\ Len(SignedVarint(n, WordBits)) <= 5
  <1>1. ZigZag(n, WordBits) \in Nat
    BY ZigZagIsNat
  <1>2. QED
    BY <1>1, VarintIsShort DEF SignedVarint

LEMMA OneByte ==
  ASSUME NEW b \in Byte
  PROVE  <<b>> \in File /\ Len(<<b>>) = 1
  BY DEF File

LEMMA FileConcat ==
  ASSUME NEW s \in File, NEW t \in File
  PROVE  /\ s \o t \in File /\ Len(s \o t) = Len(s) + Len(t)
         /\ \A i \in 1 .. Len(s) + Len(t) :
              (s \o t)[i] = IF i <= Len(s) THEN s[i] ELSE t[i - Len(s)]
  BY ConcatProperties DEF File

(* A header and up to five bytes. *)
LEMMA HeaderAnd ==
  ASSUME NEW b \in Byte, NEW s \in File, Len(s) <= 5
  PROVE  <<b>> \o s \in Blobs
  <1>1. <<b>> \in File /\ Len(<<b>>) = 1 /\ Len(s) \in Nat
    BY OneByte, FileFacts
  <1> DEFINE h == <<b>>
  <1> HIDE DEF h
  <1>2. h \o s \in File /\ Len(h \o s) = Len(h) + Len(s)
    BY <1>1, FileConcat DEF h
  <1>3. QED
    BY <1>1, <1>2 DEF Blobs, MaxBlob, h

TwoLetters == {s \in Seq(0 .. 255) : Len(s) = 2}

(* What a tag's key or value may be, as a literal. *)
Literals ==
    [t : {"TinyUNumber"}, v : {<<n>> : n \in 0 .. 62}]
    \cup [t : {"TinyINumber"}, v : {<<n>> : n \in -31 .. -1}]
    \cup [t : {"UInt"}, v : {<<n>> : n \in Nat}]
    \cup [t : {"IInt"}, v : {<<n>> : n \in Int}]
    \cup [t : {"Specific"}, v : {<<n>> : n \in 0 .. 2}]
    \cup [t : {"TwoUpperLatinAbbrev"}, v : TwoLetters]
    \cup [t : {"String"}, v : Seq(0 .. 255)]

LEMMA LiteralOfTag ==
  ASSUME NEW tag \in Tags
  PROVE  LiteralOf(tag) \in Literals
  <1> DEFINE lit(t, v) == [t |-> t, v |-> v]
             n == tag.v[1]
  <1>1. CASE tag.t = "number"
    <2>1. n \in Int
      BY <1>1 DEF Tags
    <2>2. tag # Text(<<>>) /\ tag # Text(No) /\ tag # Text(Yes)
      BY <1>1 DEF Text
    <2>3. CASE n \in 0 .. 62
      <3>1. ~ (n \in -31 .. -1) /\ ~ (n > 62) /\ ~ (n < -31)
        BY <2>1, <2>3
      <3>2. LiteralOf(tag) = lit("TinyUNumber", <<n>>)
        BY <1>1, <2>2, <2>3, <3>1 DEF LiteralOf
      <3> HIDE DEF n
      <3>3. QED
        BY <2>3, <3>2 DEF Literals
    <2>4. CASE n \in -31 .. -1
      <3>1. ~ (n \in 0 .. 62) /\ ~ (n > 62) /\ ~ (n < -31)
        BY <2>1, <2>4
      <3>2. LiteralOf(tag) = lit("TinyINumber", <<n>>)
        BY <1>1, <2>2, <2>4, <3>1 DEF LiteralOf
      <3> HIDE DEF n
      <3>3. QED
        BY <2>4, <3>2 DEF Literals
    <2>5. CASE n > 62
      <3>1. LiteralOf(tag) = lit("UInt", <<n>>)
        BY <1>1, <2>1, <2>2, <2>5 DEF LiteralOf
      <3> HIDE DEF n
      <3>2. n \in Nat
        BY <2>1, <2>5
      <3>3. QED
        BY <3>1, <3>2 DEF Literals
    <2>6. CASE n < -31
      <3>1. LiteralOf(tag) = lit("IInt", <<n>>)
        BY <1>1, <2>1, <2>2, <2>6 DEF LiteralOf
      <3> HIDE DEF n
      <3>2. QED
        BY <2>1, <3>1 DEF Literals
    <2> HIDE DEF n
    <2>7. QED
      BY <2>1, <2>3, <2>4, <2>5, <2>6
  <1>2. CASE tag.t = "text"
    <2>1. tag.v \in Seq(0 .. 255)
      BY <1>2 DEF Tags
    <2>2. LiteralOf(tag) \in {lit("Specific", <<0>>), lit("Specific", <<1>>), lit("Specific", <<2>>)}
          \/ (LiteralOf(tag) = lit("TwoUpperLatinAbbrev", tag.v) /\ Len(tag.v) = 2)
          \/ LiteralOf(tag) = lit("String", tag.v)
      BY <1>2 DEF LiteralOf
    <2>3. QED
      BY <2>1, <2>2 DEF Literals, TwoLetters
  <1>3. tag.t = "number" \/ tag.t = "text"
    BY DEF Tags
  <1>4. QED
    BY <1>1, <1>2, <1>3

LEMMA LiteralIsShort ==
  ASSUME NEW l \in Literals
  PROVE  LiteralBytes(l) \in Blobs
  <1> DEFINE n == l.v[1]
  <1>1. CASE l.t = "Specific"
    <2>1. LiteralBytes(l) = <<0>>
      BY <1>1 DEF LiteralBytes
    <2>2. <<0>> \in File /\ Len(<<0>>) = 1
      BY OneByte DEF Byte
    <2>3. QED
      BY <2>1, <2>2 DEF Blobs, MaxBlob
  <1>2. CASE l.t = "UInt"
    <2>1. n \in Nat
      BY <1>2 DEF Literals
    <2>2. LiteralBytes(l) = <<48>> \o Varint(n)
      BY <1>2 DEF LiteralBytes
    <2> HIDE DEF n
    <2>3. Varint(n) \in File /\ Len(Varint(n)) <= 5 /\ 48 \in Byte
      BY <2>1, VarintIsShort DEF Byte
    <2>4. QED
      BY <2>2, <2>3, HeaderAnd
  <1>3. CASE l.t = "IInt"
    <2>1. n \in Int
      BY <1>3 DEF Literals
    <2>2. LiteralBytes(l) = <<64>> \o SignedVarint(n, WordBits)
      BY <1>3 DEF LiteralBytes
    <2> HIDE DEF n
    <2>3. /\ SignedVarint(n, WordBits) \in File /\ Len(SignedVarint(n, WordBits)) <= 5
          /\ 64 \in Byte
      BY <2>1, SignedIsShort DEF Byte
    <2>4. QED
      BY <2>2, <2>3, HeaderAnd
  <1>4. CASE l.t = "TinyUNumber"
    <2>1. n \in 0 .. 62
      <3>1. l.v \in {<<m>> : m \in 0 .. 62}
        BY <1>4 DEF Literals
      <3>2. PICK m \in 0 .. 62 : l.v = <<m>>
        BY <3>1
      <3>3. QED
        BY <3>2
    <2>2. LiteralBytes(l) = <<64 + WithBit(n, 16)>>
      BY <1>4 DEF LiteralBytes
    <2> HIDE DEF n
    <2>3. 64 + WithBit(n, 16) \in Byte
      BY <2>1 DEF WithBit, Byte
    <2>4. QED
      BY <2>2, <2>3, OneByte DEF Blobs, MaxBlob
  <1>5. CASE l.t = "TinyINumber"
    <2>1. n \in -31 .. -1
      <3>1. l.v \in {<<m>> : m \in -31 .. -1}
        BY <1>5 DEF Literals
      <3>2. PICK m \in -31 .. -1 : l.v = <<m>>
        BY <3>1
      <3>3. QED
        BY <3>2
    <2>2. LiteralBytes(l) = <<96 + WithBit(AbsDiff(n, 0), 8)>>
      BY <1>5 DEF LiteralBytes
    <2> HIDE DEF n
    <2>3. 96 + WithBit(AbsDiff(n, 0), 8) \in Byte
      BY <2>1 DEF WithBit, AbsDiff, Byte
    <2>4. QED
      BY <2>2, <2>3, OneByte DEF Blobs, MaxBlob
  <1>6. CASE l.t = "TwoUpperLatinAbbrev"
    <2>1. l.v \in TwoLetters
      BY <1>6 DEF Literals
    <2>2. LiteralBytes(l) = <<160>> \o l.v
      BY <1>6 DEF LiteralBytes
    <2>3. l.v \in File /\ Len(l.v) <= 5 /\ 160 \in Byte
      <3>1. l.v \in File /\ Len(l.v) = 2
        BY <2>1 DEF TwoLetters, File, Byte
      <3>2. 160 \in Byte
        BY DEF Byte
      <3>3. QED
        BY <3>1, <3>2
    <2>4. QED
      BY <2>2, <2>3, HeaderAnd
  <1>7. CASE l.t = "String"
    <2>1. LiteralBytes(l) = <<>>
      BY <1>7 DEF LiteralBytes
    <2>2. <<>> \in File /\ Len(<<>>) = 0
      BY EmptySeq DEF File
    <2>3. QED
      BY <2>1, <2>2 DEF Blobs, MaxBlob
  <1>8. l.t \in {"Specific", "UInt", "IInt", "TinyUNumber", "TinyINumber",
                 "TwoUpperLatinAbbrev", "String"}
    BY DEF Literals
  <1>9. QED
    BY <1>1, <1>2, <1>3, <1>4, <1>5, <1>6, <1>7, <1>8

-----------------------------------------------------------------------------
(* Sequences of sequences.                                                 *)

IsFlattening(f, ss, S) ==
    /\ f \in [0 .. Len(ss) -> Seq(S)]
    /\ f[0] = <<>> /\ \A i \in 1 .. Len(ss) : f[i] = f[i - 1] \o ss[i]
    /\ FlattenSeq(ss) = f[Len(ss)]

LEMMA FlattenSteps ==
  ASSUME NEW S, NEW ss \in Seq(Seq(S))
  PROVE  \E f : IsFlattening(f, ss, S)
  <1> DEFINE n == Len(ss)
             Z == Seq(S)
             G == [i \in 1 .. n |-> [s \in Z |-> s \o ss[i]]]
  <1>1. n \in Nat /\ <<>> \in Z /\ \A i \in 1 .. n : ss[i] \in Z
    BY LenProperties, ElementOfSeq, EmptySeq
  <1>2. Stepwise(n, Z, G)
    <2>1. \A i \in 1 .. n : \A s \in Z : s \o ss[i] \in Z
      BY <1>1, ConcatProperties
    <2> HIDE DEF n, Z
    <2>2. QED
      BY <2>1 DEF Stepwise
  <1>3. PICK f \in [0 .. n -> Z] : f[0] = <<>> /\ \A i \in 1 .. n : f[i] = G[i][f[i - 1]]
    <2> DEFINE z == <<>>
    <2>1. z \in Z /\ n \in Nat
      BY <1>1
    <2> HIDE DEF n, Z, G, z
    <2>2. PICK f : IsRun(f, n, Z, z, G)
      BY <1>2, <2>1, UpwardRecursion
    <2>3. QED
      BY <2>2 DEF IsRun, z
  <1>4. \A i \in 1 .. n : f[i] = f[i - 1] \o ss[i]
    <2> HIDE DEF n, Z
    <2>1. \A i \in 1 .. n : f[i - 1] \in Z
      <3>1. \A i \in 1 .. n : i - 1 \in 0 .. n
        BY <1>1
      <3>2. QED
        BY <1>3, <3>1
    <2>2. QED
      BY <1>3, <2>1
  <1>5. CASE n = 0
    <2>1. FlattenSeq(ss) = ss
      BY <1>5 DEF FlattenSeq
    <2>2. ss = <<>>
      BY <1>5, EmptySeq
    <2>3. QED
      BY <1>3, <1>4, <1>5, <2>1, <2>2 DEF IsFlattening, Z
  <1>6. CASE n # 0
    <2> DEFINE g == [i \in 1 .. n |-> f[i]]
               Body(i, h) == IF i = 1 THEN ss[i] ELSE h[i - 1] \o ss[i]
               flat == CHOOSE h : h = [i \in 1 .. n |-> Body(i, h)]
    <2>1. f[1] = ss[1]
      <3>1. 1 \in 1 .. n /\ f[1 - 1] = <<>>
        BY <1>1, <1>3, <1>6
      <3>2. f[1] = <<>> \o ss[1]
        BY <1>4, <3>1
      <3>3. QED
        BY <1>1, <3>1, <3>2, ConcatEmptySeq
    <2>2. g = [i \in 1 .. n |-> Body(i, g)]
      <3>1. ASSUME NEW i \in 1 .. n PROVE f[i] = Body(i, g)
        <4>1. CASE i = 1
          BY <2>1, <4>1
        <4>2. CASE i # 1
          <5>1. i - 1 \in 1 .. n
            BY <1>1, <4>2
          <5>2. QED
            BY <1>4, <4>2, <5>1
        <4>3. QED
          BY <4>1, <4>2
      <3> HIDE DEF Body
      <3>2. QED
        BY <3>1
    <2>3. flat = [i \in 1 .. n |-> Body(i, flat)]
      <3> HIDE DEF Body, g
      <3>1. QED
        BY <2>2
    <2>4. FlattenSeq(ss) = flat[n]
      BY <1>6 DEF FlattenSeq
    <2> HIDE DEF flat
    <2> DEFINE T == {i \in 0 .. n : i # 0 => flat[i] = f[i]}
    <2>5. ASSUME NEW i \in 0 .. n - 1, i \in T PROVE i + 1 \in T
      <3>1. i + 1 \in 1 .. n /\ i + 1 - 1 = i /\ i + 1 \in 0 .. n
        BY <1>1
      <3>2. flat[i + 1] = Body(i + 1, flat)
        <4> HIDE DEF Body
        <4>1. QED
          BY <2>3, <3>1
      <3>3. CASE i = 0
        BY <2>1, <3>1, <3>2, <3>3
      <3>4. CASE i # 0
        <4> DEFINE k == i + 1
        <4>1. k \in 1 .. n /\ k - 1 = i /\ k # 1 /\ k \in 0 .. n
          BY <1>1, <3>1, <3>4
        <4>2. flat[k] = flat[k - 1] \o ss[k]
          BY <3>2, <4>1
        <4> HIDE DEF k
        <4>3. f[k] = f[k - 1] \o ss[k]
          BY <1>4, <4>1
        <4>4. flat[k] = f[k]
          BY <2>5, <3>4, <4>1, <4>2, <4>3
        <4>5. QED
          BY <4>1, <4>4 DEF k
      <3>5. QED
        BY <3>3, <3>4
    <2>6. 0 \in T
      BY <1>1
    <2>7. n \in T
      <3>1. \A i \in 0 .. n - 1 : i \in T => i + 1 \in T
        BY <2>5
      <3> HIDE DEF T
      <3>2. \A i \in 0 .. n : i \in T
        BY <1>1, <2>6, <3>1, Upwards
      <3>3. QED
        BY <1>1, <3>2
    <2>8. FlattenSeq(ss) = f[n]
      BY <1>6, <2>4, <2>7
    <2>9. QED
      BY <1>3, <1>4, <2>8 DEF IsFlattening, Z
  <1>7. QED
    BY <1>5, <1>6

LEMMA FlatType ==
  ASSUME NEW S, NEW ss \in Seq(Seq(S))
  PROVE  FlattenSeq(ss) \in Seq(S)
  <1>1. PICK f : IsFlattening(f, ss, S)
    BY FlattenSteps
  <1>2. f \in [0 .. Len(ss) -> Seq(S)] /\ FlattenSeq(ss) = f[Len(ss)]
    BY <1>1 DEF IsFlattening
  <1>3. Len(ss) \in 0 .. Len(ss)
    BY LenProperties
  <1>4. QED
    BY <1>2, <1>3

LEMMA IsSeq ==
  ASSUME NEW S, NEW n \in Nat, NEW f \in [1 .. n -> S]
  PROVE  f \in Seq(S) /\ Len(f) = n
  OBVIOUS

-----------------------------------------------------------------------------
(* What is written is read.                                                *)

(* The least of a set is the one that is no greater than any other.        *)
LEMMA MinIs ==
  ASSUME NEW T, T \subseteq Nat, NEW k \in T, \A y \in T : k <= y
  PROVE  Min(T) = k
  <1>1. \A x \in T : (\A y \in T : x <= y) => x = k
    BY SMT
  <1>2. QED
    BY <1>1 DEF Min

LEMMA FileAssociative ==
  ASSUME NEW s \in File, NEW t \in File, NEW u \in File
  PROVE  (s \o t) \o u = s \o (t \o u)
  BY ConcatAssociative DEF File

(* What comes after the first of two pieces is the second.                 *)
LEMMA AfterConcat ==
  ASSUME NEW s \in File, NEW t \in File
  PROVE  After(s \o t, Len(s)) = t
  <1> DEFINE u == s \o t
             r == SubSeq(u, Len(s) + 1, Len(u))
  <1>1. Len(s) \in Nat /\ Len(t) \in Nat
    BY FileFacts
  <1>2. u \in File /\ Len(u) = Len(s) + Len(t)
        /\ \A i \in 1 .. Len(s) + Len(t) : u[i] = IF i <= Len(s) THEN s[i] ELSE t[i - Len(s)]
    BY FileConcat
  <1> HIDE DEF u
  <1>3. \A i \in Len(s) + 1 .. Len(u) : u[i] \in Byte
    BY <1>1, <1>2, FileFacts
  <1>4. /\ r \in Seq(Byte)
        /\ Len(r) = IF Len(s) + 1 <= Len(u) THEN Len(u) - (Len(s) + 1) + 1 ELSE 0
        /\ \A i \in 1 .. Len(u) - (Len(s) + 1) + 1 : r[i] = u[Len(s) + 1 + i - 1]
    <2>1. Len(s) + 1 \in Int /\ Len(u) \in Int
      BY <1>1, <1>2
    <2>2. QED
      BY <1>3, <2>1, SubSeqProperties
  <1> HIDE DEF r
  <1>5. Len(r) = Len(t)
    BY <1>1, <1>2, <1>4
  <1>6. \A i \in 1 .. Len(r) : r[i] = t[i]
    <2>1. SUFFICES ASSUME NEW i \in 1 .. Len(r) PROVE r[i] = t[i]
      OBVIOUS
    <2>2. i \in 1 .. Len(t) /\ i \in 1 .. Len(u) - (Len(s) + 1) + 1 /\ Len(s) + 1 + i - 1 = Len(s) + i
          /\ Len(s) + i \in 1 .. Len(s) + Len(t)
      BY <1>1, <1>2, <1>5
    <2>3. r[i] = u[Len(s) + i]
      <3>1. r[i] = u[Len(s) + 1 + i - 1]
        BY <1>4, <2>2
      <3>2. QED
        BY <2>2, <3>1
    <2>4. ~ (Len(s) + i <= Len(s)) /\ Len(s) + i - Len(s) = i
      BY <1>1, <1>5
    <2>5. QED
      BY <1>2, <2>2, <2>3, <2>4
  <1>7. r = t
    BY <1>4, <1>5, <1>6, SeqEqual DEF File
  <1>8. QED
    BY <1>7 DEF r, u, After

(* Large numbers have names. *)
WordEnd == 268435456   \* 2 ^ WordBits
Kept == 2097152        \* 2 ^ (WordBits - 7)

Words == {n \in Nat : n < WordEnd}   \* what WordBits bits hold

Fours == {1, 128, 16384, Kept, WordEnd}

(* What is left of n without k groups. *)
LEMMA Regroup ==
  ASSUME NEW n \in Nat, NEW a \in Fours
  PROVE  (n \div (128 * a)) * 128 + ((n \div a) % 128) = n \div a
  <1>1. CASE a = 1
    BY <1>1, SMT
  <1>2. CASE a = 128
    BY <1>2, SMTT(20) DEF Kept, WordEnd
  <1>3. CASE a = 16384
    BY <1>3, SMTT(20) DEF Kept, WordEnd
  <1>4. CASE a = Kept
    BY <1>4, SMTT(20) DEF Kept, WordEnd
  <1>5. CASE a = WordEnd
    BY <1>5, SMTT(20) DEF Kept, WordEnd
  <1>6. QED
    BY <1>1, <1>2, <1>3, <1>4, <1>5, SMT DEF Fours

(* Two functions that go the same way from the same beginning.             *)
LEMMA SameSteps ==
  ASSUME NEW n \in Nat, NEW f, NEW g, f[0] = g[0],
         \A i \in 1 .. n : f[i - 1] = g[i - 1] => f[i] = g[i]
  PROVE  \A i \in 0 .. n : f[i] = g[i]
  <1> DEFINE T == {i \in 0 .. n : f[i] = g[i]}
  <1>1. ASSUME NEW i \in 0 .. n - 1, i \in T PROVE i + 1 \in T
    <2> DEFINE k == i + 1
    <2>1. k \in 1 .. n /\ k - 1 = i /\ k \in 0 .. n
      OBVIOUS
    <2> HIDE DEF k
    <2>2. f[k - 1] = g[k - 1]
      BY <1>1, <2>1
    <2>3. f[k] = g[k]
      BY <2>1, <2>2
    <2>4. QED
      BY <2>1, <2>3 DEF k
  <1>2. 0 \in T
    OBVIOUS
  <1>3. \A i \in 0 .. n - 1 : i \in T => i + 1 \in T
    BY <1>1
  <1> HIDE DEF T
  <1>4. \A i \in 0 .. n : i \in T
    BY <1>2, <1>3, Upwards
  <1>5. QED
    BY <1>4 DEF T

(* A varint's bytes add up step by step. *)
Adds(f, bytes, n) ==
    /\ f \in [0 .. n -> Nat] /\ f[0] = 0
    /\ \A i \in 1 .. n : f[i] = (f[i - 1] % Kept) * 128 + (bytes[i] % 128)

LEMMA AccumulatedIs ==
  ASSUME NEW bytes, NEW n \in Nat, NEW f, Adds(f, bytes, n)
  PROVE  Accumulated(bytes, n) = f[n]
  <1> DEFINE Body(i, h) == IF i = 0 THEN 0
                           ELSE (h[i - 1] % 2 ^ (WordBits - 7)) * 128 + (bytes[i] % 128)
             value == CHOOSE h : h = [i \in 0 .. n |-> Body(i, h)]
  <1>1. 2 ^ (WordBits - 7) = Kept
    BY SMT DEF WordBits, Kept
  <1>2. \A h : \A i \in 1 .. n : Body(i, h) = (h[i - 1] % Kept) * 128 + (bytes[i] % 128)
    <2>1. \A i \in 1 .. n : i # 0
      OBVIOUS
    <2>2. QED
      BY <1>1, <2>1, Zenon
  <1>3. \A h : Body(0, h) = 0
    OBVIOUS
  <1>4. Accumulated(bytes, n) = value[n]
    BY Zenon DEF Accumulated
  <1> HIDE DEF Body
  <1>5. f = [i \in 0 .. n |-> Body(i, f)]
    <2>1. \A i \in 0 .. n : i = 0 \/ i \in 1 .. n
      OBVIOUS
    <2>2. f[0] = Body(0, f)
      BY <1>3 DEF Adds
    <2>3. \A i \in 1 .. n : f[i] = Body(i, f)
      <3>1. \A i \in 1 .. n : f[i] = (f[i - 1] % Kept) * 128 + (bytes[i] % 128)
        BY DEF Adds
      <3>2. \A i \in 1 .. n : Body(i, f) = (f[i - 1] % Kept) * 128 + (bytes[i] % 128)
        BY <1>2, Zenon
      <3>3. QED
        BY <3>1, <3>2, Zenon
    <2>4. \A i \in 0 .. n : f[i] = Body(i, f)
      BY <2>1, <2>2, <2>3, Zenon
    <2>5. QED
      BY <2>4 DEF Adds
  <1>6. value = [i \in 0 .. n |-> Body(i, value)]
    BY <1>5, Zenon
  <1> HIDE DEF value
  <1>7. \A i \in 0 .. n : value[i] = Body(i, value)
    BY <1>6, Zenon
  <1>8. value[0] = f[0]
    <2>1. 0 \in 0 .. n
      OBVIOUS
    <2>2. QED
      BY <1>3, <1>7, <2>1, Zenon DEF Adds
  <1>9. \A i \in 1 .. n : value[i - 1] = f[i - 1] => value[i] = f[i]
    <2>1. \A i \in 1 .. n : i \in 0 .. n
      OBVIOUS
    <2>2. \A i \in 1 .. n : value[i] = (value[i - 1] % Kept) * 128 + (bytes[i] % 128)
      BY <1>2, <1>7, <2>1
    <2>3. \A i \in 1 .. n : f[i] = (f[i - 1] % Kept) * 128 + (bytes[i] % 128)
      BY DEF Adds
    <2>4. QED
      BY <2>2, <2>3
  <1>10. value[n] = f[n]
    <2>1. n \in 0 .. n
      OBVIOUS
    <2>2. QED
      BY <1>8, <1>9, <2>1, SameSteps
  <1>11. QED
    BY <1>4, <1>10

(* The first five powers of 128, and the next ones.                        *)
LEMMA FiveGroups ==
  ASSUME NEW e \in 0 .. 4
  PROVE  128 ^ e \in Fours /\ 128 ^ (e + 1) = 128 * 128 ^ e
  <1>1. CASE e = 0
    BY <1>1, SMT DEF Fours, Kept, WordEnd
  <1>2. CASE e = 1
    BY <1>2, SMT DEF Fours, Kept, WordEnd
  <1>3. CASE e = 2
    BY <1>3, SMT DEF Fours, Kept, WordEnd
  <1>4. CASE e = 3
    BY <1>4, SMT DEF Fours, Kept, WordEnd
  <1>5. CASE e = 4
    BY <1>5, SMT DEF Fours, Kept, WordEnd
  <1>6. QED
    BY <1>1, <1>2, <1>3, <1>4, <1>5

(* A varint has groups enough. *)
LEMMA GroupsSuffice ==
  ASSUME NEW n \in Words
  PROVE  n \in Nat /\ n < 128 ^ (Groups(n) + 1)
  <1> DEFINE T == {g \in 0 .. WordBits \div 7 : g = 0 \/ 2 ^ (7 * g - 1) <= n}
             m == Groups(n)
  <1>1. WordBits \div 7 = 4
    BY SMT DEF WordBits
  <1>2. n \in Nat /\ n < WordEnd
    BY DEF Words
  <1>3. m \in 0 .. 4
    BY <1>2, GroupsFacts
  <1>4. \A g \in 1 .. 4 : 2 ^ (7 * g - 1) <= n => g <= m
    <2>1. m = Max(T)
      BY Zenon DEF Groups
    <2>2. T \subseteq 0 .. 4 /\ 0 \in T /\ \A g \in 1 .. 4 : 2 ^ (7 * g - 1) <= n => g \in T
      BY <1>1
    <2> HIDE DEF T, m
    <2>3. \A g \in T : Max(T) >= g
      BY <2>2, MaxFacts
    <2>4. \A g \in T : g <= m
      BY <1>3, <2>1, <2>2, <2>3
    <2>5. QED
      BY <2>2, <2>4
  <1> HIDE DEF m
  <1>5. CASE m = 0
    <2>1. ~ (2 ^ 6 <= n)
      BY <1>4, <1>5
    <2>2. QED
      BY <1>2, <1>5, <2>1, SMT DEF m, WordEnd
  <1>6. CASE m = 1
    <2>1. ~ (2 ^ 13 <= n)
      BY <1>4, <1>6
    <2>2. QED
      BY <1>2, <1>6, <2>1, SMT DEF m, WordEnd
  <1>7. CASE m = 2
    <2>1. ~ (2 ^ 20 <= n)
      BY <1>4, <1>7
    <2>2. QED
      BY <1>2, <1>7, <2>1, SMT DEF m, WordEnd
  <1>8. CASE m = 3
    BY <1>2, <1>8, SMT DEF m, WordEnd
  <1>9. CASE m = 4
    BY <1>2, <1>9, SMT DEF m, WordEnd
  <1>10. QED
    BY <1>3, <1>5, <1>6, <1>7, <1>8, <1>9

(* The bytes of a varint: all but the last one have the mark. *)
LEMMA VarintBytes ==
  ASSUME NEW n \in Nat
  PROVE  /\ Varint(n) \in File /\ Len(Varint(n)) = Groups(n) + 1 /\ Groups(n) \in 0 .. 4
         /\ \A i \in 1 .. Groups(n) + 1 :
              Varint(n)[i] = ((n \div 128 ^ (Groups(n) + 1 - i)) % 128)
                             + (IF i <= Groups(n) THEN 128 ELSE 0)
  BY VarintIsShort, GroupsFacts DEF Varint

(* What is left without groups is a number.                                *)
LEMMA DivIsNat ==
  ASSUME NEW n \in Nat, NEW a \in Fours
  PROVE  n \div (128 * a) \in Nat /\ n \div a \in Nat
  <1>1. CASE a = 1
    BY <1>1, SMT
  <1>2. CASE a = 128
    BY <1>2, SMT
  <1>3. CASE a = 16384
    BY <1>3, SMT
  <1>4. CASE a = Kept
    BY <1>4, SMT DEF Kept
  <1>5. CASE a = WordEnd
    BY <1>5, SMT DEF WordEnd
  <1>6. QED
    BY <1>1, <1>2, <1>3, <1>4, <1>5, SMT DEF Fours

(* i groups that are read are bits of the word, but for the fifth, which   *)
(* moves the first out of it.                                              *)
BitsOf(i) == IF i = 5 THEN WordEnd ELSE 128 ^ i

LEMMA GroupShifts ==
  ASSUME NEW p \in Nat, NEW q \in Nat, p * 128 + (q % 128) = q, NEW i \in 1 .. 5
  PROVE  ((p % BitsOf(i - 1)) % Kept) * 128 + (q % 128) = q % BitsOf(i)
  <1>1. CASE i = 1
    <2>1. BitsOf(i - 1) = 1 /\ BitsOf(i) = 128
      BY <1>1, SMT DEF BitsOf
    <2>2. ((p % 1) % Kept) * 128 + (q % 128) = q % 128
      BY SMT DEF Kept
    <2>3. QED
      BY <2>1, <2>2
  <1>2. CASE i = 2
    <2>1. BitsOf(i - 1) = 128 /\ BitsOf(i) = 16384
      BY <1>2, SMT DEF BitsOf
    <2>2. ((p % 128) % Kept) * 128 + (q % 128) = q % 16384
      BY SMTT(20) DEF Kept
    <2>3. QED
      BY <2>1, <2>2
  <1>3. CASE i = 3
    <2>1. BitsOf(i - 1) = 16384 /\ BitsOf(i) = Kept
      BY <1>3, SMT DEF BitsOf, Kept
    <2>2. ((p % 16384) % Kept) * 128 + (q % 128) = q % Kept
      BY SMTT(20) DEF Kept
    <2>3. QED
      BY <2>1, <2>2
  <1>4. CASE i = 4
    <2>1. BitsOf(i - 1) = Kept /\ BitsOf(i) = WordEnd
      BY <1>4, SMT DEF BitsOf, Kept, WordEnd
    <2>2. ((p % Kept) % Kept) * 128 + (q % 128) = q % WordEnd
      BY SMTT(20) DEF Kept, WordEnd
    <2>3. QED
      BY <2>1, <2>2
  <1>5. CASE i = 5
    <2>1. BitsOf(i - 1) = WordEnd /\ BitsOf(i) = WordEnd
      BY <1>5, SMT DEF BitsOf, Kept, WordEnd
    <2>2. ((p % WordEnd) % Kept) * 128 + (q % 128) = q % WordEnd
      BY SMTT(20) DEF Kept, WordEnd
    <2>3. QED
      BY <2>1, <2>2
  <1>6. QED
    BY <1>1, <1>2, <1>3, <1>4, <1>5

(* A number that has no more groups than are read is the number of a word. *)
LEMMA ModOfGroups ==
  ASSUME NEW n \in Nat
  PROVE  n % BitsOf(Groups(n) + 1) = n % WordEnd
  <1> DEFINE g == Groups(n)
  <1>1. g \in 0 .. 4
    BY GroupsFacts
  <1>2. CASE n < WordEnd
    <2>1. n \in Words /\ n < 128 ^ (g + 1)
      BY <1>2, GroupsSuffice DEF Words
    <2> HIDE DEF g
    <2>2. CASE g = 0
      BY <1>2, <2>1, <2>2, SMT DEF BitsOf, WordEnd, g
    <2>3. CASE g = 1
      BY <1>2, <2>1, <2>3, SMT DEF BitsOf, WordEnd, g
    <2>4. CASE g = 2
      BY <1>2, <2>1, <2>4, SMT DEF BitsOf, WordEnd, g
    <2>5. CASE g = 3
      BY <1>2, <2>1, <2>5, SMT DEF BitsOf, WordEnd, g
    <2>6. CASE g = 4
      BY <2>6, SMT DEF BitsOf, g
    <2>7. QED
      BY <1>1, <2>2, <2>3, <2>4, <2>5, <2>6
  <1>3. CASE ~ (n < WordEnd)
    <2>1. g = 4
      <3> DEFINE T == {k \in 0 .. WordBits \div 7 : k = 0 \/ 2 ^ (7 * k - 1) <= n}
      <3>1. WordBits \div 7 = 4
        BY SMT DEF WordBits
      <3>2. T \subseteq 0 .. 4
        BY <3>1
      <3>3. 2 ^ (7 * 4 - 1) <= n
        BY <1>3, SMT DEF WordEnd
      <3>4. 4 \in T
        BY <3>1, <3>3
      <3>5. g = Max(T)
        BY Zenon DEF Groups
      <3> HIDE DEF T, g
      <3>6. g >= 4
        <4>1. \A y \in T : Max(T) >= y
          BY <3>2, <3>4, MaxFacts
        <4>2. QED
          BY <3>4, <3>5, <4>1
      <3>7. QED
        BY <1>1, <3>6
    <2>2. BitsOf(g + 1) = WordEnd
      BY <2>1 DEF BitsOf
    <2>3. QED
      BY <2>2
  <1>4. QED
    BY <1>2, <1>3

(* A group of seven bits, with the mark or without it.                     *)
LEMMA MarkedByte ==
  ASSUME NEW q \in Nat, NEW mark \in {0, 128}
  PROVE  /\ ((q % 128) + mark) % 128 = q % 128
         /\ (q % 128) + mark < 128 <=> mark = 0
  BY SMT

(* VarintRead: a varint (varint.rs:52) is read (78) as the number that was *)
(* written, or what a word holds of it, and what comes after it is left.   *)
THEOREM VarintRead ==
  ASSUME NEW n \in Nat, NEW rest \in File
  PROVE  ReadVarint(Varint(n) \o rest) = <<n % WordEnd, rest>>
  <1> DEFINE v == Varint(n)
             g == Groups(n)
             u == v \o rest
             I == {i \in 1 .. Len(u) : u[i] < 128}
             left(i) == n \div 128 ^ (g + 1 - i)
             sum(i) == left(i) % BitsOf(i)
             f == [i \in 0 .. g + 1 |-> sum(i)]
  <1>2. /\ v \in File /\ Len(v) = g + 1 /\ g \in 0 .. 4
        /\ \A i \in 1 .. g + 1 : v[i] = (left(i) % 128) + (IF i <= g THEN 128 ELSE 0)
    BY VarintBytes, Zenon
  <1> HIDE DEF v, g
  <1>3. /\ u \in File /\ Len(u) = g + 1 + Len(rest) /\ Len(rest) \in Nat
        /\ \A i \in 1 .. g + 1 : u[i] = v[i]
    <2>1. Len(rest) \in Nat /\ g + 1 \in Nat
      BY <1>2, FileFacts
    <2>2. /\ u \in File /\ Len(u) = Len(v) + Len(rest)
          /\ \A i \in 1 .. Len(v) + Len(rest) : u[i] = IF i <= Len(v) THEN v[i] ELSE rest[i - Len(v)]
      BY <1>2, FileConcat
    <2> HIDE DEF u, left
    <2>3. \A i \in 1 .. g + 1 : i \in 1 .. Len(v) + Len(rest) /\ i <= Len(v)
      BY <1>2, <2>1
    <2>4. QED
      BY <1>2, <2>1, <2>2, <2>3
  <1> HIDE DEF u
  <1>4. \A i \in 1 .. g + 1 : \E a \in Fours :
           /\ 128 ^ (g + 1 - i) = a /\ left(i) = n \div a /\ left(i - 1) = n \div (128 * a)
           /\ left(i) \in Nat /\ left(i - 1) \in Nat
    <2>1. SUFFICES ASSUME NEW i \in 1 .. g + 1
                   PROVE  \E a \in Fours :
                            /\ 128 ^ (g + 1 - i) = a /\ left(i) = n \div a
                            /\ left(i - 1) = n \div (128 * a)
                            /\ left(i) \in Nat /\ left(i - 1) \in Nat
      OBVIOUS
    <2> DEFINE e == g + 1 - i
               a == 128 ^ e
    <2>2. e \in 0 .. 4 /\ g + 1 - (i - 1) = e + 1
      BY <1>2
    <2>3. a \in Fours /\ 128 ^ (g + 1 - (i - 1)) = 128 * a
      <3> HIDE DEF e
      <3>1. QED
        BY <2>2, FiveGroups
    <2> HIDE DEF a
    <2>4. left(i) = n \div a /\ left(i - 1) = n \div (128 * a)
      BY <2>3, Zenon DEF a
    <2>5. n \div (128 * a) \in Nat /\ n \div a \in Nat
      BY <2>3, DivIsNat
    <2>6. 128 ^ (g + 1 - i) = a
      BY Zenon DEF a, e
    <2> HIDE DEF left
    <2>7. QED
      BY <2>3, <2>4, <2>5, <2>6, Zenon
  <1>5. \A i \in 1 .. g + 1 : /\ u[i] % 128 = left(i) % 128
                              /\ u[i] < 128 <=> i = g + 1
    <2>1. SUFFICES ASSUME NEW i \in 1 .. g + 1
                   PROVE  u[i] % 128 = left(i) % 128 /\ (u[i] < 128 <=> i = g + 1)
      OBVIOUS
    <2> DEFINE q == left(i)
               mark == IF i <= g THEN 128 ELSE 0
    <2>2. q \in Nat /\ mark \in {0, 128}
      BY <1>4
    <2>3. u[i] = (q % 128) + mark
      BY <1>2, <1>3
    <2>4. mark = 0 <=> i = g + 1
      BY <1>2
    <2> HIDE DEF q, mark
    <2>5. u[i] % 128 = q % 128 /\ (u[i] < 128 <=> mark = 0)
      BY <2>2, <2>3, MarkedByte
    <2>6. QED
      BY <2>4, <2>5 DEF q
  <1>6. SelectInSeq(u, LAMBDA b : b < 128) = g + 1
    <2>1. I \subseteq Nat
      OBVIOUS
    <2>2. g + 1 \in I
      BY <1>2, <1>3, <1>5
    <2>3. \A y \in I : g + 1 <= y
      <3>1. \A y \in I : y \in Nat /\ y > 0 /\ u[y] < 128
        OBVIOUS
      <3> HIDE DEF I
      <3>2. SUFFICES ASSUME NEW y \in I, ~ (g + 1 <= y) PROVE FALSE
        OBVIOUS
      <3>3. y \in 1 .. g + 1 /\ y # g + 1 /\ u[y] < 128
        BY <1>2, <3>1, <3>2
      <3>4. QED
        BY <1>5, <3>3
    <2>4. SelectInSeq(u, LAMBDA b : b < 128) = IF I # {} THEN Min(I) ELSE 0
      BY Zenon DEF SelectInSeq
    <2> HIDE DEF I
    <2>5. Min(I) = g + 1
      BY <2>1, <2>2, <2>3, MinIs
    <2>6. QED
      BY <2>2, <2>4, <2>5
  <1>7. Accumulated(u, g + 1) = n % WordEnd
    <2>1. sum(0) = 0
      <3> DEFINE q == left(0)
      <3>1. q \in Nat
        <4>1. 1 \in 1 .. g + 1 /\ 1 - 1 = 0
          BY <1>2
        <4>2. QED
          BY <1>4, <4>1
      <3> HIDE DEF q
      <3>2. q % 1 = 0 /\ BitsOf(0) = 1
        BY <3>1, SMT DEF BitsOf
      <3>3. QED
        BY <3>2 DEF q
    <2>2. sum(g + 1) = n % WordEnd
      <3>1. g + 1 - (g + 1) = 0 /\ 128 ^ 0 = 1 /\ n \div 1 = n
        BY <1>2, SMT
      <3>2. left(g + 1) = n
        BY <3>1, Zenon
      <3>3. n % BitsOf(g + 1) = n % WordEnd
        BY ModOfGroups, Zenon DEF g
      <3>4. QED
        BY <3>2, <3>3, Zenon
    <2>3. \A i \in 1 .. g + 1 : sum(i) = (sum(i - 1) % Kept) * 128 + (u[i] % 128)
      <3>1. SUFFICES ASSUME NEW i \in 1 .. g + 1
                     PROVE  sum(i) = (sum(i - 1) % Kept) * 128 + (u[i] % 128)
        OBVIOUS
      <3>2. PICK a \in Fours : /\ left(i) = n \div a /\ left(i - 1) = n \div (128 * a)
                               /\ left(i) \in Nat /\ left(i - 1) \in Nat
        BY <1>4, Zenon
      <3>3. (n \div (128 * a)) * 128 + ((n \div a) % 128) = n \div a
        BY Regroup, Zenon
      <3>4. u[i] % 128 = left(i) % 128
        BY <1>5
      <3>5. i \in 1 .. 5
        BY <1>2
      <3> DEFINE p == left(i - 1)
                 q == left(i)
      <3>6. p * 128 + (q % 128) = q /\ p \in Nat /\ q \in Nat
        BY <3>2, <3>3, Zenon
      <3> HIDE DEF p, q, left
      <3>7. ((p % BitsOf(i - 1)) % Kept) * 128 + (q % 128) = q % BitsOf(i)
        BY <3>5, <3>6, GroupShifts
      <3>8. QED
        BY <3>4, <3>7, Zenon DEF p, q
    <2>4. \A i \in 0 .. g + 1 : sum(i) \in Nat
      <3>1. \A i \in 1 .. g + 1 : sum(i) \in Nat
        <4>1. SUFFICES ASSUME NEW i \in 1 .. g + 1 PROVE sum(i) \in Nat
          OBVIOUS
        <4> DEFINE q == left(i)
                   b == BitsOf(i)
        <4>2. q \in Nat
          BY <1>4
        <4>3. b \in Nat /\ b > 0
          <5>1. i = 5 \/ i - 1 \in 0 .. 4
            BY <1>2
          <5>2. CASE i = 5
            BY <5>2, SMT DEF BitsOf, WordEnd
          <5>3. CASE i # 5 /\ i - 1 \in 0 .. 4
            <6> DEFINE c == 128 ^ (i - 1)
            <6>1. b = 128 * c /\ c \in Fours
              <7>1. 128 ^ (i - 1 + 1) = 128 * 128 ^ (i - 1) /\ c \in Fours
                BY <5>3, FiveGroups, Zenon
              <7>2. i - 1 + 1 = i
                BY <1>2
              <7>3. QED
                BY <5>3, <7>1, <7>2, Zenon DEF BitsOf
            <6> HIDE DEF b, c
            <6>2. QED
              BY <6>1, SMT DEF Fours, Kept, WordEnd
          <5>4. QED
            BY <5>1, <5>2, <5>3
        <4> HIDE DEF q, b
        <4>4. q % b \in Nat
          BY <4>2, <4>3
        <4>5. QED
          BY <4>4 DEF q, b
      <3>2. \A i \in 0 .. g + 1 : i = 0 \/ i \in 1 .. g + 1
        BY <1>2
      <3> HIDE DEF sum
      <3>3. QED
        BY <2>1, <3>1, <3>2
    <2>5. Adds(f, u, g + 1)
      <3>1. 0 \in 0 .. g + 1 /\ \A i \in 1 .. g + 1 : i \in 0 .. g + 1 /\ i - 1 \in 0 .. g + 1
        BY <1>2
      <3> HIDE DEF sum
      <3>2. f \in [0 .. g + 1 -> Nat]
        BY <2>4
      <3>3. f[0] = 0
        BY <2>1, <3>1
      <3>4. \A i \in 1 .. g + 1 : f[i] = sum(i) /\ f[i - 1] = sum(i - 1)
        BY <3>1
      <3> HIDE DEF f
      <3>5. QED
        BY <2>3, <3>2, <3>3, <3>4 DEF Adds
    <2>6. g + 1 \in Nat /\ g + 1 \in 0 .. g + 1
      BY <1>2
    <2> HIDE DEF sum
    <2>7. f[g + 1] = n % WordEnd
      BY <2>2, <2>6
    <2> HIDE DEF f
    <2>8. QED
      BY <2>5, <2>6, <2>7, AccumulatedIs
  <1>8. After(u, g + 1) = rest
    BY <1>2, AfterConcat DEF u
  <1>9. g + 1 # 0
    BY <1>2
  <1>10. QED
    BY <1>6, <1>7, <1>8, <1>9 DEF ReadVarint, u, v

-----------------------------------------------------------------------------
(* What is written one after another is read one after another.            *)

(* A flattened sequence can be cut at each of its parts. *)
LEMMA FlatCut ==
  ASSUME NEW ss \in Seq(File), NEW f, IsFlattening(f, ss, Byte), NEW i \in 0 .. Len(ss)
  PROVE  \E r \in File : FlattenSeq(ss) = f[i] \o r
  <1> DEFINE n == Len(ss)
             T == {d \in 0 .. n - i : \E r \in File : f[i + d] = f[i] \o r}
  <1>1. n \in Nat /\ i \in Nat /\ n - i \in Nat /\ \A j \in 1 .. n : ss[j] \in File
    BY LenProperties, ElementOfSeq
  <1>2. /\ \A j \in 0 .. n : f[j] \in File
        /\ \A j \in 1 .. n : f[j] = f[j - 1] \o ss[j]
        /\ FlattenSeq(ss) = f[n]
    BY DEF IsFlattening, File
  <1>3. 0 \in T
    <2>1. <<>> \in File /\ f[i] \o <<>> = f[i]
      BY <1>2, EmptySeq, ConcatEmptySeq DEF File
    <2>2. i + 0 = i /\ 0 \in 0 .. n - i
      BY <1>1
    <2>3. QED
      BY <2>1, <2>2
  <1>4. ASSUME NEW d \in 0 .. n - i - 1, d \in T PROVE d + 1 \in T
    <2> DEFINE j == i + (d + 1)
    <2>1. j \in 1 .. n /\ j - 1 = i + d /\ d + 1 \in 0 .. n - i
      BY <1>1
    <2>2. PICK r \in File : f[i + d] = f[i] \o r
      BY <1>4
    <2> HIDE DEF j
    <2>3. f[j] = (f[i] \o r) \o ss[j] /\ ss[j] \in File
      BY <1>1, <1>2, <2>1, <2>2
    <2>4. f[j] = f[i] \o (r \o ss[j])
      BY <1>2, <2>3, FileAssociative, Zenon
    <2>5. r \o ss[j] \in File
      BY <2>3, FileConcat
    <2>6. QED
      BY <2>1, <2>4, <2>5 DEF j
  <1>5. n - i \in T
    <2>1. \A d \in 0 .. n - i - 1 : d \in T => d + 1 \in T
      BY <1>4
    <2> HIDE DEF T
    <2>2. \A d \in 0 .. n - i : d \in T
      BY <1>1, <1>3, <2>1, Upwards
    <2>3. QED
      BY <1>1, <2>2
  <1>6. i + (n - i) = n
    BY <1>1
  <1>7. QED
    BY <1>2, <1>5, <1>6

(* A piece that is one longer.                                             *)
LEMMA SubSeqGrows ==
  ASSUME NEW S, NEW s \in Seq(S), NEW i \in 1 .. Len(s)
  PROVE  SubSeq(s, 1, i) = Append(SubSeq(s, 1, i - 1), s[i])
  <1>1. Len(s) \in Nat /\ i \in Nat
    BY LenProperties
  <1>2. SubSeq(s, 1, i) = SubSeq(s, 1, i - 1) \o <<s[i]>>
    BY <1>1, SubSeqRecursiveSecond
  <1>3. SubSeq(s, 1, i - 1) \in Seq(S) /\ s[i] \in S
    <2>1. \A j \in 1 .. i - 1 : s[j] \in S
      BY <1>1, ElementOfSeq
    <2>2. i - 1 \in Int
      BY <1>1
    <2>3. QED
      BY <2>1, <2>2, SubSeqProperties, ElementOfSeq
  <1>4. QED
    BY <1>2, <1>3

(* h is the way of a reader over ss, which stand for vals.                 *)
IsReading(h, ss, vals, tail) ==
    /\ h[0] = <<<<>>, FlattenSeq(ss) \o tail>>
    /\ h[Len(ss)] = <<vals, tail>>
    /\ h \in [0 .. Len(ss) -> Seq(Range(vals)) \X File]
    /\ \A i \in 1 .. Len(ss) :
         \E r \in File : /\ h[i - 1][2] = ss[i] \o r
                         /\ h[i] = <<Append(h[i - 1][1], vals[i]), r>>

LEMMA ReadingExists ==
  ASSUME NEW ss \in Seq(File), NEW S, NEW vals \in Seq(S), Len(vals) = Len(ss), NEW tail \in File
  PROVE  \E h : IsReading(h, ss, vals, tail)
  <1> DEFINE n == Len(ss)
             V == Range(vals)
             total == FlattenSeq(ss) \o tail
  <1>1. n \in Nat /\ (\A j \in 1 .. n : ss[j] \in File) /\ vals \in Seq(V)
    BY LenProperties, ElementOfSeq DEF Range
  <1>2. PICK f : IsFlattening(f, ss, Byte)
    BY FlattenSteps DEF File
  <1>3. /\ \A j \in 0 .. n : f[j] \in File
        /\ \A j \in 1 .. n : f[j] = f[j - 1] \o ss[j]
        /\ f[0] = <<>> /\ FlattenSeq(ss) = f[n]
    BY <1>2 DEF IsFlattening, File
  <1> DEFINE left(i) == After(total, Len(f[i]))
             h == [i \in 0 .. n |-> <<SubSeq(vals, 1, i), left(i)>>]
  <1>4. \A i \in 0 .. n : left(i) \in File /\ total = f[i] \o left(i)
    <2>1. SUFFICES ASSUME NEW i \in 0 .. n PROVE left(i) \in File /\ total = f[i] \o left(i)
      OBVIOUS
    <2>2. PICK r \in File : FlattenSeq(ss) = f[i] \o r
      BY <1>2, FlatCut
    <2>3. f[i] \in File
      BY <1>3
    <2>4. total = f[i] \o (r \o tail) /\ r \o tail \in File
      <3>1. (f[i] \o r) \o tail = f[i] \o (r \o tail)
        BY <2>3, FileAssociative, Zenon
      <3>2. QED
        BY <2>2, <3>1, FileConcat
    <2> HIDE DEF total
    <2>5. left(i) = r \o tail
      <3> DEFINE t == r \o tail
      <3>1. t \in File
        BY <2>4
      <3> HIDE DEF t
      <3>2. After(f[i] \o t, Len(f[i])) = t
        BY <2>3, <3>1, AfterConcat
      <3>3. QED
        BY <2>4, <3>2 DEF t
    <2>6. QED
      BY <2>4, <2>5
  <1>5. \A i \in 1 .. n : left(i - 1) = ss[i] \o left(i)
    <2>1. SUFFICES ASSUME NEW i \in 1 .. n PROVE left(i - 1) = ss[i] \o left(i)
      OBVIOUS
    <2>2. i - 1 \in 0 .. n /\ i \in 0 .. n
      BY <1>1
    <2> DEFINE r == left(i)
    <2>3. /\ r \in File /\ total = f[i] \o r /\ f[i] = f[i - 1] \o ss[i]
          /\ f[i - 1] \in File /\ ss[i] \in File
      BY <1>1, <1>3, <1>4, <2>2
    <2> HIDE DEF r, total
    <2>4. total = f[i - 1] \o (ss[i] \o r)
      <3>1. (f[i - 1] \o ss[i]) \o r = f[i - 1] \o (ss[i] \o r)
        BY <2>3, FileAssociative, Zenon
      <3>2. QED
        BY <2>3, <3>1
    <2>5. ss[i] \o r \in File
      BY <2>3, FileConcat
    <2>6. After(f[i - 1] \o (ss[i] \o r), Len(f[i - 1])) = ss[i] \o r
      <3> DEFINE t == ss[i] \o r
      <3>1. t \in File
        BY <2>5
      <3> HIDE DEF t
      <3>2. After(f[i - 1] \o t, Len(f[i - 1])) = t
        BY <2>3, <3>1, AfterConcat
      <3>3. QED
        BY <3>2 DEF t
    <2>7. QED
      BY <2>4, <2>6 DEF r
  <1>6. \A i \in 1 .. n : SubSeq(vals, 1, i) = Append(SubSeq(vals, 1, i - 1), vals[i])
    BY SubSeqGrows
  <1>7. \A i \in 0 .. n : SubSeq(vals, 1, i) \in Seq(V)
    <2>1. SUFFICES ASSUME NEW i \in 0 .. n PROVE SubSeq(vals, 1, i) \in Seq(V)
      OBVIOUS
    <2>2. i \in Int /\ \A j \in 1 .. i : vals[j] \in V
      <3>1. \A j \in 1 .. i : j \in 1 .. Len(vals)
        BY <1>1
      <3>2. QED
        BY <1>1, <3>1, ElementOfSeq
    <2>3. QED
      BY <2>2, SubSeqProperties
  <1>8. SubSeq(vals, 1, 0) = <<>> /\ SubSeq(vals, 1, n) = vals
    BY <1>1, SubSeqEmpty, SubSeqFull
  <1>9. left(0) = total /\ left(n) = tail
    <2>1. 0 \in 0 .. n /\ n \in 0 .. n /\ FlattenSeq(ss) \in File
      BY <1>1, <1>3
    <2>2. left(n) = tail
      BY <1>3, <2>1, AfterConcat
    <2> DEFINE t == left(0)
    <2>3. t \in File /\ total = <<>> \o t
      BY <1>3, <1>4, <2>1
    <2> HIDE DEF t, total
    <2>4. total = t
      BY <2>3, ConcatEmptySeq DEF File
    <2>5. QED
      BY <2>2, <2>4 DEF t
  <1> HIDE DEF total, left
  <1>10. h[0] = <<<<>>, total>> /\ h[n] = <<vals, tail>>
    <2>1. 0 \in 0 .. n /\ n \in 0 .. n
      BY <1>1
    <2>2. QED
      BY <1>8, <1>9, <2>1
  <1>11. h \in [0 .. n -> Seq(V) \X File]
    <2> HIDE DEF V
    <2>1. QED
      BY <1>4, <1>7
  <1>12. ASSUME NEW i \in 1 .. n
         PROVE  \E r \in File : h[i - 1][2] = ss[i] \o r /\ h[i] = <<Append(h[i - 1][1], vals[i]), r>>
    <2>1. i - 1 \in 0 .. n /\ i \in 0 .. n
      BY <1>1
    <2>2. /\ h[i - 1][1] = SubSeq(vals, 1, i - 1) /\ h[i - 1][2] = left(i - 1)
          /\ h[i] = <<SubSeq(vals, 1, i), left(i)>>
      BY <2>1
    <2> HIDE DEF h
    <2>3. left(i) \in File
      BY <1>4, <2>1
    <2>4. QED
      BY <1>5, <1>6, <2>2, <2>3
  <1> HIDE DEF h
  <1>13. IsReading(h, ss, vals, tail)
    BY <1>10, <1>11, <1>12 DEF IsReading, total, V, n
  <1>14. QED
    BY <1>13

(* Two accounts that begin alike and go on alike end alike. *)
LEMMA SameEnd ==
  ASSUME NEW k, k \in Nat, NEW f, NEW g, g[0] = f[0],
         \A i \in 1 .. k : g[i - 1] = f[i - 1] => g[i] = f[i]
  PROVE  g[k] = f[k]
  <1>1. \A i \in 0 .. k : g[i] = f[i]
    BY SameSteps
  <1>2. QED
    BY <1>1

(* Any number of varints. *)
LEMMA VarintsRead ==
  ASSUME NEW ns \in Seq(Nat), NEW tail \in File
  PROVE  Repeated(ReadVarint, VarintsOf(ns) \o tail, Len(ns))
           = <<[i \in 1 .. Len(ns) |-> ns[i] % WordEnd], tail>>
  <1> DEFINE k == Len(ns)
             ss == [i \in 1 .. k |-> Varint(ns[i])]
             vals == [i \in 1 .. k |-> ns[i] % WordEnd]
             bytes == FlattenSeq(ss) \o tail
             Body(n, h) == IF n = 0 THEN <<<<>>, bytes>>
                           ELSE <<Append(h[n - 1][1], ReadVarint(h[n - 1][2])[1]),
                                  ReadVarint(h[n - 1][2])[2]>>
             at == CHOOSE h : h = [n \in 0 .. k |-> Body(n, h)]
  <1>1. k \in Nat /\ DOMAIN ns = 1 .. k /\ \A i \in 1 .. k : ns[i] \in Nat
    BY LenProperties, ElementOfSeq
  <1> HIDE DEF k
  <1>2. ss \in Seq(File) /\ Len(ss) = k
    <2>1. \A i \in 1 .. k : Varint(ns[i]) \in File
      BY <1>1, VarintBytes
    <2>2. ss \in [1 .. k -> File]
      BY <2>1
    <2> HIDE DEF ss
    <2>3. QED
      BY <1>1, <2>2, IsSeq
  <1>3. vals \in Seq(Nat) /\ Len(vals) = k
    <2>1. \A i \in 1 .. k : ns[i] % WordEnd \in Nat
      BY <1>1 DEF WordEnd
    <2>2. vals \in [1 .. k -> Nat]
      BY <2>1
    <2> HIDE DEF vals
    <2>3. QED
      BY <1>1, <2>2, IsSeq
  <1>4. Repeated(ReadVarint, bytes, k) = at[k]
    BY DEF Repeated, Then
  <1>5. VarintsOf(ns) = FlattenSeq(ss)
    BY <1>1 DEF VarintsOf
  <1>6. \A i \in 1 .. k, r \in File : ReadVarint(ss[i] \o r) = <<vals[i], r>>
    <2>1. SUFFICES ASSUME NEW i \in 1 .. k, NEW r \in File
                   PROVE  ReadVarint(ss[i] \o r) = <<vals[i], r>>
      OBVIOUS
    <2>2. ss[i] = Varint(ns[i]) /\ vals[i] = ns[i] % WordEnd
      OBVIOUS
    <2> HIDE DEF ss, vals
    <2>3. QED
      BY <1>1, <2>2, VarintRead
  <1> HIDE DEF ss, vals
  <1>7. PICK f : IsReading(f, ss, vals, tail)
    BY <1>2, <1>3, ReadingExists
  <1>8. /\ f[0] = <<<<>>, bytes>> /\ f[k] = <<vals, tail>>
        /\ f \in [0 .. k -> Seq(Range(vals)) \X File]
        /\ \A i \in 1 .. k : \E r \in File : /\ f[i - 1][2] = ss[i] \o r
                                             /\ f[i] = <<Append(f[i - 1][1], vals[i]), r>>
    BY <1>2, <1>7, Zenon DEF IsReading
  <1>9. \A h : \A i \in 1 .. k : h[i - 1] = f[i - 1] => Body(i, h) = f[i]
    <2>1. SUFFICES ASSUME NEW h, NEW i \in 1 .. k, h[i - 1] = f[i - 1] PROVE Body(i, h) = f[i]
      OBVIOUS
    <2>2. PICK r \in File : f[i - 1][2] = ss[i] \o r /\ f[i] = <<Append(f[i - 1][1], vals[i]), r>>
      BY <1>8
    <2>3. ReadVarint(h[i - 1][2]) = <<vals[i], r>>
      BY <1>6, <2>1, <2>2
    <2>4. i # 0
      BY <1>1
    <2>5. Body(i, h) = <<Append(h[i - 1][1], ReadVarint(h[i - 1][2])[1]), ReadVarint(h[i - 1][2])[2]>>
      BY <2>4
    <2> HIDE DEF Body
    <2>6. QED
      BY <2>1, <2>2, <2>3, <2>5
  <1>10. \A h : Body(0, h) = f[0]
    BY <1>8
  <1> HIDE DEF Body
  <1>11. f = [n \in 0 .. k |-> Body(n, f)]
    <2>1. \A n \in 0 .. k : n = 0 \/ n \in 1 .. k
      BY <1>1
    <2>2. \A n \in 0 .. k : f[n] = Body(n, f)
      BY <1>9, <1>10, <2>1, Zenon
    <2>3. QED
      BY <1>8, <2>2
  <1>12. at = [n \in 0 .. k |-> Body(n, at)]
    BY <1>11, Zenon
  <1> HIDE DEF at
  <1>13. at[k] = f[k]
    <2>1. 0 \in 0 .. k /\ k \in 0 .. k /\ \A i \in 1 .. k : i \in 0 .. k
      BY <1>1
    <2>2. at[0] = f[0]
      BY <1>10, <1>12, <2>1, Zenon
    <2>3. \A i \in 1 .. k : at[i - 1] = f[i - 1] => at[i] = f[i]
      BY <1>9, <1>12, <2>1, Zenon
    <2>4. k \in Nat
      BY <1>1
    <2>5. ASSUME NEW g, g[0] = f[0], \A i \in 1 .. k : g[i - 1] = f[i - 1] => g[i] = f[i]
          PROVE  g[k] = f[k]
      BY <2>4, <2>5, SameEnd
    <2>6. QED
      BY <2>2, <2>3, <2>5
  <1>14. QED
    BY <1>4, <1>5, <1>8, <1>13 DEF vals, k, ss, at, Body

-----------------------------------------------------------------------------
(* Packed strings.                                                         *)

(* Each of the characters of a set has a code. *)
LEMMA CodeFacts ==
  ASSUME NEW set \in File, NEW char \in ToSet(set)
  PROVE  CodeIn(set, char) \in 0 .. Len(set) - 1 /\ set[CodeIn(set, char) + 1] = char
  <1> DEFINE I == {i \in 1 .. Len(set) : set[i] = char}
  <1>1. Len(set) \in Nat /\ I \subseteq Nat /\ I # {}
    <2>1. Len(set) \in Nat /\ DOMAIN set = 1 .. Len(set)
      BY FileFacts
    <2>2. \E i \in DOMAIN set : set[i] = char
      BY DEF ToSet
    <2>3. QED
      BY <2>1, <2>2
  <1>2. PICK k \in I : \A y \in I : k <= y
    BY <1>1, LeastNat
  <1>3. Min(I) = k
    BY <1>1, <1>2, MinIs
  <1>4. SelectInSeq(set, LAMBDA c : c = char) = IF I # {} THEN Min(I) ELSE 0
    BY Zenon DEF SelectInSeq
  <1>5. CodeIn(set, char) = k - 1
    BY <1>1, <1>3, <1>4 DEF CodeIn
  <1>6. k \in 1 .. Len(set) /\ set[k] = char
    BY <1>2
  <1>7. QED
    BY <1>1, <1>5, <1>6

(* How many characters there are in the sets.                              *)
LEMMA Charsets ==
  /\ \A set \in {NumericSet, PhoneSet, IdentifierSet} : set \in File /\ Len(set) = 15
  /\ FiveBitSet \in File /\ Len(FiveBitSet) = 32
  <1>1. Digits \in File /\ Len(Digits) = 10
    <2>1. Digits \in [1 .. 10 -> Byte]
      BY DEF Digits, Byte
    <2>2. QED
      BY <2>1, MakesFile
  <1>2. ASSUME NEW t \in File, Len(t) = 5 PROVE Digits \o t \in File /\ Len(Digits \o t) = 15
    <2>1. Digits \o t \in File /\ Len(Digits \o t) = Len(Digits) + Len(t)
      BY <1>1, FileConcat
    <2>2. QED
      BY <1>1, <1>2, <2>1
  <1>3. /\ <<44, 45, 32, 47, 46>> \in File /\ Len(<<44, 45, 32, 47, 46>>) = 5
        /\ <<40, 41, 43, 32, 45>> \in File /\ Len(<<40, 41, 43, 32, 45>>) = 5
        /\ <<81, 97, 98, 32, 46>> \in File /\ Len(<<81, 97, 98, 32, 46>>) = 5
    BY DEF File, Byte
  <1>4. \A set \in {NumericSet, PhoneSet, IdentifierSet} : set \in File /\ Len(set) = 15
    <2> DEFINE a == <<44, 45, 32, 47, 46>>
               b == <<40, 41, 43, 32, 45>>
               c == <<81, 97, 98, 32, 46>>
    <2>1. NumericSet = Digits \o a /\ PhoneSet = Digits \o b /\ IdentifierSet = Digits \o c
      BY DEF NumericSet, PhoneSet, IdentifierSet
    <2>2. a \in File /\ Len(a) = 5 /\ b \in File /\ Len(b) = 5 /\ c \in File /\ Len(c) = 5
      BY <1>3
    <2> HIDE DEF a, b, c
    <2>3. /\ Digits \o a \in File /\ Len(Digits \o a) = 15
          /\ Digits \o b \in File /\ Len(Digits \o b) = 15
          /\ Digits \o c \in File /\ Len(Digits \o c) = 15
      BY <1>2, <2>2
    <2>4. QED
      BY <2>1, <2>3
  <1>5. FiveBitSet \in File /\ Len(FiveBitSet) = 32
    <2> DEFINE a == [i \in 1 .. 26 |-> 96 + i]
               b == <<58, 95, 45, 47, 46, 32>>
    <2>1. a \in [1 .. 26 -> Byte]
      BY DEF Byte
    <2>2. a \in File /\ Len(a) = 26
      BY <2>1, MakesFile
    <2>3. b \in File /\ Len(b) = 6
      BY DEF File, Byte
    <2>4. FiveBitSet = a \o b
      BY DEF FiveBitSet
    <2> HIDE DEF a, b
    <2>5. a \o b \in File /\ Len(a \o b) = Len(a) + Len(b)
      BY <2>2, <2>3, FileConcat
    <2>6. QED
      BY <2>2, <2>3, <2>4, <2>5
  <1>6. QED
    BY <1>4, <1>5

(* Two half bytes. *)
LEMMA HalfBytes ==
  ASSUME NEW a \in 0 .. 15, NEW b \in 0 .. 15
  PROVE  /\ 16 * a + b \in Byte
         /\ (16 * a + b) \div 16 = a /\ (16 * a + b) % 16 = b
  BY DEF Byte

(* What is packed by half bytes is read as it was, with its header.        *)
LEMMA FourBitsRead ==
  ASSUME NEW set \in File, Len(set) = 15, NEW s \in File, InSet(s, set), Len(s) % 2 = 1
  PROVE  /\ FourBits(s, set) \in File
         /\ \A rest \in File : ReadFourBits(FourBits(s, set) \o rest, set) = <<s, rest>>
  <1> DEFINE code(i) == IF i > Len(s) THEN EndNibble ELSE CodeIn(set, s[i])
             m == (Len(s) + 1) \div 2
             b == [k \in 1 .. m |-> 16 * code(2 * k - 1) + code(2 * k)]
  <1>1. Len(s) \in Nat /\ m \in Nat /\ Len(s) = 2 * m - 1 /\ m >= 1
    <2>1. Len(s) \in Nat
      BY FileFacts
    <2> DEFINE n == Len(s)
    <2>2. n \in Nat /\ n % 2 = 1 /\ m = (n + 1) \div 2
      BY <2>1
    <2> HIDE DEF n, m
    <2>3. QED
      BY <2>2 DEF n
  <1>2. \A i \in 1 .. Len(s) : code(i) \in 0 .. 14 /\ set[code(i) + 1] = s[i]
    <2>1. \A i \in 1 .. Len(s) : s[i] \in ToSet(set) /\ code(i) = CodeIn(set, s[i])
      BY FileFacts DEF InSet
    <2>2. SUFFICES ASSUME NEW i \in 1 .. Len(s)
                   PROVE  code(i) \in 0 .. 14 /\ set[code(i) + 1] = s[i]
      OBVIOUS
    <2> DEFINE char == s[i]
    <2>3. char \in ToSet(set) /\ code(i) = CodeIn(set, char)
      BY <2>1
    <2> HIDE DEF code, char
    <2>4. CodeIn(set, char) \in 0 .. Len(set) - 1 /\ set[CodeIn(set, char) + 1] = char
      BY <2>3, CodeFacts
    <2>5. QED
      BY <2>3, <2>4 DEF char
  <1>3. code(2 * m) = 15
    BY <1>1 DEF EndNibble
  <1>4. FourBits(s, set) = b
    BY DEF FourBits
  <1> HIDE DEF code, m
  <1>5. \A i \in 1 .. 2 * m : code(i) \in 0 .. 15 /\ (code(i) = 15 <=> i = 2 * m)
    BY <1>1, <1>2, <1>3
  <1>6. \A k \in 1 .. m : b[k] \in Byte /\ b[k] \div 16 = code(2 * k - 1) /\ b[k] % 16 = code(2 * k)
    <2>1. SUFFICES ASSUME NEW k \in 1 .. m
                   PROVE  b[k] \in Byte /\ b[k] \div 16 = code(2 * k - 1) /\ b[k] % 16 = code(2 * k)
      OBVIOUS
    <2>2. 2 * k - 1 \in 1 .. 2 * m /\ 2 * k \in 1 .. 2 * m
      BY <1>1
    <2>3. code(2 * k - 1) \in 0 .. 15 /\ code(2 * k) \in 0 .. 15
      BY <1>5, <2>2
    <2>4. b[k] = 16 * code(2 * k - 1) + code(2 * k)
      OBVIOUS
    <2> HIDE DEF b
    <2>5. PICK x \in 0 .. 15 : x = code(2 * k - 1)
      BY <2>3
    <2>6. PICK y \in 0 .. 15 : y = code(2 * k)
      BY <2>3
    <2>7. b[k] = 16 * x + y
      BY <2>4, <2>5, <2>6
    <2>8. 16 * x + y \in Byte /\ (16 * x + y) \div 16 = x /\ (16 * x + y) % 16 = y
      BY HalfBytes
    <2>9. QED
      BY <2>5, <2>6, <2>7, <2>8
  <1>7. b \in File /\ Len(b) = m
    <2>1. b \in [1 .. m -> Byte]
      BY <1>6
    <2> HIDE DEF b
    <2>2. QED
      BY <1>1, <2>1, MakesFile
  <1> HIDE DEF b
  <1>8. ASSUME NEW rest \in File PROVE ReadFourBits(b \o rest, set) = <<s, rest>>
    <2> DEFINE u == b \o rest
               codes == [j \in 1 .. 2 * Len(u) |->
                           IF j % 2 = 1 THEN u[(j + 1) \div 2] \div 16 ELSE u[j \div 2] % 16]
               I == {i \in 1 .. Len(codes) : codes[i] = EndNibble}
               string(n) == [j \in 1 .. n |-> set[codes[j] + 1]]
    <2>1. u \in File /\ Len(u) \in Nat /\ m <= Len(u) /\ \A k \in 1 .. m : u[k] = b[k]
      <3>1. rest \in File
        OBVIOUS
      <3>2. u \in File /\ Len(u) = Len(b) + Len(rest) /\ Len(rest) \in Nat
            /\ \A k \in 1 .. Len(b) + Len(rest) : u[k] = IF k <= Len(b) THEN b[k] ELSE rest[k - Len(b)]
        BY <1>7, FileConcat, FileFacts
      <3> HIDE DEF u
      <3>3. QED
        BY <1>1, <1>7, <3>2
    <2>2. After(u, m) = rest
      BY <1>7, AfterConcat
    <2> HIDE DEF u
    <2>3. Len(codes) = 2 * Len(u)
      <3>1. \A j \in 1 .. 2 * Len(u) : codes[j] \in Nat
        <4>1. SUFFICES ASSUME NEW j \in 1 .. 2 * Len(u) PROVE codes[j] \in Nat
          OBVIOUS
        <4>2. (j + 1) \div 2 \in 1 .. Len(u) /\ (j % 2 # 1 => j \div 2 \in 1 .. Len(u))
          BY <2>1
        <4>3. u[(j + 1) \div 2] \in 0 .. 255 /\ (j % 2 # 1 => u[j \div 2] \in 0 .. 255)
          BY <2>1, <4>2, FileFacts DEF Byte
        <4>4. codes[j] = IF j % 2 = 1 THEN u[(j + 1) \div 2] \div 16 ELSE u[j \div 2] % 16
          OBVIOUS
        <4> HIDE DEF codes
        <4>5. \A x \in 0 .. 255 : x \div 16 \in Nat /\ x % 16 \in Nat
          OBVIOUS
        <4>6. CASE j % 2 = 1
          <5>1. codes[j] = u[(j + 1) \div 2] \div 16
            BY <4>4, <4>6
          <5>2. QED
            BY <4>3, <4>5, <5>1
        <4>7. CASE j % 2 # 1
          <5>1. codes[j] = u[j \div 2] % 16
            BY <4>4, <4>7
          <5>2. QED
            BY <4>3, <4>5, <4>7, <5>1
        <4>8. QED
          BY <4>6, <4>7
      <3>2. codes \in [1 .. 2 * Len(u) -> Nat]
        BY <3>1
      <3> HIDE DEF codes
      <3>3. 2 * Len(u) \in Nat
        BY <2>1
      <3>4. QED
        BY <3>2, <3>3, IsSeq
    <2>4. \A j \in 1 .. 2 * m : codes[j] = code(j)
      <3>1. SUFFICES ASSUME NEW j \in 1 .. 2 * m PROVE codes[j] = code(j)
        OBVIOUS
      <3>2. j \in 1 .. 2 * Len(u)
        BY <1>1, <2>1
      <3>3. CASE j % 2 = 1
        <4> DEFINE k == (j + 1) \div 2
        <4>1. k \in 1 .. m /\ j = 2 * k - 1
          BY <1>1, <3>3
        <4>2. codes[j] = u[k] \div 16
          BY <3>2, <3>3
        <4> HIDE DEF k
        <4>3. QED
          BY <1>6, <2>1, <4>1, <4>2
      <3>4. CASE j % 2 # 1
        <4> DEFINE k == j \div 2
        <4>1. k \in 1 .. m /\ j = 2 * k
          BY <1>1, <3>4
        <4>2. codes[j] = u[k] % 16
          BY <3>2, <3>4
        <4> HIDE DEF k
        <4>3. QED
          BY <1>6, <2>1, <4>1, <4>2
      <3>5. QED
        BY <3>3, <3>4
    <2>5. ReadFourBits(u, set)
            = LET end == SelectInSeq(codes, LAMBDA c : c = EndNibble)
              IN  IF end = 0 THEN <<string(2 * Len(u)), <<>>>>
                  ELSE <<string(end - 1), After(u, (end + 1) \div 2)>>
      BY DEF ReadFourBits
    <2>6. SelectInSeq(codes, LAMBDA c : c = EndNibble) = IF I # {} THEN Min(I) ELSE 0
      BY Zenon DEF SelectInSeq
    <2> HIDE DEF codes
    <2>7. Min(I) = 2 * m /\ I # {}
      <3>1. I \subseteq Nat /\ 2 * m \in I
        BY <1>1, <1>3, <2>1, <2>3, <2>4 DEF EndNibble
      <3>2. \A y \in I : 2 * m <= y
        <4>1. \A y \in I : y \in Nat /\ y >= 1 /\ codes[y] = 15
          BY DEF EndNibble
        <4> HIDE DEF I
        <4>2. SUFFICES ASSUME NEW y \in I, ~ (2 * m <= y) PROVE FALSE
          OBVIOUS
        <4>3. y \in 1 .. 2 * m /\ y # 2 * m /\ code(y) = 15
          BY <1>1, <2>4, <4>1, <4>2
        <4>4. QED
          BY <1>5, <4>3
      <3> HIDE DEF I
      <3>3. QED
        BY <3>1, <3>2, MinIs
    <2>8. string(2 * m - 1) = s
      <3>1. \A j \in 1 .. 2 * m - 1 : set[codes[j] + 1] = s[j]
        <4>1. \A j \in 1 .. 2 * m - 1 : j \in 1 .. 2 * m /\ j \in 1 .. Len(s)
          BY <1>1
        <4>2. QED
          BY <1>2, <2>4, <4>1
      <3>2. s = [j \in 1 .. 2 * m - 1 |-> s[j]]
        BY <1>1 DEF File
      <3>3. QED
        BY <3>1, <3>2
    <2> HIDE DEF I, string
    <2>9. (2 * m + 1) \div 2 = m /\ 2 * m # 0
      BY <1>1
    <2>10. ReadFourBits(u, set) = <<string(2 * m - 1), After(u, (2 * m + 1) \div 2)>>
      BY <2>5, <2>6, <2>7, <2>9
    <2>11. QED
      BY <2>2, <2>8, <2>9, <2>10 DEF u
  <1>9. QED
    BY <1>4, <1>7, <1>8

(* Pairs of bytes one after another. *)
LEMMA PairsFlat ==
  ASSUME NEW n \in Nat, NEW pairs \in Seq(File), Len(pairs) = n,
         \A k \in 1 .. n : Len(pairs[k]) = 2
  PROVE  /\ FlattenSeq(pairs) \in File /\ Len(FlattenSeq(pairs)) = 2 * n
         /\ \A k \in 1 .. n : /\ FlattenSeq(pairs)[2 * k - 1] = pairs[k][1]
                              /\ FlattenSeq(pairs)[2 * k] = pairs[k][2]
  <1>1. PICK f : IsFlattening(f, pairs, Byte)
    BY FlattenSteps DEF File
  <1>2. /\ f[0] = <<>> /\ FlattenSeq(pairs) = f[n] /\ \A i \in 0 .. n : f[i] \in File
        /\ \A i \in 1 .. n : f[i] = f[i - 1] \o pairs[i]
    BY <1>1 DEF IsFlattening, File
  <1> DEFINE Good(i) == /\ Len(f[i]) = 2 * i
                        /\ \A k \in 1 .. i : /\ f[i][2 * k - 1] = pairs[k][1]
                                             /\ f[i][2 * k] = pairs[k][2]
             T == {i \in 0 .. n : Good(i)}
  <1>3. Good(0)
    BY <1>2
  <1>4. ASSUME NEW i \in 0 .. n - 1, Good(i) PROVE Good(i + 1)
    <2> DEFINE g == f[i]
               p == pairs[i + 1]
    <2>1. i + 1 \in 1 .. n /\ (i + 1) - 1 = i /\ i \in 0 .. n /\ i + 1 \in 0 .. n
      OBVIOUS
    <2>2. f[i + 1] = g \o p /\ g \in File /\ p \in File /\ Len(p) = 2
      <3>1. pairs[i + 1] \in File
        BY <2>1, ElementOfSeq
      <3>2. QED
        BY <1>2, <2>1, <3>1
    <2>3. /\ Len(g) = 2 * i
          /\ \A k \in 1 .. i : g[2 * k - 1] = pairs[k][1] /\ g[2 * k] = pairs[k][2]
      BY <1>4
    <2>4. p = pairs[i + 1]
      OBVIOUS
    <2> HIDE DEF g, p
    <2>5. /\ Len(g \o p) = 2 * i + 2
          /\ \A j \in 1 .. 2 * i + 2 : (g \o p)[j] = IF j <= 2 * i THEN g[j] ELSE p[j - 2 * i]
      <3>1. /\ Len(g \o p) = Len(g) + Len(p)
            /\ \A j \in 1 .. Len(g) + Len(p) :
                 (g \o p)[j] = IF j <= Len(g) THEN g[j] ELSE p[j - Len(g)]
        BY <2>2, FileConcat
      <3>2. QED
        BY <2>2, <2>3, <3>1
    <2>6. Len(f[i + 1]) = 2 * (i + 1)
      BY <2>2, <2>5
    <2>7. ASSUME NEW k \in 1 .. i + 1
          PROVE  f[i + 1][2 * k - 1] = pairs[k][1] /\ f[i + 1][2 * k] = pairs[k][2]
      <3>1. CASE k = i + 1
        <4>1. 2 * k - 1 = 2 * i + 1 /\ 2 * k = 2 * i + 2
          BY <3>1
        <4>2. 2 * i + 1 \in 1 .. 2 * i + 2 /\ 2 * i + 2 \in 1 .. 2 * i + 2
          OBVIOUS
        <4>3. (g \o p)[2 * i + 1] = p[1] /\ (g \o p)[2 * i + 2] = p[2]
          <5>1. /\ ~ (2 * i + 1 <= 2 * i) /\ ~ (2 * i + 2 <= 2 * i)
                /\ (2 * i + 1) - 2 * i = 1 /\ (2 * i + 2) - 2 * i = 2
            OBVIOUS
          <5>2. /\ (g \o p)[2 * i + 1] = p[(2 * i + 1) - 2 * i]
                /\ (g \o p)[2 * i + 2] = p[(2 * i + 2) - 2 * i]
            BY <2>5, <4>2, <5>1
          <5>3. QED
            BY <5>1, <5>2
        <4>4. QED
          BY <2>2, <2>4, <3>1, <4>1, <4>3
      <3>2. CASE k \in 1 .. i
        <4>1. /\ 2 * k - 1 \in 1 .. 2 * i + 2 /\ 2 * k \in 1 .. 2 * i + 2
              /\ 2 * k - 1 <= 2 * i /\ 2 * k <= 2 * i
          BY <3>2
        <4>2. (g \o p)[2 * k - 1] = g[2 * k - 1] /\ (g \o p)[2 * k] = g[2 * k]
          BY <2>5, <4>1
        <4>3. QED
          BY <2>2, <2>3, <3>2, <4>2
      <3>3. QED
        BY <3>1, <3>2
    <2>8. QED
      BY <2>6, <2>7
  <1>5. 0 \in T /\ \A i \in 0 .. n - 1 : i \in T => i + 1 \in T
    <2>1. \A i \in 0 .. n - 1 : Good(i) => Good(i + 1)
      BY <1>4
    <2> HIDE DEF Good
    <2>2. QED
      BY <1>3, <2>1
  <1> HIDE DEF T
  <1>6. \A i \in 0 .. n : i \in T
    BY <1>5, Upwards
  <1>7. Good(n)
    BY <1>6 DEF T
  <1>8. f[n] \in File
    BY <1>2
  <1>9. QED
    BY <1>2, <1>7, <1>8

(* Two bytes of a section.                                                 *)
LEMMA TwoBytes ==
  ASSUME NEW v \in Nat, v <= 65535
  PROVE  v \div 256 \in Byte /\ v % 256 \in Byte /\ (v \div 256) * 256 + (v % 256) = v
  <1>1. v \div 256 \in Nat /\ v \div 256 <= 255
    OBVIOUS
  <1>2. v % 256 \in Nat /\ v % 256 <= 255
    OBVIOUS
  <1>3. (v \div 256) * 256 + (v % 256) = v
    BY SMT
  <1>4. QED
    BY <1>1, <1>2, <1>3 DEF Byte

(* Three codes of five bits and the mark in two bytes. *)
Packed(a, b, c, mark) == 2048 * a + 64 * b + 2 * c + mark

Unpacks(v, a, b, c, mark) ==
    /\ (v \div 2048) % 32 = a /\ (v \div 64) % 32 = b /\ (v \div 2) % 32 = c
    /\ v % 2 = mark /\ v \div 256 \in Byte /\ v % 256 \in Byte
    /\ (v \div 256) * 256 + (v % 256) = v

LEMMA Unpacked ==
  ASSUME NEW a \in 0 .. 31, NEW b \in 0 .. 31, NEW c \in 0 .. 31, NEW mark \in 0 .. 1
  PROVE  Unpacks(Packed(a, b, c, mark), a, b, c, mark)
  <1> DEFINE v == Packed(a, b, c, mark)
  <1>1. v \in Nat /\ v <= 65535
    <2>1. /\ a \in Nat /\ b \in Nat /\ c \in Nat /\ mark \in Nat
          /\ a <= 31 /\ b <= 31 /\ c <= 31 /\ mark <= 1
      OBVIOUS
    <2>2. QED
      BY <2>1 DEF Packed
  <1>2. v \div 2048 = a
    BY DEF Packed
  <1>3. v \div 64 = 32 * a + b
    BY DEF Packed
  <1>4. v \div 2 = 1024 * a + 32 * b + c
    BY DEF Packed
  <1>5. v % 2 = mark
    BY DEF Packed
  <1>6. v \div 256 \in Byte /\ v % 256 \in Byte /\ (v \div 256) * 256 + (v % 256) = v
    <2> HIDE DEF v
    <2>1. QED
      BY <1>1, TwoBytes
  <1>7. (32 * a + b) % 32 = b /\ (1024 * a + 32 * b + c) % 32 = c /\ a % 32 = a
    OBVIOUS
  <1> HIDE DEF v
  <1>8. QED
    <2>1. /\ (v \div 2048) % 32 = a /\ (v \div 64) % 32 = b /\ (v \div 2) % 32 = c
          /\ v % 2 = mark /\ v \div 256 \in Byte /\ v % 256 \in Byte
          /\ (v \div 256) * 256 + (v % 256) = v
      BY <1>2, <1>3, <1>4, <1>5, <1>6, <1>7
    <2>2. QED
      BY <2>1 DEF v, Unpacks

(* The sections of n triples of codes. *)
SectionOf(code, k, n) ==
    Packed(code[3 * k - 2], code[3 * k - 1], code[3 * k], IF k = n THEN 1 ELSE 0)

SectionPairs(code, n) ==
    [k \in 1 .. n |-> <<SectionOf(code, k, n) \div 256, SectionOf(code, k, n) % 256>>]

(* A section has its three codes, and the last one has the mark.           *)
LEMMA SectionFacts ==
  ASSUME NEW n \in Nat, NEW code \in [1 .. 3 * n -> 0 .. 31], NEW k \in 1 .. n
  PROVE  Unpacks(SectionOf(code, k, n), code[3 * k - 2], code[3 * k - 1], code[3 * k],
                 IF k = n THEN 1 ELSE 0)
  <1>1. 3 * k - 2 \in 1 .. 3 * n /\ 3 * k - 1 \in 1 .. 3 * n /\ 3 * k \in 1 .. 3 * n
    OBVIOUS
  <1>2. PICK a \in 0 .. 31 : a = code[3 * k - 2]
    BY <1>1
  <1>3. PICK b \in 0 .. 31 : b = code[3 * k - 1]
    BY <1>1
  <1>4. PICK c \in 0 .. 31 : c = code[3 * k]
    BY <1>1
  <1>5. PICK mark \in 0 .. 1 : mark = IF k = n THEN 1 ELSE 0
    OBVIOUS
  <1>6. SectionOf(code, k, n) = Packed(a, b, c, mark)
    BY <1>2, <1>3, <1>4, <1>5 DEF SectionOf
  <1>7. Unpacks(Packed(a, b, c, mark), a, b, c, mark)
    BY Unpacked
  <1>8. QED
    BY <1>2, <1>3, <1>4, <1>5, <1>6, <1>7

(* The bytes of the sections, one after another.                           *)
LEMMA SectionsFlat ==
  ASSUME NEW n \in Nat, NEW code \in [1 .. 3 * n -> 0 .. 31]
  PROVE  LET flat == FlattenSeq(SectionPairs(code, n))
         IN  /\ flat \in File /\ Len(flat) = 2 * n
             /\ \A k \in 1 .. n : /\ flat[2 * k - 1] = SectionOf(code, k, n) \div 256
                                  /\ flat[2 * k] = SectionOf(code, k, n) % 256
  <1> DEFINE pairs == SectionPairs(code, n)
  <1>1. \A k \in 1 .. n : /\ pairs[k] = <<SectionOf(code, k, n) \div 256, SectionOf(code, k, n) % 256>>
                          /\ SectionOf(code, k, n) \div 256 \in Byte /\ SectionOf(code, k, n) % 256 \in Byte
    <2>1. SUFFICES ASSUME NEW k \in 1 .. n
                   PROVE  /\ pairs[k] = <<SectionOf(code, k, n) \div 256, SectionOf(code, k, n) % 256>>
                          /\ SectionOf(code, k, n) \div 256 \in Byte /\ SectionOf(code, k, n) % 256 \in Byte
      OBVIOUS
    <2>2. SectionOf(code, k, n) \div 256 \in Byte /\ SectionOf(code, k, n) % 256 \in Byte
      <3>1. n \in Nat /\ code \in [1 .. 3 * n -> 0 .. 31] /\ k \in 1 .. n
        OBVIOUS
      <3>2. QED
        BY <3>1, SectionFacts DEF Unpacks
    <2>3. pairs[k] = <<SectionOf(code, k, n) \div 256, SectionOf(code, k, n) % 256>>
      BY DEF SectionPairs
    <2>4. QED
      BY <2>2, <2>3
  <1>2. \A k \in 1 .. n : pairs[k] \in File /\ Len(pairs[k]) = 2
    <2>1. \A x, y \in Byte : <<x, y>> \in File /\ Len(<<x, y>>) = 2
      BY DEF File
    <2>2. SUFFICES ASSUME NEW k \in 1 .. n PROVE pairs[k] \in File /\ Len(pairs[k]) = 2
      OBVIOUS
    <2> DEFINE x == SectionOf(code, k, n) \div 256
               y == SectionOf(code, k, n) % 256
    <2>3. pairs[k] = <<x, y>> /\ x \in Byte /\ y \in Byte
      BY <1>1
    <2> HIDE DEF pairs, x, y
    <2>4. QED
      BY <2>1, <2>3
  <1>3. pairs \in Seq(File) /\ Len(pairs) = n
    <2>1. pairs \in [1 .. n -> File]
      <3>1. pairs = [k \in 1 .. n |-> pairs[k]]
        BY DEF SectionPairs
      <3> HIDE DEF pairs
      <3>2. QED
        BY <1>2, <3>1
    <2> HIDE DEF pairs
    <2>2. QED
      BY <2>1, IsSeq
  <1> HIDE DEF pairs
  <1>4. /\ FlattenSeq(pairs) \in File /\ Len(FlattenSeq(pairs)) = 2 * n
        /\ \A k \in 1 .. n : /\ FlattenSeq(pairs)[2 * k - 1] = pairs[k][1]
                             /\ FlattenSeq(pairs)[2 * k] = pairs[k][2]
    BY <1>2, <1>3, PairsFlat
  <1>5. \A k \in 1 .. n : /\ pairs[k][1] = SectionOf(code, k, n) \div 256
                          /\ pairs[k][2] = SectionOf(code, k, n) % 256
    BY <1>1
  <1>6. QED
    BY <1>4, <1>5 DEF pairs

(* The sections are read until the first one that has the mark.            *)
LEMMA TriplesRead ==
  ASSUME NEW n \in Nat, n # 0, NEW code \in [1 .. 3 * n -> 0 .. 31], NEW rest \in File
  PROVE  ReadTriples(FlattenSeq(SectionPairs(code, n)) \o rest)
           = <<[j \in 1 .. 3 * n |-> FiveBitSet[code[j] + 1]], rest>>
  <1> DEFINE flat == FlattenSeq(SectionPairs(code, n))
             u == flat \o rest
             sections == [k \in 1 .. Len(u) \div 2 |-> u[2 * k - 1] * 256 + u[2 * k]]
             I == {i \in 1 .. Len(sections) : sections[i] % 2 = 1}
             got(j) == (sections[(j + 2) \div 3] \div <<2048, 64, 2>>[((j - 1) % 3) + 1]) % 32
             string(k) == [j \in 1 .. 3 * k |-> FiveBitSet[got(j) + 1]]
  <1>1. /\ flat \in File /\ Len(flat) = 2 * n
        /\ \A k \in 1 .. n : /\ flat[2 * k - 1] = SectionOf(code, k, n) \div 256
                             /\ flat[2 * k] = SectionOf(code, k, n) % 256
    BY SectionsFlat
  <1> HIDE DEF flat
  <1>2. /\ u \in File /\ Len(u) \in Nat /\ 2 * n <= Len(u)
        /\ \A j \in 1 .. 2 * n : u[j] = flat[j]
    <2>1. rest \in File
      OBVIOUS
    <2>2. u \in File /\ Len(u) = Len(flat) + Len(rest) /\ Len(rest) \in Nat
          /\ \A k \in 1 .. Len(flat) + Len(rest) : u[k] = IF k <= Len(flat) THEN flat[k] ELSE rest[k - Len(flat)]
      BY <1>1, FileConcat, FileFacts
    <2> HIDE DEF u
    <2>3. QED
      BY <1>1, <2>2
  <1>3. After(u, 2 * n) = rest
    BY <1>1, AfterConcat
  <1> HIDE DEF u
  <1>4. Len(sections) = Len(u) \div 2
    <2>1. \A k \in 1 .. Len(u) \div 2 : sections[k] \in Nat
      <3>1. SUFFICES ASSUME NEW k \in 1 .. Len(u) \div 2 PROVE sections[k] \in Nat
        OBVIOUS
      <3>2. 2 * k - 1 \in 1 .. Len(u) /\ 2 * k \in 1 .. Len(u)
        BY <1>2
      <3>3. u[2 * k - 1] \in Nat /\ u[2 * k] \in Nat
        <4>1. u[2 * k - 1] \in Byte /\ u[2 * k] \in Byte
          BY <1>2, <3>2, FileFacts
        <4>2. \A x \in Byte : x \in Nat
          BY DEF Byte
        <4>3. QED
          BY <4>1, <4>2
      <3>4. sections[k] = u[2 * k - 1] * 256 + u[2 * k]
        OBVIOUS
      <3> HIDE DEF sections
      <3>5. QED
        BY <3>3, <3>4
    <2>2. sections \in [1 .. Len(u) \div 2 -> Nat]
      BY <2>1
    <2> HIDE DEF sections
    <2>3. Len(u) \div 2 \in Nat
      BY <1>2
    <2>4. QED
      BY <2>2, <2>3, IsSeq
  <1>5. \A k \in 1 .. n :
           /\ k \in 1 .. Len(u) \div 2 /\ sections[k] = SectionOf(code, k, n)
           /\ Unpacks(sections[k], code[3 * k - 2], code[3 * k - 1], code[3 * k],
                      IF k = n THEN 1 ELSE 0)
    <2>1. SUFFICES ASSUME NEW k \in 1 .. n
                   PROVE  /\ k \in 1 .. Len(u) \div 2 /\ sections[k] = SectionOf(code, k, n)
                          /\ Unpacks(sections[k], code[3 * k - 2], code[3 * k - 1], code[3 * k],
                                     IF k = n THEN 1 ELSE 0)
      OBVIOUS
    <2> DEFINE v == SectionOf(code, k, n)
    <2>2. Unpacks(v, code[3 * k - 2], code[3 * k - 1], code[3 * k], IF k = n THEN 1 ELSE 0)
      BY SectionFacts
    <2>3. k \in 1 .. Len(u) \div 2
      BY <1>2
    <2>4. sections[k] = u[2 * k - 1] * 256 + u[2 * k]
      BY <2>3
    <2>5. u[2 * k - 1] = v \div 256 /\ u[2 * k] = v % 256
      <3>1. 2 * k - 1 \in 1 .. 2 * n /\ 2 * k \in 1 .. 2 * n
        OBVIOUS
      <3>2. QED
        BY <1>1, <1>2, <3>1
    <2> HIDE DEF v, sections
    <2>6. sections[k] = v
      BY <2>2, <2>4, <2>5 DEF Unpacks
    <2>7. QED
      BY <2>2, <2>3, <2>6 DEF v
  <1>6. ReadTriples(u) = LET end == SelectInSeq(sections, LAMBDA c : c % 2 = 1)
                         IN  IF end = 0 THEN <<string(Len(sections)), <<>>>>
                             ELSE <<string(end), After(u, 2 * end)>>
    BY DEF ReadTriples
  <1>7. SelectInSeq(sections, LAMBDA c : c % 2 = 1) = IF I # {} THEN Min(I) ELSE 0
    BY Zenon DEF SelectInSeq
  <1> HIDE DEF sections
  <1>8. I # {} /\ Min(I) = n
    <2>1. n \in 1 .. n
      OBVIOUS
    <2>2. I \subseteq Nat /\ n \in I
      BY <1>4, <1>5, <2>1 DEF Unpacks
    <2>3. \A y \in I : n <= y
      <3>1. \A y \in I : y \in Nat /\ y >= 1 /\ sections[y] % 2 = 1
        OBVIOUS
      <3> HIDE DEF I
      <3>2. SUFFICES ASSUME NEW y \in I, ~ (n <= y) PROVE FALSE
        OBVIOUS
      <3>3. y \in 1 .. n /\ y # n /\ sections[y] % 2 = 1
        BY <3>1, <3>2
      <3>4. sections[y] % 2 = 0
        BY <1>5, <3>3 DEF Unpacks
      <3>5. QED
        BY <3>3, <3>4
    <2> HIDE DEF I
    <2>4. QED
      BY <2>2, <2>3, MinIs
  <1>9. \A j \in 1 .. 3 * n : got(j) = code[j]
    <2>1. SUFFICES ASSUME NEW j \in 1 .. 3 * n PROVE got(j) = code[j]
      OBVIOUS
    <2>2. PICK k \in 1 .. n : k = (j + 2) \div 3
      OBVIOUS
    <2>3. /\ (sections[k] \div 2048) % 32 = code[3 * k - 2]
          /\ (sections[k] \div 64) % 32 = code[3 * k - 1]
          /\ (sections[k] \div 2) % 32 = code[3 * k]
      BY <1>5 DEF Unpacks
    <2>4. j \in {3 * k - 2, 3 * k - 1, 3 * k}
      BY <2>2
    <2>5. CASE j = 3 * k - 2
      <3>1. ((j - 1) % 3) + 1 = 1
        BY <2>5
      <3>2. got(j) = (sections[k] \div 2048) % 32
        BY <2>2, <3>1
      <3> HIDE DEF got
      <3>3. QED
        BY <2>3, <2>5, <3>2
    <2>6. CASE j = 3 * k - 1
      <3>1. ((j - 1) % 3) + 1 = 2
        BY <2>6
      <3>2. got(j) = (sections[k] \div 64) % 32
        BY <2>2, <3>1
      <3> HIDE DEF got
      <3>3. QED
        BY <2>3, <2>6, <3>2
    <2>7. CASE j = 3 * k
      <3>1. ((j - 1) % 3) + 1 = 3
        BY <2>7
      <3>2. got(j) = (sections[k] \div 2) % 32
        BY <2>2, <3>1
      <3> HIDE DEF got
      <3>3. QED
        BY <2>3, <2>7, <3>2
    <2>8. QED
      BY <2>4, <2>5, <2>6, <2>7
  <1> HIDE DEF got
  <1>10. string(n) = [j \in 1 .. 3 * n |-> FiveBitSet[code[j] + 1]]
    BY <1>9
  <1> HIDE DEF I, string
  <1>11. ReadTriples(u) = <<string(n), After(u, 2 * n)>>
    BY <1>6, <1>7, <1>8
  <1>12. QED
    BY <1>3, <1>10, <1>11 DEF u, flat

(* What Next1 reads. *)
LEMMA NextRead ==
  ASSUME NEW b \in Byte, NEW rest \in File
  PROVE  /\ <<b>> \o rest # <<>> /\ Head(<<b>> \o rest) = b /\ Tail(<<b>> \o rest) = rest
         /\ Next1(<<b>> \o rest) = <<b, rest>>
  <1> DEFINE u == <<b>> \o rest
  <1>1. /\ u \in File /\ Len(u) = 1 + Len(rest) /\ Len(rest) \in Nat /\ u[1] = b
    <2>1. <<b>> \in File /\ Len(<<b>>) = 1 /\ <<b>>[1] = b
      BY OneByte
    <2>2. Len(rest) \in Nat
      BY FileFacts
    <2> DEFINE t == <<b>>
    <2>3. t \in File /\ Len(t) = 1 /\ t[1] = b
      BY <2>1
    <2> HIDE DEF t
    <2>4. /\ t \o rest \in File /\ Len(t \o rest) = Len(t) + Len(rest)
          /\ \A i \in 1 .. Len(t) + Len(rest) :
               (t \o rest)[i] = IF i <= Len(t) THEN t[i] ELSE rest[i - Len(t)]
      BY <2>3, FileConcat
    <2>5. 1 \in 1 .. 1 + Len(rest)
      BY <2>2
    <2>6. (t \o rest)[1] = b
      BY <2>3, <2>4, <2>5
    <2>7. QED
      BY <2>2, <2>3, <2>4, <2>6 DEF t
  <1>2. After(<<b>> \o rest, Len(<<b>>)) = rest /\ Len(<<b>>) = 1
    <2>1. <<b>> \in File /\ Len(<<b>>) = 1
      BY OneByte
    <2>2. QED
      BY <2>1, AfterConcat
  <1>3. SubSeq(u, 2, Len(u)) = rest
    BY <1>2 DEF After
  <1> HIDE DEF u
  <1>4. u # <<>>
    BY <1>1
  <1>5. Tail(u) = SubSeq(u, 2, Len(u)) /\ Head(u) = u[1]
    BY <1>1, <1>4, TailIsSubSeq DEF File
  <1>6. Next1(u) = <<Head(u), Tail(u)>>
    BY <1>4 DEF Next1
  <1>7. QED
    BY <1>1, <1>3, <1>4, <1>5, <1>6 DEF u

(* A string whose first characters are t and whose others are r. *)
LEMMA Joined ==
  ASSUME NEW s \in File, NEW n \in 0 .. Len(s), NEW r \in File, Len(r) = Len(s) - n,
         \A i \in 1 .. Len(r) : r[i] = s[n + i]
  PROVE  [j \in 1 .. n |-> s[j]] \in File /\ [j \in 1 .. n |-> s[j]] \o r = s
  <1> DEFINE t == [j \in 1 .. n |-> s[j]]
  <1>1. Len(s) \in Nat /\ Len(r) \in Nat /\ \A j \in 1 .. Len(s) : s[j] \in Byte
    BY FileFacts
  <1>2. \A j \in 1 .. n : j \in 1 .. Len(s) /\ t[j] = s[j]
    BY <1>1
  <1>3. t \in File /\ Len(t) = n
    <2>1. t \in [1 .. n -> Byte] /\ n \in Nat
      BY <1>1, <1>2
    <2> HIDE DEF t
    <2>2. QED
      BY <2>1, MakesFile
  <1> HIDE DEF t
  <1>4. /\ t \o r \in File /\ Len(t \o r) = Len(t) + Len(r)
        /\ \A i \in 1 .. Len(t) + Len(r) : (t \o r)[i] = IF i <= Len(t) THEN t[i] ELSE r[i - Len(t)]
    BY <1>3, FileConcat
  <1>5. Len(t \o r) = Len(s)
    BY <1>1, <1>3, <1>4
  <1>6. \A i \in 1 .. Len(s) : (t \o r)[i] = s[i]
    <2>1. SUFFICES ASSUME NEW i \in 1 .. Len(s) PROVE (t \o r)[i] = s[i]
      OBVIOUS
    <2>2. i \in 1 .. Len(t) + Len(r)
      BY <1>1, <1>3
    <2>3. CASE i <= n
      <3>1. i \in 1 .. n
        BY <2>3
      <3>2. (t \o r)[i] = t[i]
        BY <1>3, <1>4, <2>2, <2>3
      <3>3. QED
        BY <1>2, <3>1, <3>2
    <2>4. CASE ~ (i <= n)
      <3>1. i - n \in 1 .. Len(r) /\ n + (i - n) = i
        BY <1>1, <2>4
      <3>2. (t \o r)[i] = r[i - n]
        BY <1>3, <1>4, <2>2, <2>4
      <3>3. QED
        BY <3>1, <3>2
    <2>5. QED
      BY <2>3, <2>4
  <1>7. t \o r = s
    BY <1>4, <1>5, <1>6, SeqEqual DEF File
  <1>8. QED
    BY <1>3, <1>7 DEF t

(* Which bits of the header tell what is left over of a string. *)
LEMMA FiveBitHeaders ==
  ASSUME NEW s \in File, s # <<>>, InSet(s, FiveBitSet)
  PROVE  LET header == FiveBitHeader(s)
             code(i) == CodeIn(FiveBitSet, s[i])
             n == Len(s) \div 3
         IN  /\ header \in 0 .. 15 /\ n \in Nat
             /\ header \div 4 = 3 \/ header \in {1, 5} <=> n = 0
             /\ \/ Len(s) = 3 * n /\ header = 0
                \/ Len(s) = 3 * n + 1 /\ header \in {4, 5}
                \/ /\ Len(s) = 3 * n + 2 /\ header >= 8
                   /\ header % 4 = code(Len(s) - 1) \div 8
  <1> DEFINE header == FiveBitHeader(s)
             code(i) == CodeIn(FiveBitSet, s[i])
             l == Len(s)
             n == l \div 3
  <1>1. l \in Nat /\ l # 0
    <2>1. Len(s) \in Nat
      BY FileFacts
    <2>2. Len(s) # 0
      BY EmptySeq DEF File
    <2>3. QED
      BY <2>1, <2>2
  <1>2. \A i \in 1 .. l : code(i) \in 0 .. 31
    <2>1. SUFFICES ASSUME NEW i \in 1 .. l PROVE code(i) \in 0 .. 31
      OBVIOUS
    <2> DEFINE char == s[i]
    <2>2. char \in ToSet(FiveBitSet) /\ code(i) = CodeIn(FiveBitSet, char)
      BY FileFacts DEF InSet
    <2> HIDE DEF char, code
    <2>3. CodeIn(FiveBitSet, char) \in 0 .. Len(FiveBitSet) - 1
      BY <2>2, Charsets, CodeFacts
    <2>4. QED
      BY <2>2, <2>3, Charsets
  <1>3. header = CASE l % 3 = 0 -> 0
                   [] l % 3 = 1 -> IF l = 1 THEN 5 ELSE 4
                   [] OTHER -> (IF l = 2 THEN 12 ELSE 8) + (code(l - 1) \div 8)
    BY DEF FiveBitHeader
  <1> HIDE DEF header, code, l
  <1>4. n \in Nat /\ (n = 0 <=> l < 3)
    BY <1>1
  <1>5. CASE l % 3 = 0
    <2>1. header = 0 /\ l = 3 * n
      BY <1>1, <1>3, <1>5
    <2> HIDE DEF n
    <2>2. header \in 0 .. 15 /\ (header \div 4 = 3 \/ header \in {1, 5} <=> n = 0)
      BY <1>1, <1>4, <2>1
    <2>3. QED
      BY <1>4, <2>1, <2>2 DEF header, l, n
  <1>6. CASE l % 3 = 1
    <2>1. header = (IF l = 1 THEN 5 ELSE 4) /\ l = 3 * n + 1
      BY <1>1, <1>3, <1>6
    <2> HIDE DEF n
    <2>2. header \in 0 .. 15 /\ (header \div 4 = 3 \/ header \in {1, 5} <=> n = 0)
          /\ header \in {4, 5}
      BY <1>1, <1>4, <2>1
    <2>3. QED
      BY <1>4, <2>1, <2>2 DEF header, l, n
  <1>7. CASE l % 3 = 2
    <2>1. header = (IF l = 2 THEN 12 ELSE 8) + (code(l - 1) \div 8) /\ l = 3 * n + 2
      BY <1>1, <1>3, <1>7
    <2> DEFINE high == code(l - 1) \div 8
    <2>2. high \in 0 .. 3
      <3>1. l - 1 \in 1 .. l
        BY <1>1, <1>7
      <3>2. code(l - 1) \in 0 .. 31
        BY <1>2, <3>1
      <3>3. \A x \in 0 .. 31 : x \div 8 \in 0 .. 3
        OBVIOUS
      <3>4. QED
        BY <3>2, <3>3
    <2>3. header \in 0 .. 15 /\ header >= 8 /\ header % 4 = high
          /\ (header \div 4 = 3 <=> l = 2) /\ header \notin {1, 5}
      <3> HIDE DEF high
      <3>1. header = (IF l = 2 THEN 12 ELSE 8) + high
        BY <2>1 DEF high
      <3>2. QED
        BY <2>2, <3>1
    <2>4. l = 2 <=> n = 0
      BY <1>1, <1>4, <2>1
    <2> HIDE DEF n
    <2>5. QED
      BY <1>4, <2>1, <2>3, <2>4 DEF header, l, code, n
  <1>8. QED
    BY <1>1, <1>5, <1>6, <1>7

(* What is left over of a string that is cut in threes.                    *)
LEMMA Thirds ==
  ASSUME NEW l \in Nat, NEW n \in Nat
  PROVE  /\ l = 3 * n => l % 3 = 0
         /\ l = 3 * n + 1 => l % 3 = 1
         /\ l = 3 * n + 2 => l % 3 = 2
  OBVIOUS

(* What is packed by five bits is read as it was, with its header.         *)
LEMMA FiveBitsRead ==
  ASSUME NEW s \in File, s # <<>>, InSet(s, FiveBitSet)
  PROVE  /\ FiveBits(s) \in File /\ Len(FiveBits(s)) <= Len(s)
         /\ \A rest \in File : ReadFiveBits(FiveBitHeader(s), FiveBits(s) \o rest) = <<s, rest>>
  <1> DEFINE header == FiveBitHeader(s)
             n == Len(s) \div 3
             code == [i \in 1 .. 3 * n |-> CodeIn(FiveBitSet, s[i])]
             flat == FlattenSeq(SectionPairs(code, n))
             left == CASE Len(s) % 3 = 0 -> <<>>
                       [] Len(s) % 3 = 1 -> <<s[Len(s)]>>
                       [] OTHER -> <<((CodeIn(FiveBitSet, s[Len(s) - 1]) % 8) * 32)
                                     + CodeIn(FiveBitSet, s[Len(s)])>>
             first == [j \in 1 .. 3 * n |-> s[j]]
  <1>1. Len(s) \in Nat /\ DOMAIN s = 1 .. Len(s) /\ \A i \in 1 .. Len(s) : s[i] \in Byte
    BY FileFacts
  <1>2. \A i \in 1 .. Len(s) : /\ CodeIn(FiveBitSet, s[i]) \in 0 .. 31
                               /\ FiveBitSet[CodeIn(FiveBitSet, s[i]) + 1] = s[i]
    <2>1. SUFFICES ASSUME NEW i \in 1 .. Len(s)
                   PROVE  /\ CodeIn(FiveBitSet, s[i]) \in 0 .. 31
                          /\ FiveBitSet[CodeIn(FiveBitSet, s[i]) + 1] = s[i]
      OBVIOUS
    <2> DEFINE char == s[i]
    <2>2. char \in ToSet(FiveBitSet)
      BY <1>1 DEF InSet
    <2> HIDE DEF char
    <2>3. CodeIn(FiveBitSet, char) \in 0 .. Len(FiveBitSet) - 1
          /\ FiveBitSet[CodeIn(FiveBitSet, char) + 1] = char
      BY <2>2, Charsets, CodeFacts
    <2>4. QED
      BY <2>3, Charsets DEF char
  <1>3. /\ header \in 0 .. 15 /\ n \in Nat
        /\ header \div 4 = 3 \/ header \in {1, 5} <=> n = 0
        /\ \/ Len(s) = 3 * n /\ header = 0
           \/ Len(s) = 3 * n + 1 /\ header \in {4, 5}
           \/ /\ Len(s) = 3 * n + 2 /\ header >= 8
              /\ header % 4 = CodeIn(FiveBitSet, s[Len(s) - 1]) \div 8
    BY FiveBitHeaders
  <1> HIDE DEF header, n
  <1>4. FiveBits(s) = flat \o left
    <2>1. \A k \in 1 .. n :
            2048 * CodeIn(FiveBitSet, s[3 * k - 2]) + 64 * CodeIn(FiveBitSet, s[3 * k - 1])
              + 2 * CodeIn(FiveBitSet, s[3 * k]) + (IF k = n THEN 1 ELSE 0)
            = SectionOf(code, k, n)
      <3>1. SUFFICES ASSUME NEW k \in 1 .. n
                     PROVE  2048 * CodeIn(FiveBitSet, s[3 * k - 2]) + 64 * CodeIn(FiveBitSet, s[3 * k - 1])
                              + 2 * CodeIn(FiveBitSet, s[3 * k]) + (IF k = n THEN 1 ELSE 0)
                            = SectionOf(code, k, n)
        OBVIOUS
      <3>2. 3 * k - 2 \in 1 .. 3 * n /\ 3 * k - 1 \in 1 .. 3 * n /\ 3 * k \in 1 .. 3 * n
        BY <1>3
      <3>3. /\ code[3 * k - 2] = CodeIn(FiveBitSet, s[3 * k - 2])
            /\ code[3 * k - 1] = CodeIn(FiveBitSet, s[3 * k - 1])
            /\ code[3 * k] = CodeIn(FiveBitSet, s[3 * k])
        BY <3>2
      <3> HIDE DEF code, n
      <3>4. QED
        BY <3>3 DEF SectionOf, Packed
    <2> DEFINE sec(k) == 2048 * CodeIn(FiveBitSet, s[3 * k - 2]) + 64 * CodeIn(FiveBitSet, s[3 * k - 1])
                         + 2 * CodeIn(FiveBitSet, s[3 * k]) + (IF k = n THEN 1 ELSE 0)
    <2>2. FiveBits(s) = FlattenSeq([k \in 1 .. n |-> <<sec(k) \div 256, sec(k) % 256>>]) \o left
      BY DEF FiveBits, n
    <2>3. \A k \in 1 .. n : sec(k) = SectionOf(code, k, n)
      BY <2>1
    <2> HIDE DEF sec, left, code, n
    <2>4. [k \in 1 .. n |-> <<sec(k) \div 256, sec(k) % 256>>] = SectionPairs(code, n)
      BY <2>3 DEF SectionPairs
    <2>5. QED
      BY <2>2, <2>4
  <1>5. code \in [1 .. 3 * n -> 0 .. 31] /\ \A j \in 1 .. 3 * n : FiveBitSet[code[j] + 1] = s[j]
    <2>1. \A j \in 1 .. 3 * n : j \in 1 .. Len(s)
      <3> DEFINE l == Len(s)
      <3>1. n \in Nat /\ l \in Nat /\ (l = 3 * n \/ l = 3 * n + 1 \/ l = 3 * n + 2)
        BY <1>1, <1>3, Zenon
      <3> HIDE DEF l
      <3>2. \A j \in 1 .. 3 * n : j \in 1 .. l
        BY <3>1
      <3>3. QED
        BY <3>2 DEF l
    <2>2. QED
      BY <1>2, <2>1
  <1>6. flat \in File /\ Len(flat) = 2 * n
    <2> HIDE DEF code, n
    <2>1. QED
      BY <1>3, <1>5, SectionsFlat
  <1>7. n = 0 => flat = <<>> /\ first = <<>>
    <2>1. ASSUME n = 0 PROVE flat = <<>>
      <3>1. Len(flat) = 0 /\ flat \in Seq(Byte)
        BY <1>6, <2>1 DEF File
      <3> HIDE DEF flat
      <3>2. QED
        BY <3>1, EmptySeq
    <2>2. ASSUME n = 0 PROVE first = <<>>
      <3> HIDE DEF n
      <3>1. first = [j \in 1 .. 0 |-> s[j]]
        BY <2>2
      <3>2. QED
        BY <3>1
    <2>3. QED
      BY <2>1, <2>2
  <1>8. /\ left \in File
        /\ Len(left) = Len(s) - 3 * n \/ (Len(s) = 3 * n + 2 /\ Len(left) = 1)
    <2>1. CASE Len(s) = 3 * n
      <3>1. Len(s) % 3 = 0
        BY <1>1, <1>3, <2>1, Thirds
      <3>2. left = <<>> /\ Len(s) - 3 * n = 0
        BY <1>1, <1>3, <2>1, <3>1
      <3> HIDE DEF left
      <3>3. left \in File /\ Len(left) = 0
        BY <3>2, EmptySeq DEF File
      <3>4. QED
        BY <3>2, <3>3
    <2>2. CASE Len(s) = 3 * n + 1
      <3>1. Len(s) % 3 = 1 /\ Len(s) \in 1 .. Len(s)
        BY <1>1, <1>3, <2>2, Thirds
      <3>2. left = <<s[Len(s)]>> /\ s[Len(s)] \in Byte
        BY <1>1, <3>1
      <3>3. Len(s) - 3 * n = 1
        BY <1>1, <1>3, <2>2
      <3> HIDE DEF left
      <3>4. QED
        BY <3>2, <3>3, OneByte
    <2>3. CASE Len(s) = 3 * n + 2
      <3>1. Len(s) % 3 = 2 /\ Len(s) \in 1 .. Len(s) /\ Len(s) - 1 \in 1 .. Len(s)
        BY <1>1, <1>3, <2>3, Thirds
      <3> DEFINE a == CodeIn(FiveBitSet, s[Len(s) - 1])
                 b == CodeIn(FiveBitSet, s[Len(s)])
      <3>2. a \in 0 .. 31 /\ b \in 0 .. 31
        BY <1>2, <3>1
      <3>3. left = <<((a % 8) * 32) + b>>
        BY <3>1
      <3> HIDE DEF left, a, b
      <3>4. ((a % 8) * 32) + b \in Byte
        BY <3>2 DEF Byte
      <3>5. QED
        BY <2>3, <3>3, <3>4, OneByte
    <2>4. QED
      BY <1>3, <2>1, <2>2, <2>3
  <1>9. FiveBits(s) \in File /\ Len(FiveBits(s)) <= Len(s)
    <2> HIDE DEF flat, left
    <2>1. left \in File
      BY <1>8
    <2>2. FiveBits(s) \in File /\ Len(FiveBits(s)) = 2 * n + Len(left)
      BY <1>4, <1>6, <2>1, FileConcat
    <2> DEFINE l == Len(s)
               k == Len(left)
    <2>3. l \in Nat /\ k \in Nat /\ (k = l - 3 * n \/ (l = 3 * n + 2 /\ k = 1))
      BY <1>1, <1>8, <2>1, FileFacts, Zenon
    <2> HIDE DEF l, k
    <2>4. 2 * n + k <= l
      BY <1>3, <2>3
    <2>5. QED
      BY <2>2, <2>4 DEF l, k
  <1>10. ASSUME NEW rest \in File
         PROVE  ReadFiveBits(header, FiveBits(s) \o rest) = <<s, rest>>
    <2> DEFINE bytes == FiveBits(s) \o rest
               after == left \o rest
               tri == IF header \div 4 = 3 \/ header \in {1, 5} THEN <<<<>>, bytes>>
                      ELSE ReadTriples(bytes)
    <2>1. bytes = flat \o after /\ after \in File
      <3> HIDE DEF flat, left
      <3>1. (flat \o left) \o rest = flat \o (left \o rest)
        BY <1>6, <1>8, FileAssociative, Zenon
      <3>2. left \o rest \in File
        BY <1>8, FileConcat
      <3>3. QED
        BY <1>4, <3>1, <3>2
    <2>2. tri = <<first, after>>
      <3>1. CASE n = 0
        <4>1. flat = <<>> /\ first = <<>> /\ (header \div 4 = 3 \/ header \in {1, 5})
          BY <1>3, <1>7, <3>1
        <4>2. bytes = after
          <5> HIDE DEF flat, after, bytes
          <5>1. <<>> \o after = after
            BY <2>1, ConcatEmptySeq DEF File
          <5>2. QED
            BY <2>1, <4>1, <5>1
        <4>3. tri = <<<<>>, bytes>>
          BY <4>1
        <4> HIDE DEF tri, bytes, after, first
        <4>4. QED
          BY <4>1, <4>2, <4>3
      <3>2. CASE n # 0
        <4>1. tri = ReadTriples(bytes)
          BY <1>3, <3>2
        <4>2. ReadTriples(flat \o after) = <<[j \in 1 .. 3 * n |-> FiveBitSet[code[j] + 1]], after>>
          <5> HIDE DEF code, n, after
          <5>1. QED
            BY <1>3, <1>5, <2>1, <3>2, TriplesRead
        <4>3. [j \in 1 .. 3 * n |-> FiveBitSet[code[j] + 1]] = first
          <5> HIDE DEF code, n
          <5>1. QED
            BY <1>5
        <4> HIDE DEF tri, bytes, after, first, flat, code
        <4>4. QED
          BY <2>1, <4>1, <4>2, <4>3
      <3>3. QED
        BY <3>1, <3>2
    <2>3. ReadFiveBits(header, bytes)
            = IF header \in {0, 1} THEN <<tri[1], tri[2]>>
              ELSE LET got == Next1(tri[2])
                   IN  IF header \in {4, 5} THEN <<Append(tri[1], got[1]), got[2]>>
                       ELSE <<tri[1] \o <<FiveBitSet[(header % 4) * 8 + (got[1] \div 32) + 1],
                                          FiveBitSet[(got[1] % 32) + 1]>>, got[2]>>
      BY DEF ReadFiveBits, Then
    <2> DEFINE got == Next1(after)
    <2>4. ReadFiveBits(header, bytes)
            = IF header \in {0, 1} THEN <<first, after>>
              ELSE IF header \in {4, 5} THEN <<Append(first, got[1]), got[2]>>
              ELSE <<first \o <<FiveBitSet[(header % 4) * 8 + (got[1] \div 32) + 1],
                                FiveBitSet[(got[1] % 32) + 1]>>, got[2]>>
      <3> HIDE DEF tri, bytes, after, first, header
      <3>1. tri[1] = first /\ tri[2] = after
        BY <2>2
      <3>2. QED
        BY <2>3, <3>1
    <2>5. CASE Len(s) = 3 * n
      <3>1. Len(s) % 3 = 0 /\ header = 0
        <4>1. Len(s) % 3 = 0
          BY <1>1, <1>3, <2>5, Thirds
        <4>2. QED
          BY <1>1, <1>3, <2>5, <4>1
      <3>2. left = <<>>
        BY <3>1
      <3>3. after = rest
        <4> HIDE DEF left
        <4>1. <<>> \o rest = rest
          BY ConcatEmptySeq DEF File
        <4>2. QED
          BY <3>2, <4>1
      <3>4. first = s
        <4>1. s = [j \in 1 .. Len(s) |-> s[j]]
          BY DEF File
        <4> HIDE DEF n
        <4>2. QED
          BY <2>5, <4>1
      <3> HIDE DEF bytes, after, first, header, got
      <3>5. QED
        BY <2>4, <3>1, <3>3, <3>4 DEF bytes
    <2>6. CASE Len(s) = 3 * n + 1
      <3>1. Len(s) % 3 = 1 /\ Len(s) \in 1 .. Len(s) /\ header \in {4, 5} /\ 3 * n \in 0 .. Len(s)
        <4>1. Len(s) % 3 = 1
          BY <1>1, <1>3, <2>6, Thirds
        <4>2. QED
          BY <1>1, <1>3, <2>6, <4>1
      <3> DEFINE b == s[Len(s)]
      <3>2. left = <<b>> /\ b \in Byte
        BY <1>1, <3>1
      <3>3. got = <<b, rest>>
        <4> HIDE DEF left, b
        <4>1. Next1(<<b>> \o rest) = <<b, rest>>
          BY <3>2, NextRead
        <4>2. QED
          BY <3>2, <4>1
      <3>4. first \in File /\ first \o <<b>> = s
        <4> DEFINE r == <<b>>
        <4>1. r \in File /\ Len(r) = Len(s) - 3 * n /\ \A i \in 1 .. Len(r) : r[i] = s[3 * n + i]
          <5> HIDE DEF n
          <5>1. Len(r) = 1 /\ r[1] = b /\ Len(s) - 3 * n = 1 /\ 3 * n + 1 = Len(s)
            BY <1>1, <1>3, <2>6
          <5>2. r \in File
            BY <3>2, OneByte
          <5>3. QED
            BY <5>1, <5>2
        <4>2. 3 * n \in 0 .. Len(s)
          BY <3>1
        <4> DEFINE m == 3 * n
        <4> HIDE DEF r, n
        <4>3. [j \in 1 .. m |-> s[j]] \in File /\ [j \in 1 .. m |-> s[j]] \o r = s
          <5>1. m \in 0 .. Len(s) /\ Len(r) = Len(s) - m /\ \A i \in 1 .. Len(r) : r[i] = s[m + i]
            BY <4>1, <4>2
          <5> HIDE DEF m
          <5>2. QED
            BY <4>1, <5>1, Joined
        <4>4. QED
          BY <4>3 DEF r
      <3>5. Append(first, b) = first \o <<b>>
        <4> HIDE DEF first, b
        <4>1. QED
          BY <3>2, <3>4, AppendIsConcat DEF File
      <3>6. header \notin {0, 1}
        BY <3>1
      <3> HIDE DEF bytes, after, first, header, got, b
      <3>7. ReadFiveBits(header, bytes) = <<Append(first, got[1]), got[2]>>
        BY <2>4, <3>1, <3>6
      <3>8. QED
        BY <3>3, <3>4, <3>5, <3>7 DEF bytes
    <2>7. CASE Len(s) = 3 * n + 2
      <3>1. Len(s) % 3 = 2 /\ Len(s) \in 1 .. Len(s) /\ Len(s) - 1 \in 1 .. Len(s)
            /\ header >= 8 /\ header % 4 = CodeIn(FiveBitSet, s[Len(s) - 1]) \div 8
            /\ 3 * n \in 0 .. Len(s)
        <4>1. Len(s) % 3 = 2
          BY <1>1, <1>3, <2>7, Thirds
        <4>2. QED
          BY <1>1, <1>3, <2>7, <4>1
      <3> DEFINE a == CodeIn(FiveBitSet, s[Len(s) - 1])
                 b == CodeIn(FiveBitSet, s[Len(s)])
                 v == ((a % 8) * 32) + b
      <3>2. /\ a \in 0 .. 31 /\ b \in 0 .. 31
            /\ FiveBitSet[a + 1] = s[Len(s) - 1] /\ FiveBitSet[b + 1] = s[Len(s)]
            /\ header % 4 = a \div 8
        BY <1>2, <3>1
      <3>3. left = <<v>>
        BY <3>1
      <3> HIDE DEF a, b
      <3>4. v \in Byte /\ v \div 32 = a % 8 /\ v % 32 = b /\ (a \div 8) * 8 + (a % 8) = a
        BY <3>2 DEF Byte
      <3> HIDE DEF v, left
      <3>5. got = <<v, rest>>
        <4>1. Next1(<<v>> \o rest) = <<v, rest>>
          BY <3>4, NextRead
        <4>2. QED
          BY <3>3, <4>1
      <3> DEFINE r == <<s[Len(s) - 1], s[Len(s)]>>
      <3>6. first \o r = s
        <4>1. r \in File /\ Len(r) = Len(s) - 3 * n /\ \A i \in 1 .. Len(r) : r[i] = s[3 * n + i]
          <5> HIDE DEF n
          <5>1. /\ Len(r) = 2 /\ r[1] = s[Len(s) - 1] /\ r[2] = s[Len(s)] /\ Len(s) - 3 * n = 2
                /\ 3 * n + 1 = Len(s) - 1 /\ 3 * n + 2 = Len(s)
            BY <1>1, <1>3, <2>7
          <5>2. s[Len(s) - 1] \in Byte /\ s[Len(s)] \in Byte
            BY <1>1, <3>1
          <5>3. r \in File
            BY <5>2 DEF File
          <5>4. QED
            BY <5>1, <5>3
        <4>2. 3 * n \in 0 .. Len(s)
          BY <3>1
        <4> DEFINE m == 3 * n
        <4> HIDE DEF r, n
        <4>3. [j \in 1 .. m |-> s[j]] \o r = s
          <5>1. m \in 0 .. Len(s) /\ Len(r) = Len(s) - m /\ \A i \in 1 .. Len(r) : r[i] = s[m + i]
            BY <4>1, <4>2
          <5> HIDE DEF m
          <5>2. QED
            BY <4>1, <5>1, Joined
        <4>4. QED
          BY <4>3
      <3>7. header \notin {0, 1} /\ header \notin {4, 5}
        BY <1>3, <3>1
      <3> HIDE DEF bytes, after, first, header, got
      <3>8. ReadFiveBits(header, bytes)
              = <<first \o <<FiveBitSet[(header % 4) * 8 + (got[1] \div 32) + 1],
                             FiveBitSet[(got[1] % 32) + 1]>>, got[2]>>
        BY <2>4, <3>7
      <3>9. /\ (header % 4) * 8 + (got[1] \div 32) + 1 = a + 1 /\ (got[1] % 32) + 1 = b + 1
            /\ got[2] = rest
        BY <3>2, <3>4, <3>5
      <3>10. QED
        BY <3>2, <3>6, <3>8, <3>9 DEF bytes
    <2>8. QED
      BY <1>3, <2>5, <2>6, <2>7
  <1>11. QED
    BY <1>9, <1>10 DEF header

(* What comes first of two pieces is the first one.                        *)
LEMMA BeginOfConcat ==
  ASSUME NEW s \in File, NEW t \in File
  PROVE  SubSeq(s \o t, 1, Len(s)) = s /\ UpTo(s \o t, Len(s)) = s
  <1> DEFINE u == s \o t
             r == SubSeq(u, 1, Len(s))
  <1>1. Len(s) \in Nat /\ Len(t) \in Nat
    BY FileFacts
  <1>2. u \in File /\ Len(u) = Len(s) + Len(t)
        /\ \A i \in 1 .. Len(s) + Len(t) : u[i] = IF i <= Len(s) THEN s[i] ELSE t[i - Len(s)]
    BY FileConcat
  <1> HIDE DEF u
  <1>3. \A i \in 1 .. Len(s) : u[i] \in Byte /\ u[i] = s[i]
    <2>1. \A i \in 1 .. Len(s) : i \in 1 .. Len(u) /\ i \in 1 .. Len(s) + Len(t) /\ i <= Len(s)
      BY <1>1, <1>2
    <2>2. QED
      BY <1>2, <2>1, FileFacts
  <1>4. /\ r \in Seq(Byte)
        /\ Len(r) = IF 1 <= Len(s) THEN Len(s) - 1 + 1 ELSE 0
        /\ \A i \in 1 .. Len(s) - 1 + 1 : r[i] = u[1 + i - 1]
    <2>1. 1 \in Int /\ Len(s) \in Int
      BY <1>1
    <2>2. QED
      BY <1>3, <2>1, SubSeqProperties
  <1> HIDE DEF r
  <1>5. Len(r) = Len(s)
    BY <1>1, <1>4
  <1>6. \A i \in 1 .. Len(r) : r[i] = s[i]
    <2>1. \A i \in 1 .. Len(s) : i \in 1 .. Len(s) - 1 + 1 /\ 1 + i - 1 = i
      BY <1>1
    <2>2. QED
      BY <1>3, <1>4, <1>5, <2>1
  <1>7. r = s
    BY <1>4, <1>5, <1>6, SeqEqual DEF File
  <1>8. UpTo(u, Len(s)) = r
    <2>1. Lower(Len(s), Len(u)) = Len(s)
      BY <1>1, <1>2 DEF Lower
    <2>2. QED
      BY <2>1 DEF UpTo, r
  <1>9. QED
    BY <1>7, <1>8 DEF r, u

(* Ascii is read as it was.                                                *)
LEMMA AsciiRead ==
  ASSUME NEW s \in File, s # <<>>, IsAscii(s)
  PROVE  /\ Ascii(s) \in File /\ Len(Ascii(s)) = Len(s)
         /\ \A rest \in File : ReadAscii(Ascii(s) \o rest) = <<s, rest>>
  <1> DEFINE l == Len(s)
             a == Ascii(s)
  <1>1. l \in Nat \ {0}
    BY EmptySeq DEF File
  <1>2. /\ s = [i \in 1 .. l |-> s[i]]
        /\ \A i \in 1 .. l : s[i] \in Nat /\ s[i] < 128
    <2>1. \A i \in 1 .. l : s[i] \in Byte /\ s[i] < 128
      BY FileFacts DEF IsAscii
    <2>2. \A x \in Byte : x \in Nat
      BY DEF Byte
    <2>3. QED
      BY <2>1, <2>2 DEF File
  <1>3. a = [i \in 1 .. l |-> IF i = l THEN s[i] + 128 ELSE s[i]]
    <2>1. DOMAIN s = 1 .. l
      BY FileFacts
    <2> HIDE DEF l
    <2>2. QED
      BY <2>1 DEF Ascii, l
  <1> HIDE DEF l, a
  <1>4. \A i \in 1 .. l : a[i] \in Byte /\ (a[i] >= 128 <=> i = l)
    <2>1. SUFFICES ASSUME NEW i \in 1 .. l PROVE a[i] \in Byte /\ (a[i] >= 128 <=> i = l)
      OBVIOUS
    <2> DEFINE x == s[i]
    <2>2. x \in Nat /\ x < 128 /\ a[i] = IF i = l THEN x + 128 ELSE x
      BY <1>2, <1>3
    <2> HIDE DEF x
    <2>3. QED
      BY <2>2 DEF Byte
  <1>5. a \in File /\ Len(a) = l
    <2>1. a \in [1 .. l -> Byte]
      BY <1>3, <1>4
    <2>2. QED
      BY <1>1, <2>1, MakesFile
  <1>6. ASSUME NEW rest \in File PROVE ReadAscii(a \o rest) = <<s, rest>>
    <2> DEFINE u == a \o rest
               I == {i \in 1 .. Len(u) : u[i] >= 128}
    <2>1. /\ u \in File /\ Len(u) \in Nat /\ l <= Len(u)
          /\ \A j \in 1 .. l : u[j] = a[j]
      <3>1. rest \in File
        OBVIOUS
      <3>2. u \in File /\ Len(u) = Len(a) + Len(rest) /\ Len(rest) \in Nat
            /\ \A k \in 1 .. Len(a) + Len(rest) : u[k] = IF k <= Len(a) THEN a[k] ELSE rest[k - Len(a)]
        BY <1>5, FileConcat, FileFacts
      <3> HIDE DEF u
      <3>3. QED
        BY <1>1, <1>5, <3>2
    <2>2. SubSeq(u, 1, l) = a /\ After(u, l) = rest
      BY <1>5, BeginOfConcat, AfterConcat
    <2>3. SelectInSeq(u, LAMBDA c : c >= 128) = IF I # {} THEN Min(I) ELSE 0
      BY Zenon DEF SelectInSeq
    <2>4. ReadAscii(u) = LET n == SelectInSeq(u, LAMBDA c : c >= 128)
                         IN  IF n = 0 THEN Ended
                             ELSE <<[SubSeq(u, 1, n) EXCEPT ![n] = @ - 128], After(u, n)>>
      BY DEF ReadAscii
    <2> HIDE DEF u
    <2>5. I # {} /\ Min(I) = l
      <3>1. I \subseteq Nat /\ l \in I
        BY <1>1, <1>4, <2>1
      <3>2. \A y \in I : l <= y
        <4>1. \A y \in I : y \in Nat /\ y >= 1 /\ u[y] >= 128
          OBVIOUS
        <4> HIDE DEF I
        <4>2. SUFFICES ASSUME NEW y \in I, ~ (l <= y) PROVE FALSE
          OBVIOUS
        <4>3. y \in 1 .. l /\ y # l /\ u[y] >= 128
          BY <1>1, <4>1, <4>2
        <4>4. QED
          BY <1>4, <2>1, <4>3
      <3> HIDE DEF I
      <3>3. QED
        BY <3>1, <3>2, MinIs
    <2> HIDE DEF I
    <2>6. l # 0
      BY <1>1
    <2>7. ReadAscii(u) = <<[a EXCEPT ![l] = @ - 128], rest>>
      BY <2>2, <2>3, <2>4, <2>5, <2>6
    <2>8. [a EXCEPT ![l] = @ - 128] = s
      <3>1. a[l] - 128 = s[l]
        <4>1. l \in 1 .. l
          BY <1>1
        <4>2. s[l] \in Nat /\ a[l] = s[l] + 128
          BY <1>2, <1>3, <4>1
        <4>3. QED
          BY <4>2
      <3>2. \A i \in 1 .. l : i # l => a[i] = s[i]
        BY <1>3
      <3>3. DOMAIN a = 1 .. l
        BY <1>3
      <3>4. [a EXCEPT ![l] = @ - 128] = [i \in 1 .. l |-> IF i = l THEN a[l] - 128 ELSE a[i]]
        BY <3>3
      <3>5. QED
        BY <1>2, <3>1, <3>2, <3>4
    <2>9. QED
      BY <2>7, <2>8 DEF u
  <1>7. QED
    BY <1>5, <1>6 DEF a, l

(* The first byte of a string is its header.                               *)
LEMMA TextBegins ==
  ASSUME NEW h \in Byte, NEW t \in File
  PROVE  ReadText(<<h>> \o t) = ReadString(h, t)
  BY NextRead DEF ReadText

(* The header tells how a string is packed.                                *)
LEMMA Headers ==
  ASSUME NEW t
  PROVE  /\ ReadString(0, t) = <<<<>>, t>>
         /\ ReadString(12, t) = <<<<Next1(t)[1]>>, Next1(t)[2]>>
         /\ ReadString(9, t) = ReadFourBits(t, NumericSet)
         /\ ReadString(8, t) = ReadFourBits(t, PhoneSet)
         /\ ReadString(10, t) = ReadFourBits(t, IdentifierSet)
         /\ ReadString(1, t) = ReadAscii(t)
         /\ ReadString(2, t) = <<UpTo(ReadVarint(t)[2], ReadVarint(t)[1]),
                                 After(ReadVarint(t)[2], ReadVarint(t)[1])>>
         /\ \A f \in 0 .. 15 : ReadString(16 + f, t) = ReadFiveBits(f, t)
  <1>1. /\ (0 \div 16) % 2 = 0 /\ (0 \div 8) % 4 = 0 /\ 0 % 8 = 0
        /\ (12 \div 16) % 2 = 0 /\ (12 \div 8) % 4 = 1 /\ 12 % 8 = 4
        /\ (9 \div 16) % 2 = 0 /\ (9 \div 8) % 4 = 1 /\ 9 % 8 = 1
        /\ (8 \div 16) % 2 = 0 /\ (8 \div 8) % 4 = 1 /\ 8 % 8 = 0
        /\ (10 \div 16) % 2 = 0 /\ (10 \div 8) % 4 = 1 /\ 10 % 8 = 2
        /\ (1 \div 16) % 2 = 0 /\ (1 \div 8) % 4 = 0 /\ 1 % 8 = 1
        /\ (2 \div 16) % 2 = 0 /\ (2 \div 8) % 4 = 0 /\ 2 % 8 = 2
    BY SMT
  <1>2. \A f \in 0 .. 15 : ((16 + f) \div 16) % 2 = 1 /\ (16 + f) % 16 = f
    BY SMT
  <1>3. ReadString(0, t) = <<<<>>, t>>
    BY <1>1 DEF ReadString, Then
  <1>4. ReadString(12, t) = <<<<Next1(t)[1]>>, Next1(t)[2]>>
    BY <1>1 DEF ReadString, Then
  <1>5. ReadString(9, t) = ReadFourBits(t, NumericSet)
    BY <1>1 DEF ReadString, Then
  <1>6. ReadString(8, t) = ReadFourBits(t, PhoneSet)
    BY <1>1 DEF ReadString, Then
  <1>7. ReadString(10, t) = ReadFourBits(t, IdentifierSet)
    BY <1>1 DEF ReadString, Then
  <1>8. ReadString(1, t) = ReadAscii(t)
    BY <1>1 DEF ReadString, Then
  <1>9. ReadString(2, t) = <<UpTo(ReadVarint(t)[2], ReadVarint(t)[1]),
                             After(ReadVarint(t)[2], ReadVarint(t)[1])>>
    BY <1>1 DEF ReadString, Then
  <1>10. \A f \in 0 .. 15 : ReadString(16 + f, t) = ReadFiveBits(f, t)
    <2>1. SUFFICES ASSUME NEW f \in 0 .. 15 PROVE ReadString(16 + f, t) = ReadFiveBits(f, t)
      OBVIOUS
    <2> DEFINE h == 16 + f
    <2>2. (h \div 16) % 2 = 1 /\ h % 16 = f
      BY <1>2
    <2> HIDE DEF h
    <2>3. (h \div 8) % 4 # 1 /\ (h \div 8) % 4 # 0
      BY SMT DEF h
    <2>4. ReadString(h, t) = ReadFiveBits(f, t)
      BY <2>2, <2>3 DEF ReadString, Then
    <2>5. QED
      BY <2>4 DEF h
  <1>11. QED
    BY <1>3, <1>4, <1>5, <1>6, <1>7, <1>8, <1>9, <1>10

(* What is read is s, and nothing after it. *)
ReadsAs(bytes, s) ==
    /\ bytes \in File
    /\ \A rest \in File : ReadText(bytes \o rest) = <<s, rest>>

(* A string is read if it is after its header.                             *)
LEMMA ReadsAfterHeader ==
  ASSUME NEW h \in Byte, NEW body \in File, NEW s,
         \A rest \in File : ReadString(h, body \o rest) = <<s, rest>>
  PROVE  ReadsAs(<<h>> \o body, s)
  <1>1. <<h>> \in File
    BY OneByte
  <1>2. <<h>> \o body \in File
    BY <1>1, FileConcat
  <1>3. ASSUME NEW rest \in File PROVE ReadText((<<h>> \o body) \o rest) = <<s, rest>>
    <2>1. (<<h>> \o body) \o rest = <<h>> \o (body \o rest)
      BY <1>1, FileAssociative, Zenon
    <2>2. body \o rest \in File
      BY FileConcat
    <2>3. ReadText(<<h>> \o (body \o rest)) = ReadString(h, body \o rest)
      <3> DEFINE t == body \o rest
      <3>1. t \in File
        BY <2>2
      <3> HIDE DEF t
      <3>2. ReadText(<<h>> \o t) = ReadString(h, t)
        BY <3>1, TextBegins
      <3>3. QED
        BY <3>2 DEF t
    <2>4. QED
      BY <2>1, <2>3
  <1>4. QED
    BY <1>2, <1>3 DEF ReadsAs

(* StringRead: a string that ends itself is read back as it was, whatever  *)
(* bytes follow it: the serializer and the deserializer of packed strings. *)
THEOREM StringRead ==
  ASSUME NEW s \in File, Len(s) < WordEnd, EndsItself(s)
  PROVE  ReadsAs(StringBytes(s, 0), s)
  <1> DEFINE b == StringBytes(s, 0)
  <1>1. Len(s) \in Nat /\ (s # <<>> => Len(s) # 0)
    BY FileFacts, EmptySeq DEF File
  <1>2. \A h \in {0, 1, 2, 8, 9, 10, 12} : h \in Byte
    BY DEF Byte
  <1>3. CASE s = <<>>
    <2>1. b = <<0>>
      BY <1>3 DEF StringBytes
    <2>2. \A rest \in File : ReadString(0, <<>> \o rest) = <<<<>>, rest>>
      <3>1. \A rest \in File : <<>> \o rest = rest
        BY ConcatEmptySeq DEF File
      <3>2. QED
        BY <3>1, Headers
    <2>3. <<>> \in File
      BY DEF File
    <2>4. ReadsAs(<<0>> \o <<>>, <<>>)
      <3>1. 0 \in Byte
        BY <1>2
      <3> DEFINE e == <<>>
      <3>2. e \in File /\ \A rest \in File : ReadString(0, e \o rest) = <<e, rest>>
        BY <2>2, <2>3
      <3> HIDE DEF e
      <3>3. ReadsAs(<<0>> \o e, e)
        BY <3>1, <3>2, ReadsAfterHeader
      <3>4. QED
        BY <3>3 DEF e
    <2>5. <<0>> \o <<>> = <<0>>
      <3>1. <<0>> \in File
        BY <1>2, OneByte
      <3>2. QED
        BY <3>1, ConcatEmptySeq DEF File
    <2>6. QED
      BY <1>3, <2>1, <2>4, <2>5
  <1>4. CASE s # <<>> /\ Len(s) = 1 /\ IsAscii(s)
    <2>1. b = <<12>> \o s
      BY <1>4 DEF StringBytes
    <2>2. PICK c \in Byte : s = <<c>>
      <3>1. s[1] \in Byte
        BY <1>4, FileFacts
      <3>2. s = <<s[1]>>
        BY <1>4 DEF File
      <3>3. QED
        BY <3>1, <3>2
    <2>3. ASSUME NEW rest \in File PROVE ReadString(12, s \o rest) = <<s, rest>>
      <3>1. Next1(s \o rest) = <<c, rest>>
        BY <2>2, NextRead
      <3>2. ReadString(12, s \o rest) = <<<<Next1(s \o rest)[1]>>, Next1(s \o rest)[2]>>
        BY Headers
      <3>3. QED
        BY <2>2, <3>1, <3>2
    <2>4. 12 \in Byte
      BY <1>2
    <2>5. ReadsAs(<<12>> \o s, s)
      BY <2>3, <2>4, ReadsAfterHeader
    <2>6. QED
      BY <2>1, <2>5
  <1> DEFINE single == Len(s) = 1 /\ IsAscii(s)
             num == InSet(s, NumericSet)
             phone == InSet(s, PhoneSet)
             ident == InSet(s, IdentifierSet)
  <1>5. ASSUME s # <<>>, num \/ phone \/ ident PROVE Len(s) % 2 = 1
    <2>1. ~ (Len(s) > 1 /\ Len(s) % 2 = 0)
      BY <1>5 DEF EndsItself
    <2>2. QED
      BY <1>1, <1>5, <2>1
  <1>6. CASE s # <<>> /\ ~ single /\ num
    <2>1. b = <<9>> \o FourBits(s, NumericSet)
      BY <1>6 DEF StringBytes
    <2>2. /\ FourBits(s, NumericSet) \in File
          /\ \A rest \in File :
               ReadFourBits(FourBits(s, NumericSet) \o rest, NumericSet) = <<s, rest>>
      BY <1>5, <1>6, Charsets, FourBitsRead
    <2> DEFINE body == FourBits(s, NumericSet)
    <2>3. 9 \in Byte /\ body \in File
      BY <1>2, <2>2
    <2>4. \A rest \in File : ReadString(9, body \o rest) = <<s, rest>>
      BY <2>2, Headers
    <2> HIDE DEF body
    <2>5. ReadsAs(<<9>> \o body, s)
      BY <2>3, <2>4, ReadsAfterHeader
    <2>6. QED
      BY <2>1, <2>5 DEF body
  <1>7. CASE s # <<>> /\ ~ single /\ ~ num /\ phone
    <2>1. b = <<8>> \o FourBits(s, PhoneSet)
      BY <1>7 DEF StringBytes
    <2>2. /\ FourBits(s, PhoneSet) \in File
          /\ \A rest \in File :
               ReadFourBits(FourBits(s, PhoneSet) \o rest, PhoneSet) = <<s, rest>>
      BY <1>5, <1>7, Charsets, FourBitsRead
    <2> DEFINE body == FourBits(s, PhoneSet)
    <2>3. 8 \in Byte /\ body \in File
      BY <1>2, <2>2
    <2>4. \A rest \in File : ReadString(8, body \o rest) = <<s, rest>>
      BY <2>2, Headers
    <2> HIDE DEF body
    <2>5. ReadsAs(<<8>> \o body, s)
      BY <2>3, <2>4, ReadsAfterHeader
    <2>6. QED
      BY <2>1, <2>5 DEF body
  <1>8. CASE s # <<>> /\ ~ single /\ ~ num /\ ~ phone /\ ident
    <2>1. b = <<10>> \o FourBits(s, IdentifierSet)
      BY <1>8 DEF StringBytes
    <2>2. /\ FourBits(s, IdentifierSet) \in File
          /\ \A rest \in File :
               ReadFourBits(FourBits(s, IdentifierSet) \o rest, IdentifierSet) = <<s, rest>>
      BY <1>5, <1>8, Charsets, FourBitsRead
    <2> DEFINE body == FourBits(s, IdentifierSet)
    <2>3. 10 \in Byte /\ body \in File
      BY <1>2, <2>2
    <2>4. \A rest \in File : ReadString(10, body \o rest) = <<s, rest>>
      BY <2>2, Headers
    <2> HIDE DEF body
    <2>5. ReadsAs(<<10>> \o body, s)
      BY <2>3, <2>4, ReadsAfterHeader
    <2>6. QED
      BY <2>1, <2>5 DEF body
  <1> DEFINE packed == num \/ phone \/ ident
  <1>9. CASE s # <<>> /\ ~ single /\ ~ packed /\ FitsFiveBits(s)
    <2> DEFINE f == FiveBitHeader(s)
               h == 16 + f
    <2>1. b = <<h>> \o FiveBits(s)
      BY <1>9 DEF StringBytes
    <2>2. InSet(s, FiveBitSet)
      BY <1>9 DEF FitsFiveBits
    <2>3. f \in 0 .. 15
      BY <1>9, <2>2, FiveBitHeaders
    <2>4. /\ FiveBits(s) \in File
          /\ \A rest \in File : ReadFiveBits(f, FiveBits(s) \o rest) = <<s, rest>>
      BY <1>9, <2>2, FiveBitsRead
    <2> HIDE DEF f
    <2>5. h \in Byte /\ \A t : ReadString(h, t) = ReadFiveBits(f, t)
      BY <2>3, Headers DEF Byte
    <2> DEFINE body == FiveBits(s)
    <2>6. \A rest \in File : ReadString(h, body \o rest) = <<s, rest>>
      <3> HIDE DEF h
      <3>1. QED
        BY <2>4, <2>5
    <2>7. body \in File
      BY <2>4
    <2> HIDE DEF h, body
    <2>8. ReadsAs(<<h>> \o body, s)
      BY <2>5, <2>6, <2>7, ReadsAfterHeader
    <2>9. QED
      BY <2>1, <2>8 DEF body
  <1>10. CASE s # <<>> /\ ~ single /\ ~ packed /\ ~ FitsFiveBits(s) /\ IsAscii(s)
    <2>1. b = <<1>> \o Ascii(s)
      BY <1>10 DEF StringBytes
    <2>2. /\ Ascii(s) \in File
          /\ \A rest \in File : ReadAscii(Ascii(s) \o rest) = <<s, rest>>
      BY <1>10, AsciiRead
    <2> DEFINE body == Ascii(s)
    <2>3. 1 \in Byte /\ body \in File
      BY <1>2, <2>2
    <2>4. \A rest \in File : ReadString(1, body \o rest) = <<s, rest>>
      BY <2>2, Headers
    <2> HIDE DEF body
    <2>5. ReadsAs(<<1>> \o body, s)
      BY <2>3, <2>4, ReadsAfterHeader
    <2>6. QED
      BY <2>1, <2>5 DEF body
  <1>11. CASE s # <<>> /\ ~ single /\ ~ packed /\ ~ FitsFiveBits(s) /\ ~ IsAscii(s)
    <2> DEFINE l == Len(s)
               v == Varint(l)
    <2>1. b = <<2>> \o v \o s
      BY <1>11 DEF StringBytes
    <2>2. v \in File /\ l % WordEnd = l
      <3>1. v \in File
        BY <1>1, VarintBytes
      <3> HIDE DEF v
      <3>2. l \in Nat /\ l < WordEnd
        BY <1>1
      <3> HIDE DEF l
      <3>3. l % WordEnd = l
        BY <3>2, SMT DEF WordEnd
      <3>4. QED
        BY <3>1, <3>3
    <2>3. \A rest \in File : ReadVarint(v \o rest) = <<l, rest>>
      BY <1>1, <2>2, VarintRead
    <2>4. \A rest \in File : UpTo(s \o rest, l) = s /\ After(s \o rest, l) = rest
      BY BeginOfConcat, AfterConcat
    <2> HIDE DEF l, v
    <2>5. b = <<2>> \o (v \o s) /\ v \o s \in File
      <3>1. <<2>> \in File
        BY <1>2, OneByte
      <3>2. (<<2>> \o v) \o s = <<2>> \o (v \o s)
        BY <2>2, <3>1, FileAssociative, Zenon
      <3>3. QED
        BY <2>1, <2>2, <3>2, FileConcat
    <2>6. ASSUME NEW rest \in File PROVE ReadString(2, (v \o s) \o rest) = <<s, rest>>
      <3>1. (v \o s) \o rest = v \o (s \o rest)
        BY <2>2, FileAssociative, Zenon
      <3>2. s \o rest \in File
        BY FileConcat
      <3>3. ReadVarint(v \o (s \o rest)) = <<l, s \o rest>>
        BY <2>3, <3>2
      <3> DEFINE t == v \o (s \o rest)
      <3>4. ReadVarint(t)[1] = l /\ ReadVarint(t)[2] = s \o rest
        BY <3>3
      <3> HIDE DEF t
      <3>5. ReadString(2, t) = <<UpTo(s \o rest, l), After(s \o rest, l)>>
        BY <3>4, Headers
      <3>6. QED
        BY <2>4, <3>1, <3>5 DEF t
    <2> DEFINE body == v \o s
    <2>7. 2 \in Byte /\ body \in File /\ b = <<2>> \o body
      BY <1>2, <2>5
    <2>8. \A rest \in File : ReadString(2, body \o rest) = <<s, rest>>
      BY <2>6
    <2> HIDE DEF body
    <2>9. ReadsAs(<<2>> \o body, s)
      BY <2>7, <2>8, ReadsAfterHeader
    <2>10. QED
      BY <2>7, <2>9
  <1> HIDE DEF b, num, phone, ident, single
  <1>12. QED
    BY <1>3, <1>4, <1>6, <1>7, <1>8, <1>9, <1>10, <1>11 DEF single, b

(* Any number of strings. *)
LEMMA TextsRead ==
  ASSUME NEW vals \in Seq(File), NEW ss \in Seq(File), Len(ss) = Len(vals),
         \A i \in 1 .. Len(vals) : ReadsAs(ss[i], vals[i]), NEW tail \in File
  PROVE  Repeated(ReadText, FlattenSeq(ss) \o tail, Len(vals)) = <<vals, tail>>
  <1> DEFINE k == Len(vals)
             bytes == FlattenSeq(ss) \o tail
             Body(n, h) == IF n = 0 THEN <<<<>>, bytes>>
                           ELSE <<Append(h[n - 1][1], ReadText(h[n - 1][2])[1]),
                                  ReadText(h[n - 1][2])[2]>>
             at == CHOOSE h : h = [n \in 0 .. k |-> Body(n, h)]
  <1>1. k \in Nat
    BY LenProperties
  <1>2. Len(ss) = k /\ \A i \in 1 .. k : ReadsAs(ss[i], vals[i])
    OBVIOUS
  <1> HIDE DEF k
  <1>3. Repeated(ReadText, bytes, k) = at[k]
    BY DEF Repeated, Then
  <1>4. \A i \in 1 .. k, r \in File : ReadText(ss[i] \o r) = <<vals[i], r>>
    <2>1. \A i \in 1 .. k : ReadsAs(ss[i], vals[i])
      BY <1>2
    <2>2. QED
      BY <2>1 DEF ReadsAs
  <1>5. PICK f : IsReading(f, ss, vals, tail)
    BY <1>2, ReadingExists DEF k
  <1>6. /\ f[0] = <<<<>>, bytes>> /\ f[k] = <<vals, tail>>
        /\ f \in [0 .. k -> Seq(Range(vals)) \X File]
        /\ \A i \in 1 .. k : \E r \in File : /\ f[i - 1][2] = ss[i] \o r
                                             /\ f[i] = <<Append(f[i - 1][1], vals[i]), r>>
    BY <1>2, <1>5 DEF IsReading
  <1>7. \A h : \A i \in 1 .. k : h[i - 1] = f[i - 1] => Body(i, h) = f[i]
    <2>1. SUFFICES ASSUME NEW h, NEW i \in 1 .. k, h[i - 1] = f[i - 1] PROVE Body(i, h) = f[i]
      OBVIOUS
    <2>2. PICK r \in File : f[i - 1][2] = ss[i] \o r /\ f[i] = <<Append(f[i - 1][1], vals[i]), r>>
      BY <1>6
    <2>3. ReadText(h[i - 1][2]) = <<vals[i], r>>
      BY <1>4, <2>1, <2>2
    <2>4. i # 0
      BY <1>1
    <2>5. Body(i, h) = <<Append(h[i - 1][1], ReadText(h[i - 1][2])[1]), ReadText(h[i - 1][2])[2]>>
      BY <2>4
    <2> HIDE DEF Body
    <2>6. QED
      BY <2>1, <2>2, <2>3, <2>5
  <1>8. \A h : Body(0, h) = f[0]
    BY <1>6
  <1> HIDE DEF Body
  <1>9. f = [n \in 0 .. k |-> Body(n, f)]
    <2>1. \A n \in 0 .. k : n = 0 \/ n \in 1 .. k
      BY <1>1
    <2>2. \A n \in 0 .. k : f[n] = Body(n, f)
      BY <1>7, <1>8, <2>1, Zenon
    <2>3. QED
      BY <1>6, <2>2
  <1>10. at = [n \in 0 .. k |-> Body(n, at)]
    BY <1>9, Zenon
  <1> HIDE DEF at
  <1>11. at[k] = f[k]
    <2>1. 0 \in 0 .. k /\ k \in 0 .. k /\ \A i \in 1 .. k : i \in 0 .. k
      BY <1>1
    <2>2. at[0] = f[0]
      BY <1>8, <1>10, <2>1, Zenon
    <2>3. \A i \in 1 .. k : at[i - 1] = f[i - 1] => at[i] = f[i]
      BY <1>7, <1>10, <2>1, Zenon
    <2>4. k \in Nat
      BY <1>1
    <2>5. ASSUME NEW g, g[0] = f[0], \A i \in 1 .. k : g[i - 1] = f[i - 1] => g[i] = f[i]
          PROVE  g[k] = f[k]
      BY <2>4, <2>5, SameEnd
    <2>6. QED
      BY <2>2, <2>3, <2>5
  <1>12. QED
    BY <1>3, <1>6, <1>11 DEF k

-----------------------------------------------------------------------------
(* The bytes of the fields of an element.                                  *)

(* A string packed by half bytes is bytes, whatever its length, and no      *)
(* longer than it was.                                                     *)
LEMMA FourBitsBytes ==
  ASSUME NEW set \in File, Len(set) = 15, NEW s \in File, InSet(s, set)
  PROVE  FourBits(s, set) \in File /\ Len(FourBits(s, set)) <= Len(s)
  <1> DEFINE code(i) == IF i > Len(s) THEN EndNibble ELSE CodeIn(set, s[i])
             m == (Len(s) + 1) \div 2
             b == [k \in 1 .. m |-> 16 * code(2 * k - 1) + code(2 * k)]
  <1>1. Len(s) \in Nat /\ m \in Nat /\ DOMAIN s = 1 .. Len(s)
    BY FileFacts
  <1>2. \A i \in Nat \ {0} : code(i) \in 0 .. 15
    <2>1. SUFFICES ASSUME NEW i \in Nat \ {0} PROVE code(i) \in 0 .. 15
      OBVIOUS
    <2>2. CASE i > Len(s)
      BY <2>2 DEF EndNibble
    <2>3. CASE ~ (i > Len(s))
      <3>1. i \in DOMAIN s
        BY <1>1, <2>3
      <3>2. s[i] \in ToSet(set)
        BY <3>1 DEF InSet
      <3>3. CodeIn(set, s[i]) \in 0 .. 14
        <4> DEFINE char == s[i]
        <4>1. char \in ToSet(set)
          BY <3>2
        <4> HIDE DEF char
        <4>2. CodeIn(set, char) \in 0 .. Len(set) - 1
          BY <4>1, CodeFacts
        <4>3. QED
          BY <4>2 DEF char
      <3>4. QED
        BY <2>3, <3>3
    <2>4. QED
      BY <2>2, <2>3
  <1>3. FourBits(s, set) = b
    BY DEF FourBits
  <1> HIDE DEF code, m
  <1>4. \A k \in 1 .. m : 16 * code(2 * k - 1) + code(2 * k) \in Byte
    <2>1. SUFFICES ASSUME NEW k \in 1 .. m PROVE 16 * code(2 * k - 1) + code(2 * k) \in Byte
      OBVIOUS
    <2>2. 2 * k - 1 \in Nat \ {0} /\ 2 * k \in Nat \ {0}
      BY <1>1
    <2>3. code(2 * k - 1) \in 0 .. 15 /\ code(2 * k) \in 0 .. 15
      BY <1>2, <2>2
    <2>4. QED
      BY <2>3 DEF Byte
  <1>5. b \in [1 .. m -> Byte]
    BY <1>4
  <1> HIDE DEF b
  <1>6. b \in File /\ Len(b) = m
    BY <1>1, <1>5, MakesFile
  <1>7. m <= Len(s)
    BY <1>1 DEF m
  <1>8. QED
    BY <1>3, <1>6, <1>7

(* A header and what is packed after it. *)
LEMMA HeaderBefore ==
  ASSUME NEW h \in Byte, NEW s \in File
  PROVE  <<h>> \o s \in File /\ Len(<<h>> \o s) = 1 + Len(s)
  <1> DEFINE first == <<h>>
  <1>1. first \in File /\ Len(first) = 1
    BY OneByte
  <1> HIDE DEF first
  <1>2. first \o s \in File /\ Len(first \o s) = Len(first) + Len(s)
    BY <1>1, FileConcat
  <1>3. QED
    BY <1>1, <1>2 DEF first

(* Every string has its bytes, hardly more than it is long, whatever is in *)
(* the high bits of the header.                                            *)
LEMMA StringIsBytes ==
  ASSUME NEW s \in File, NEW extra \in 0 .. 224
  PROVE  StringBytes(s, extra) \in File /\ Len(StringBytes(s, extra)) <= Len(s) + 6
  <1> DEFINE b == StringBytes(s, extra)
             Packed8(h, body) == /\ b = <<extra + h>> \o body
                                 /\ h \in 0 .. 31 /\ body \in File
                                 /\ Len(body) <= Len(s) + 5
  <1>1. Len(s) \in Nat
    BY FileFacts
  <1>2. ASSUME NEW h, NEW body, Packed8(h, body)
        PROVE  b \in File /\ Len(b) <= Len(s) + 6
    <2>1. extra + h \in Byte
      BY <1>2 DEF Byte
    <2>2. body \in File /\ Len(body) \in Nat /\ Len(body) <= Len(s) + 5
      BY <1>2, FileFacts
    <2>3. b = <<extra + h>> \o body
      BY <1>2
    <2> HIDE DEF b
    <2>4. b \in File /\ Len(b) = 1 + Len(body)
      BY <2>1, <2>2, <2>3, HeaderBefore
    <2>5. QED
      BY <1>1, <2>2, <2>4
  <1> DEFINE single == Len(s) = 1 /\ IsAscii(s)
             num == InSet(s, NumericSet)
             phone == InSet(s, PhoneSet)
             ident == InSet(s, IdentifierSet)
             other == s # <<>> /\ ~ single
             packed == num \/ phone \/ ident
  <1>3. CASE s = <<>>
    <2>1. b = <<extra>>
      BY <1>3 DEF StringBytes
    <2>2. extra \in Byte
      BY DEF Byte
    <2>3. QED
      BY <1>1, <2>1, <2>2, OneByte
  <1>4. CASE s # <<>> /\ single
    <2>1. b = <<extra + 8 + 4>> \o s
      BY <1>4 DEF StringBytes
    <2>2. extra + 8 + 4 = extra + 12
      OBVIOUS
    <2>3. Packed8(12, s)
      BY <1>1, <2>1, <2>2
    <2> HIDE DEF Packed8
    <2>4. QED
      BY <1>2, <2>3
  <1>5. ASSUME other, \/ num
                      \/ ~ num /\ phone
                      \/ ~ num /\ ~ phone /\ ident
        PROVE  \E h, body : Packed8(h, body)
    <2>1. ASSUME NEW set \in {NumericSet, PhoneSet, IdentifierSet}, InSet(s, set),
                 NEW h \in {8, 9, 10}, b = <<extra + h>> \o FourBits(s, set)
          PROVE  Packed8(h, FourBits(s, set))
      <3>1. FourBits(s, set) \in File /\ Len(FourBits(s, set)) <= Len(s)
        BY <2>1, Charsets, FourBitsBytes
      <3> DEFINE body == FourBits(s, set)
      <3>2. body \in File /\ Len(body) <= Len(s) /\ Len(body) \in Nat
        BY <3>1, FileFacts
      <3>3. b = <<extra + h>> \o body
        BY <2>1
      <3> HIDE DEF body, b
      <3>4. Packed8(h, body)
        BY <1>1, <3>2, <3>3
      <3>5. QED
        BY <3>4 DEF body
    <2>2. extra + 8 + 1 = extra + 9 /\ extra + 8 + 2 = extra + 10
      OBVIOUS
    <2>3. \/ num /\ b = <<extra + 9>> \o FourBits(s, NumericSet)
          \/ phone /\ b = <<extra + 8>> \o FourBits(s, PhoneSet)
          \/ ident /\ b = <<extra + 10>> \o FourBits(s, IdentifierSet)
      BY <1>5, <2>2 DEF StringBytes
    <2> HIDE DEF Packed8, b
    <2>4. QED
      BY <2>1, <2>3
  <1>6. CASE other /\ ~ packed /\ FitsFiveBits(s)
    <2> DEFINE f == FiveBitHeader(s)
               body == FiveBits(s)
    <2>1. b = <<extra + 16 + f>> \o body
      BY <1>6 DEF StringBytes
    <2>2. f \in 0 .. 15 /\ body \in File /\ Len(body) <= Len(s) /\ Len(body) \in Nat
      <3>1. s # <<>> /\ InSet(s, FiveBitSet)
        BY <1>6 DEF FitsFiveBits
      <3>2. f \in 0 .. 15
        BY <3>1, FiveBitHeaders
      <3>3. body \in File /\ Len(body) <= Len(s)
        BY <3>1, FiveBitsRead
      <3>4. QED
        BY <3>2, <3>3, FileFacts
    <2> HIDE DEF f, body, b
    <2>3. extra + 16 + f = extra + (16 + f) /\ 16 + f \in 0 .. 31
      BY <2>2
    <2>4. Packed8(16 + f, body)
      BY <1>1, <2>1, <2>2, <2>3
    <2> HIDE DEF Packed8
    <2>5. QED
      BY <1>2, <2>4 DEF b
  <1>7. CASE other /\ ~ packed /\ ~ FitsFiveBits(s) /\ IsAscii(s)
    <2> DEFINE body == Ascii(s)
    <2>1. b = <<extra + 1>> \o body
      BY <1>7 DEF StringBytes
    <2>2. body \in File /\ Len(body) = Len(s)
      BY <1>7, AsciiRead
    <2> HIDE DEF body, b
    <2>3. Packed8(1, body)
      BY <1>1, <2>1, <2>2
    <2> HIDE DEF Packed8
    <2>4. QED
      BY <1>2, <2>3 DEF b
  <1>8. CASE other /\ ~ packed /\ ~ FitsFiveBits(s) /\ ~ IsAscii(s)
    <2> DEFINE v == Varint(Len(s))
    <2>1. b = <<extra + 2>> \o v \o s
      BY <1>8 DEF StringBytes
    <2>2. v \in File /\ Len(v) <= 5 /\ Len(v) \in Nat
      BY <1>1, VarintIsShort, FileFacts
    <2>3. <<extra + 2>> \in File
      <3>1. extra + 2 \in Byte
        BY DEF Byte
      <3>2. QED
        BY <3>1, OneByte
    <2> HIDE DEF v, b
    <2>4. (<<extra + 2>> \o v) \o s = <<extra + 2>> \o (v \o s)
      BY <2>2, <2>3, FileAssociative, Zenon
    <2>5. v \o s \in File /\ Len(v \o s) = Len(v) + Len(s)
      BY <2>2, FileConcat
    <2>6. Packed8(2, v \o s)
      BY <1>1, <2>1, <2>2, <2>4, <2>5
    <2> HIDE DEF Packed8
    <2>7. QED
      BY <1>2, <2>6 DEF b
  <1> HIDE DEF Packed8, b, single, num, phone, ident
  <1>9. QED
    BY <1>2, <1>3, <1>4, <1>5, <1>6, <1>7, <1>8 DEF b

LEMMA PowersOf10 ==
  ASSUME NEW e \in 0 .. 9
  PROVE  10 ^ e \in Nat /\ 10 ^ e > 0
  <1>0. CASE e = 0
    BY <1>0, SMT
  <1>1. CASE e = 1
    BY <1>1, SMT
  <1>2. CASE e = 2
    BY <1>2, SMT
  <1>3. CASE e = 3
    BY <1>3, SMT
  <1>4. CASE e = 4
    BY <1>4, SMT
  <1>5. CASE e = 5
    BY <1>5, SMT
  <1>6. CASE e = 6
    BY <1>6, SMT
  <1>7. CASE e = 7
    BY <1>7, SMT
  <1>8. CASE e = 8
    BY <1>8, SMT
  <1>9. CASE e = 9
    BY <1>9, SMT
  <1>10. QED
    BY <1>0, <1>1, <1>2, <1>3, <1>4, <1>5, <1>6, <1>7, <1>8, <1>9

(* A number in digits, ten at most. *)
LEMMA DecimalIsBytes ==
  ASSUME NEW n \in Nat
  PROVE  Decimal(n) \in File /\ Len(Decimal(n)) <= 10
  <1> DEFINE T == {j \in 0 .. 9 : j = 0 \/ 10 ^ j <= n}
             most == Max(T)
             f == [i \in 1 .. most + 1 |-> 48 + ((n \div 10 ^ (most + 1 - i)) % 10)]
  <1>1. T \subseteq 0 .. 9 /\ T # {}
    <2>1. 0 \in T
      OBVIOUS
    <2>2. QED
      BY <2>1
  <1>2. Decimal(n) = f
    BY DEF Decimal
  <1> HIDE DEF T
  <1>3. most \in 0 .. 9
    BY <1>1, MaxFacts
  <1> HIDE DEF most
  <1>4. ASSUME NEW i \in 1 .. most + 1 PROVE f[i] \in Byte
    <2> DEFINE d == 10 ^ (most + 1 - i)
               q == n \div d
    <2>1. most + 1 - i \in 0 .. 9
      BY <1>3
    <2>2. d \in Nat /\ d > 0
      BY <2>1, PowersOf10
    <2>3. f[i] = 48 + (q % 10)
      OBVIOUS
    <2> HIDE DEF d, f
    <2>4. q \in Int
      BY <2>2
    <2> HIDE DEF q
    <2>5. QED
      BY <2>3, <2>4 DEF Byte
  <1>5. f \in [1 .. most + 1 -> Byte]
    BY <1>4
  <1> HIDE DEF f
  <1>6. f \in File /\ Len(f) = most + 1
    BY <1>3, <1>5, MakesFile
  <1>7. QED
    BY <1>2, <1>3, <1>6

(* The characters of a value: no more than the map allows. *)
LEMMA CharactersAreBytes ==
  ASSUME NEW value \in Values
  PROVE  Characters(value) \in File /\ Len(Characters(value)) <= MaxTagBytes
  <1>1. value \in Tags /\ Len(value.v) <= MaxTagBytes
    BY DEF Values
  <1>2. CASE value.t = "text"
    <2>1. value.v \in File
      BY <1>1, <1>2 DEF Tags, File, Byte
    <2>2. QED
      BY <1>1, <1>2, <2>1 DEF Characters
  <1>3. CASE value.t = "number"
    <2> DEFINE n == value.v[1]
               m == AbsDiff(n, 0)
               sign == IF n < 0 THEN <<45>> ELSE <<>>
               digits == Decimal(m)
    <2>1. n \in Int
      BY <1>1, <1>3 DEF Tags
    <2>2. Characters(value) = sign \o digits
      BY <1>3 DEF Characters
    <2> HIDE DEF n
    <2>3. m \in Nat
      BY <2>1 DEF AbsDiff
    <2> HIDE DEF m
    <2>4. digits \in File /\ Len(digits) <= 10 /\ Len(digits) \in Nat
      BY <2>3, DecimalIsBytes, FileFacts
    <2>5. sign \in File /\ Len(sign) <= 1 /\ Len(sign) \in Nat
      <3>1. <<45>> \in File /\ Len(<<45>>) = 1
        BY OneByte DEF Byte
      <3>2. <<>> \in File /\ Len(<<>>) = 0
        BY EmptySeq DEF File
      <3>3. QED
        BY <3>1, <3>2
    <2> HIDE DEF sign, digits
    <2>6. sign \o digits \in File /\ Len(sign \o digits) = Len(sign) + Len(digits)
      BY <2>4, <2>5, FileConcat
    <2>7. QED
      BY <2>2, <2>4, <2>5, <2>6 DEF MaxTagBytes
  <1>4. QED
    BY <1>1, <1>2, <1>3 DEF Tags

LEMMA FlagWordIsInt ==
  ASSUME NEW flags \in Seq(Int)
  PROVE  FlagWord(flags) \in Int
  <1> DEFINE n == Len(flags)
             on(x, i) == 2 * x + flags[n + 1 - i]
             G == [i \in 1 .. n |-> [x \in Int |-> on(x, i)]]
             Body(i, h) == IF i = 0 THEN 0 ELSE on(h[i - 1], i)
             at == CHOOSE h : h = [i \in 0 .. n |-> Body(i, h)]
  <1>1. n \in Nat /\ \A i \in 1 .. n : flags[i] \in Int
    BY LenProperties, ElementOfSeq
  <1>2. FlagWord(flags) = at[n]
    BY DEF FlagWord
  <1> HIDE DEF at, n
  <1>3. ASSUME NEW x \in Int, NEW i \in 1 .. n PROVE on(x, i) \in Int
    <2>1. n + 1 - i \in 1 .. n
      BY <1>1
    <2>2. flags[n + 1 - i] \in Int
      BY <1>1, <2>1
    <2>3. QED
      BY <2>2
  <1> HIDE DEF on
  <1>4. Stepwise(n, Int, G)
    BY <1>3 DEF Stepwise
  <1>5. PICK f \in [0 .. n -> Int] : f[0] = 0 /\ \A i \in 1 .. n : f[i] = G[i][f[i - 1]]
    <2> HIDE DEF G
    <2>1. 0 \in Int
      OBVIOUS
    <2>2. PICK f : IsRun(f, n, Int, 0, G)
      BY <1>1, <1>4, <2>1, UpwardRecursion
    <2>3. QED
      BY <2>2 DEF IsRun
  <1>6. f = [i \in 0 .. n |-> Body(i, f)]
    <2>1. ASSUME NEW i \in 0 .. n PROVE f[i] = Body(i, f)
      <3>1. CASE i = 0
        BY <1>5, <3>1
      <3>2. CASE i # 0
        <4>1. i \in 1 .. n /\ i - 1 \in 0 .. n
          BY <1>1, <3>2
        <4>2. f[i - 1] \in Int /\ f[i] = G[i][f[i - 1]]
          BY <1>5, <4>1
        <4>3. f[i] = on(f[i - 1], i)
          BY <4>1, <4>2
        <4>4. QED
          BY <3>2, <4>3
      <3>3. QED
        BY <3>1, <3>2
    <2> HIDE DEF Body
    <2>2. QED
      BY <2>1
  <1>7. at = [i \in 0 .. n |-> Body(i, at)]
    <2> HIDE DEF Body
    <2>1. QED
      BY <1>6 DEF at
  <1>8. at[0] = 0 /\ \A i \in 1 .. n : at[i] = on(at[i - 1], i)
    <2>1. \A i \in 0 .. n : at[i] = Body(i, at)
      <3> HIDE DEF Body
      <3>1. QED
        BY <1>7
    <2>2. 0 \in 0 .. n /\ \A i \in 1 .. n : i \in 0 .. n /\ i # 0
      BY <1>1
    <2>3. QED
      BY <2>1, <2>2
  <1> HIDE DEF Body
  <1>9. \A i \in 0 .. n : at[i] \in Int
    <2>1. \A i \in 1 .. n : at[i - 1] \in Int => at[i] = G[i][at[i - 1]]
      BY <1>8
    <2>2. 0 \in Int /\ at[0] = 0
      BY <1>8
    <2> HIDE DEF G
    <2>3. Follows(at, n, Int, 0, G)
      BY <2>1, <2>2 DEF Follows
    <2>4. QED
      BY <1>1, <1>4, <2>2, <2>3, Determined
  <1>10. n \in 0 .. n
    BY <1>1
  <1>11. QED
    BY <1>2, <1>9, <1>10

(* What the schema says of a field. *)
LEMMA SchemaFacts ==
  ASSUME NEW i \in DOMAIN Schema
  PROVE  /\ Schema[i].id \in 0 .. 1023
         /\ Schema[i].kind \in SingleKinds \cup ManyKinds
         /\ Schema[i].keys \in Seq(Tags) /\ Schema[i].options \in Seq(Values)
  <1> DEFINE R == [id : 0 .. 1023, kind : SingleKinds \cup ManyKinds,
                   keys : Seq(Tags), options : Seq(Values)]
  <1>1. Schema \in Seq(R)
    BY SchemaConstants
  <1>2. Schema[i] \in R
    <2> HIDE DEF R
    <2>1. QED
      BY <1>1, LenProperties, ElementOfSeq
  <1>3. QED
    BY <1>2

(* A known field as parse_tags_to_fields makes it. *)
KnownFields ==
    {f \in [t : {"Field"}, field : DOMAIN Schema, v : Seq(Int)] :
       /\ Schema[f.field].kind = "text" => f.v \in File /\ Len(f.v) <= MaxTagBytes
       /\ Schema[f.field].kind = "combo" => f.v[1] \in Int}

LEMMA KnownFieldIsShort ==
  ASSUME NEW f \in KnownFields
  PROVE  KnownField(f) \in Blobs
  <1> DEFINE s == Schema[f.field]
             nib == Nib(f.field)
             n == f.v[1]
             last == CASE s.kind = "text" -> StringBytes(f.v, nib)
                       [] s.kind = "checkbox" -> <<IF n = 1 THEN WithBit(nib, 128) ELSE nib>>
                       [] s.kind = "combo" -> ComboBytes(s, nib, n)
                       [] s.kind = "multi yes combo" -> <<nib>> \o Varint(FlagWord(f.v))
                       [] s.kind = "localized string" -> Varint(nib + 16)
  <1>1. /\ f.field \in DOMAIN Schema /\ f.v \in Seq(Int)
        /\ s.kind = "text" => f.v \in File /\ Len(f.v) <= MaxTagBytes
        /\ s.kind = "combo" => n \in Int
    BY DEF KnownFields
  <1>2. s.id \in 0 .. 1023 /\ s.kind \in SingleKinds \cup ManyKinds
    BY <1>1, SchemaFacts
  <1>3. s.options \in Seq(Values)
    BY <1>1, SchemaFacts
  <1>4. nib \in {32 * r : r \in 0 .. 7} /\ 128 + (s.id \div 8) \in Byte
    <2> DEFINE id == s.id
    <2>1. nib = 32 * (id % 8) /\ id \in 0 .. 1023
      BY <1>2 DEF Nib
    <2> HIDE DEF id, nib
    <2>2. id % 8 \in 0 .. 7 /\ 128 + (id \div 8) \in Byte
      BY <2>1 DEF Byte
    <2>3. QED
      BY <2>1, <2>2 DEF id
  <1>5. 128 + (s.id \div 8) \in Byte
    BY <1>4
  <1>6. KnownField(f) = <<128 + (s.id \div 8)>> \o last
    BY DEF KnownField
  <1>7. nib \in 0 .. 224 /\ nib \in Byte /\ nib \in Int
    BY <1>4 DEF Byte
  <1>8. last \in File /\ Len(last) <= MaxTagBytes + 6
    <2> HIDE DEF nib
    <2>1. CASE s.kind = "text"
      <3>1. last = StringBytes(f.v, nib)
        BY <2>1
      <3>2. f.v \in File /\ Len(f.v) <= MaxTagBytes /\ Len(f.v) \in Nat
        BY <1>1, <2>1, FileFacts
      <3> HIDE DEF last
      <3>3. /\ StringBytes(f.v, nib) \in File
            /\ Len(StringBytes(f.v, nib)) <= Len(f.v) + 6
        BY <1>7, <3>2, StringIsBytes
      <3>4. last \in File /\ Len(last) \in Nat
        BY <3>1, <3>3, FileFacts
      <3>5. QED
        BY <3>1, <3>2, <3>3, <3>4 DEF MaxTagBytes
    <2>2. CASE s.kind = "checkbox"
      <3>1. last = <<IF n = 1 THEN WithBit(nib, 128) ELSE nib>>
        BY <2>2
      <3> DEFINE b == IF n = 1 THEN WithBit(nib, 128) ELSE nib
      <3>2. b \in Byte
        <4>1. WithBit(nib, 128) \in Byte
          BY <1>4 DEF WithBit, Byte, nib
        <4>2. QED
          BY <1>7, <4>1
      <3> HIDE DEF b, last
      <3>3. QED
        BY <3>1, <3>2, OneByte DEF MaxTagBytes, b
    <2>3. CASE s.kind = "combo" /\ Len(s.options) < 16
      <3>1. last = Varint(nib + n)
        BY <2>3 DEF ComboBytes
      <3>2. nib + n \in Int
        BY <1>1, <1>7, <2>3
      <3> HIDE DEF last
      <3>3. last \in File /\ Len(last) <= 5 /\ Len(last) \in Nat
        BY <3>1, <3>2, VarintIsShort, FileFacts
      <3>4. QED
        BY <3>3 DEF MaxTagBytes
    <2>4. CASE s.kind = "combo" /\ Len(s.options) >= 16
      <3> DEFINE a == Varint(nib)
                 c == Varint(n)
      <3>1. last = a \o c
        <4>1. ~ (Len(s.options) < 16)
          BY <1>3, <2>4, LenProperties
        <4>2. QED
          BY <2>4, <4>1 DEF ComboBytes
      <3>2. n \in Int
        BY <1>1, <2>4
      <3> HIDE DEF last
      <3>3. a \in File /\ Len(a) <= 5 /\ c \in File /\ Len(c) <= 5
        BY <1>7, <3>2, VarintIsShort
      <3> HIDE DEF a, c
      <3>4. Len(a) \in Nat /\ Len(c) \in Nat
        BY <3>3, FileFacts
      <3>5. a \o c \in File /\ Len(a \o c) = Len(a) + Len(c)
        BY <3>3, FileConcat
      <3>6. QED
        BY <3>1, <3>3, <3>4, <3>5 DEF MaxTagBytes
    <2>5. CASE s.kind = "multi yes combo"
      <3> DEFINE w == FlagWord(f.v)
                 a == Varint(w)
      <3>1. last = <<nib>> \o a
        BY <2>5
      <3>2. w \in Int
        BY <1>1, FlagWordIsInt
      <3> HIDE DEF last, w
      <3>3. a \in File /\ Len(a) <= 5 /\ Len(a) \in Nat
        BY <3>2, VarintIsShort, FileFacts
      <3> HIDE DEF a
      <3>4. <<nib>> \o a \in File /\ Len(<<nib>> \o a) = 1 + Len(a)
        BY <1>7, <3>3, HeaderBefore
      <3>5. QED
        BY <3>1, <3>3, <3>4 DEF MaxTagBytes
    <2>6. CASE s.kind = "localized string"
      <3>1. last = Varint(nib + 16)
        BY <2>6
      <3>2. nib + 16 \in Int
        BY <1>7
      <3> HIDE DEF last
      <3>3. last \in File /\ Len(last) <= 5 /\ Len(last) \in Nat
        BY <3>1, <3>2, VarintIsShort, FileFacts
      <3>4. QED
        BY <3>3 DEF MaxTagBytes
    <2>7. s.kind \in {"text", "checkbox", "combo", "multi yes combo", "localized string"}
      BY <1>2 DEF SingleKinds, ManyKinds
    <2>8. Len(s.options) < 16 \/ Len(s.options) >= 16
      <3>1. Len(s.options) \in Nat
        BY <1>3, LenProperties
      <3>2. QED
        BY <3>1
    <2> HIDE DEF last, s
    <2>9. QED
      BY Zenon, <2>1, <2>2, <2>3, <2>4, <2>5, <2>6, <2>7, <2>8
  <1> HIDE DEF last
  <1>9. Len(last) \in Nat
    BY <1>8, FileFacts
  <1> DEFINE h == 128 + (s.id \div 8)
  <1> HIDE DEF h
  <1>10. <<h>> \o last \in File /\ Len(<<h>> \o last) = 1 + Len(last)
    BY <1>5, <1>8, HeaderBefore DEF h
  <1>11. Len(<<h>> \o last) <= MaxBlob
    BY <1>8, <1>9, <1>10 DEF MaxTagBytes, MaxBlob
  <1>12. QED
    BY <1>6, <1>10, <1>11 DEF Blobs, h

-----------------------------------------------------------------------------
(* What parse_tags_to_fields gives.                                        *)

Pairs == Tags \X Values

OtherFields == [t : {"Other"}, key : Tags, value : Tags]

AllFields == KnownFields \cup OtherFields

(* The schema is a sequence. *)
LEMMA SchemaIsSeq ==
  Len(Schema) \in Nat /\ DOMAIN Schema = 1 .. Len(Schema)
  <1> DEFINE R == [id : 0 .. 1023, kind : SingleKinds \cup ManyKinds,
                   keys : Seq(Tags), options : Seq(Values)]
  <1>1. Schema \in Seq(R)
    BY SchemaConstants
  <1> HIDE DEF R
  <1>2. QED
    BY <1>1, LenProperties

(* What SelectInSeq gives is 0 or one of the places that pass.             *)
LEMMA PlaceFound ==
  ASSUME NEW n \in Nat, NEW I, I \subseteq 1 .. n
  PROVE  LET i == IF I # {} THEN Min(I) ELSE 0
         IN  i \in 0 .. n /\ (i # 0 => i \in I)
  <1>1. CASE I = {}
    BY <1>1
  <1>2. CASE I # {}
    <2>1. I \subseteq Nat
      OBVIOUS
    <2>2. PICK k \in I : \A y \in I : k <= y
      BY <1>2, <2>1, LeastNat
    <2>3. Min(I) = k
      BY <2>1, <2>2, MinIs
    <2>4. QED
      BY <1>2, <2>2, <2>3
  <1>3. QED
    BY <1>1, <1>2

LEMMA RuleOfIsPlace ==
  ASSUME NEW tag
  PROVE  RuleOf(tag) = 0 \/ RuleOf(tag) \in DOMAIN Rules
  <1> DEFINE n == Len(Rules)
             I == {i \in 1 .. n : IsPart(Rules[i], tag)}
  <1>1. n \in Nat /\ DOMAIN Rules = 1 .. n
    BY SchemaConstants, LenProperties
  <1>2. RuleOf(tag) = IF I # {} THEN Min(I) ELSE 0
    BY Zenon DEF RuleOf, SelectInSeq
  <1>3. I \subseteq 1 .. n
    OBVIOUS
  <1> HIDE DEF I, n
  <1>4. QED
    BY <1>1, <1>2, <1>3, PlaceFound

LEMMA SingleOfIsPlace ==
  ASSUME NEW tag
  PROVE  \/ SingleOf(tag) = 0
         \/ SingleOf(tag) \in DOMAIN Schema /\ Takes(Schema[SingleOf(tag)], tag)
  <1> DEFINE n == Len(Schema)
             I == {i \in 1 .. n : Takes(Schema[i], tag)}
  <1>1. n \in Nat /\ DOMAIN Schema = 1 .. n
    BY SchemaIsSeq
  <1>2. SingleOf(tag) = IF I # {} THEN Min(I) ELSE 0
    BY Zenon DEF SingleOf, SelectInSeq
  <1>3. I \subseteq 1 .. n
    OBVIOUS
  <1>4. \A i \in I : i \in DOMAIN Schema /\ Takes(Schema[i], tag)
    BY <1>1
  <1> HIDE DEF I, n
  <1>5. QED
    BY <1>1, <1>2, <1>3, <1>4, PlaceFound

(* A part of a sequence is a sequence of the same. *)
LEMMA WithinIsSeq ==
  ASSUME NEW T, NEW s \in Seq(T), NEW S
  PROVE  Within(s, S) \in Seq(T)
  <1> DEFINE n == Len(s)
             f == [i \in DOMAIN s |-> IF s[i] \in S THEN <<s[i]>> ELSE <<>>]
  <1>1. n \in Nat /\ DOMAIN s = 1 .. n /\ \A i \in 1 .. n : s[i] \in T
    BY LenProperties, ElementOfSeq
  <1>2. \A i \in 1 .. n : f[i] \in Seq(T)
    <2>1. \A i \in 1 .. n : <<s[i]>> \in Seq(T)
      BY <1>1
    <2>2. <<>> \in Seq(T)
      BY EmptySeq
    <2>3. QED
      BY <1>1, <2>1, <2>2
  <1>3. f \in [1 .. n -> Seq(T)]
    BY <1>1, <1>2
  <1>4. Within(s, S) = FlattenSeq(f)
    BY DEF Within
  <1> HIDE DEF f, n
  <1>5. f \in Seq(Seq(T))
    BY <1>1, <1>3, IsSeq
  <1>6. QED
    BY <1>4, <1>5, FlatType

(* Pieces made one for each place, one after another. *)
LEMMA FlatOfPieces ==
  ASSUME NEW T, NEW s, NEW n \in Nat, DOMAIN s = 1 .. n,
         \A i \in 1 .. n : s[i] \in Seq(T), s = [i \in DOMAIN s |-> s[i]]
  PROVE  FlattenSeq(s) \in Seq(T)
  <1>1. s \in [1 .. n -> Seq(T)]
    OBVIOUS
  <1>2. s \in Seq(Seq(T))
    BY <1>1, IsSeq
  <1>3. QED
    BY <1>2, FlatType

(* What a complete rule puts for the tags it took. *)
LEMMA ReplacedIsPairs ==
  ASSUME NEW tags \in Seq(Pairs), NEW k \in DOMAIN Rules, IsComplete(tags, k)
  PROVE  Replaced(tags, k) \in Seq(Pairs)
  <1> DEFINE r == Rules[k]
             to == r.to
             new(kv) == IF kv[2] = Copied THEN <<kv[1], Captured(tags, k)[1][2]>> ELSE kv
             f == [j \in DOMAIN to |-> new(to[j])]
             R == [from : Seq(Pairs), copy : Seq(Tags), to : Seq(Tags \X (Values \cup {Copied}))]
  <1>1. r \in R /\ r \in ToSet(Rules)
    <2>1. Rules \in Seq(R)
      BY SchemaConstants DEF Pairs
    <2> HIDE DEF R
    <2>2. r \in R
      BY <2>1, LenProperties, ElementOfSeq
    <2>3. QED
      BY <2>2 DEF ToSet
  <1>2. to \in Seq(Tags \X (Values \cup {Copied}))
    BY <1>1
  <1>3. (\E kv \in ToSet(to) : kv[2] = Copied) => Len(r.copy) = 1
    BY <1>1, SchemaConstants
  <1>4. Captured(tags, k) \in Seq(Pairs) /\ Len(Captured(tags, k)) = Len(r.copy)
    <2>1. Captured(tags, k) \in Seq(Pairs)
      BY WithinIsSeq DEF Captured
    <2>2. QED
      BY <2>1 DEF IsComplete
  <1> HIDE DEF r
  <1> DEFINE n == Len(to)
  <1>5. n \in Nat /\ DOMAIN to = 1 .. n
    BY <1>2, LenProperties
  <1>6. ASSUME NEW j \in 1 .. n PROVE f[j] \in Pairs
    <2> DEFINE kv == to[j]
    <2>1. kv \in Tags \X (Values \cup {Copied}) /\ kv \in ToSet(to) /\ f[j] = new(kv)
      <3>1. to[j] \in Tags \X (Values \cup {Copied})
        BY <1>2, ElementOfSeq
      <3>2. to[j] \in ToSet(to)
        BY <1>5 DEF ToSet
      <3>3. QED
        BY <1>5, <3>1, <3>2
    <2> HIDE DEF kv, f, to
    <2>2. CASE kv[2] = Copied
      <3>1. Len(r.copy) = 1
        BY <1>3, <2>1, <2>2
      <3>2. Captured(tags, k)[1] \in Pairs
        <4> DEFINE c == Captured(tags, k)
        <4>1. c \in Seq(Pairs) /\ Len(c) = 1
          BY <1>4, <3>1
        <4> HIDE DEF c
        <4>2. c[1] \in Pairs
          BY <4>1, ElementOfSeq
        <4>3. QED
          BY <4>2 DEF c
      <3>3. Captured(tags, k)[1][2] \in Values
        BY <3>2 DEF Pairs
      <3>4. QED
        BY <2>1, <2>2, <3>3 DEF Pairs
    <2>3. CASE kv[2] # Copied
      <3>1. f[j] = kv /\ kv \in Tags \X Values
        BY <2>1, <2>3
      <3>2. QED
        BY <3>1 DEF Pairs
    <2>4. QED
      BY <2>2, <2>3
  <1>7. f \in [1 .. n -> Pairs]
    BY <1>5, <1>6
  <1>8. Replaced(tags, k) = f
    BY DEF Replaced, r
  <1> HIDE DEF f, to, n
  <1>9. QED
    BY <1>5, <1>7, <1>8, IsSeq

LEMMA DeprecationsGivePairs ==
  ASSUME NEW tags \in Seq(Pairs)
  PROVE  ApplyDeprecations(tags) \in Seq(Pairs)
  <1> DEFINE given == [i \in DOMAIN tags |-> Given(tags, i)]
             left == [k \in DOMAIN Rules |-> LeftOver(tags, k)]
  <1>1. /\ Len(tags) \in Nat /\ DOMAIN tags = 1 .. Len(tags)
        /\ \A i \in 1 .. Len(tags) : tags[i] \in Pairs
    BY LenProperties, ElementOfSeq
  <1>2. Len(Rules) \in Nat /\ DOMAIN Rules = 1 .. Len(Rules)
    BY SchemaConstants, LenProperties
  <1>3. <<>> \in Seq(Pairs)
    BY EmptySeq
  <1>4. ASSUME NEW i \in 1 .. Len(tags) PROVE Given(tags, i) \in Seq(Pairs)
    <2> DEFINE k == RuleOf(tags[i])
               held == UpTo(tags, i)
    <2>1. held \in Seq(Pairs)
      <3>1. Lower(i, Len(tags)) = i
        <4> DEFINE l == Len(tags)
        <4>1. l \in Nat /\ i \in 1 .. l
          BY <1>1
        <4> HIDE DEF l
        <4>2. QED
          BY <4>1 DEF Lower, l
      <3>2. SubSeq(tags, 1, i) \in Seq(Pairs)
        BY <1>1
      <3>3. QED
        BY <3>1, <3>2 DEF UpTo
    <2>2. k = 0 \/ k \in DOMAIN Rules
      BY RuleOfIsPlace
    <2>3. <<tags[i]>> \in Seq(Pairs)
      BY <1>1
    <2>4. Given(tags, i) = IF k = 0 THEN <<tags[i]>>
                           ELSE IF IsComplete(held, k) THEN Replaced(held, k) ELSE <<>>
      BY DEF Given
    <2> HIDE DEF k, held
    <2>5. QED
      BY <1>3, <2>1, <2>2, <2>3, <2>4, ReplacedIsPairs
  <1>5. ASSUME NEW k \in 1 .. Len(Rules) PROVE LeftOver(tags, k) \in Seq(Pairs)
    <2>1. Captured(tags, k) \in Seq(Pairs) /\ Matched(tags, k) \in Seq(Pairs)
      BY WithinIsSeq DEF Captured, Matched
    <2>2. /\ <<>> \o Matched(tags, k) \in Seq(Pairs)
          /\ Captured(tags, k) \o Matched(tags, k) \in Seq(Pairs)
      BY <1>3, <2>1, ConcatProperties
    <2>3. QED
      BY <1>3, <2>2 DEF LeftOver
  <1>6. FlattenSeq(given) \in Seq(Pairs)
    <2>1. DOMAIN given = 1 .. Len(tags) /\ \A i \in 1 .. Len(tags) : given[i] \in Seq(Pairs)
      BY <1>1, <1>4
    <2>2. given = [i \in DOMAIN given |-> given[i]]
      OBVIOUS
    <2> HIDE DEF given
    <2>3. QED
      BY <1>1, <2>1, <2>2, FlatOfPieces
  <1>7. FlattenSeq(left) \in Seq(Pairs)
    <2>1. DOMAIN left = 1 .. Len(Rules) /\ \A k \in 1 .. Len(Rules) : left[k] \in Seq(Pairs)
      BY <1>2, <1>5
    <2>2. left = [k \in DOMAIN left |-> left[k]]
      OBVIOUS
    <2> HIDE DEF left
    <2>3. QED
      BY <1>2, <2>1, <2>2, FlatOfPieces
  <1>8. ApplyDeprecations(tags) = FlattenSeq(given) \o FlattenSeq(left)
    BY DEF ApplyDeprecations
  <1> HIDE DEF given, left
  <1>9. QED
    BY <1>6, <1>7, <1>8, ConcatProperties

LEMMA SingleFieldIsField ==
  ASSUME NEW tag \in Pairs
  PROVE  SingleField(tag) \in Seq(AllFields)
  <1> DEFINE i == SingleOf(tag)
             s == Schema[i]
             place == SelectInSeq(s.options, LAMBDA o : o = tag[2])
             v == CASE s.kind = "text" -> Characters(tag[2])
                    [] s.kind = "checkbox" -> <<IF tag[2] = Text(Yes) THEN 1 ELSE 0>>
                    [] s.kind = "combo" -> <<place - 1>>
  <1>1. SingleField(tag) = IF i = 0 THEN <<>> ELSE <<Known(i, v)>>
    BY DEF SingleField
  <1>2. <<>> \in Seq(AllFields)
    BY EmptySeq
  <1>3. CASE i = 0
    BY <1>1, <1>2, <1>3
  <1>4. CASE i # 0
    <2>1. i \in DOMAIN Schema /\ Takes(s, tag)
      BY <1>4, SingleOfIsPlace
    <2>2. s.options \in Seq(Values) /\ s.kind \in {"text", "checkbox", "combo"}
      BY <2>1, SchemaFacts DEF Takes, SingleKinds
    <2>3. tag[2] \in Values
      BY DEF Pairs
    <2>4. place \in Int
      <3> DEFINE n == Len(s.options)
                 I == {j \in 1 .. n : s.options[j] = tag[2]}
      <3>1. n \in Nat /\ I \subseteq 1 .. n
        BY <2>2, LenProperties
      <3>2. place = IF I # {} THEN Min(I) ELSE 0
        BY Zenon DEF SelectInSeq
      <3> HIDE DEF I, n, place
      <3>3. place \in 0 .. n
        BY <3>1, <3>2, PlaceFound
      <3>4. QED
        BY <3>1, <3>3
    <2> HIDE DEF place
    <2>5. /\ v \in Seq(Int)
          /\ s.kind = "text" => v \in File /\ Len(v) <= MaxTagBytes
          /\ s.kind = "combo" => v[1] \in Int
      <3>1. CASE s.kind = "text"
        <4>1. v = Characters(tag[2])
          BY <3>1
        <4> HIDE DEF v
        <4>2. v \in File /\ Len(v) <= MaxTagBytes
          BY <2>3, <4>1, CharactersAreBytes
        <4>3. v \in Seq(Int)
          <5>1. Len(v) \in Nat /\ v \in [1 .. Len(v) -> Byte]
            BY <4>2 DEF File
          <5>2. \A x \in Byte : x \in Int
            BY DEF Byte
          <5>3. v \in [1 .. Len(v) -> Int]
            BY <5>1, <5>2
          <5>4. QED
            BY <5>1, <5>3, IsSeq
        <4>4. QED
          BY <3>1, <4>2, <4>3
      <3>2. CASE s.kind = "checkbox"
        <4>1. v = <<IF tag[2] = Text(Yes) THEN 1 ELSE 0>>
          BY <3>2
        <4> HIDE DEF v
        <4>2. v \in Seq(Int)
          BY <4>1
        <4>3. QED
          BY <3>2, <4>2
      <3>3. CASE s.kind = "combo"
        <4>1. v = <<place - 1>>
          BY <3>3
        <4> HIDE DEF v
        <4>2. v \in Seq(Int) /\ v[1] \in Int
          BY <2>4, <4>1
        <4>3. QED
          BY <3>3, <4>2
      <3> HIDE DEF v, s
      <3>4. QED
        BY <2>2, <3>1, <3>2, <3>3
    <2> DEFINE f == Known(i, v)
    <2>6. f \in AllFields
      <3>1. f = [t |-> "Field", field |-> i, v |-> v]
        BY DEF Known
      <3> HIDE DEF v, i
      <3>2. QED
        BY <2>1, <2>5, <3>1 DEF AllFields, KnownFields
    <2>7. SingleField(tag) = <<f>>
      BY <1>1, <1>4
    <2> HIDE DEF f
    <2>8. QED
      BY <2>6, <2>7
  <1>5. QED
    BY <1>3, <1>4

LEMMA ManyFieldIsField ==
  ASSUME NEW tags, NEW i \in DOMAIN Schema
  PROVE  ManyField(tags, i) \in Seq(AllFields)
  <1> DEFINE kind == Schema[i].kind
  <1>1. ASSUME NEW v \in Seq(Int), kind \in ManyKinds PROVE <<Known(i, v)>> \in Seq(AllFields)
    <2> DEFINE f == Known(i, v)
    <2>1. f = [t |-> "Field", field |-> i, v |-> v]
      BY DEF Known
    <2>2. kind # "text" /\ kind # "combo"
      BY <1>1 DEF ManyKinds
    <2> HIDE DEF f
    <2>3. f \in KnownFields
      BY <2>1, <2>2 DEF KnownFields
    <2>4. QED
      BY <2>3 DEF AllFields, f
  <1>2. Flags(tags, i) \in Seq(Int)
    <2> DEFINE keys == Schema[i].keys
    <2>1. keys \in Seq(Tags)
      BY SchemaFacts
    <2>2. Len(keys) \in Nat /\ DOMAIN keys = 1 .. Len(keys)
      BY <2>1, LenProperties
    <2>3. \A j \in DOMAIN keys : Flags(tags, i)[j] \in Int
      BY DEF Flags
    <2>4. Flags(tags, i) = [j \in DOMAIN keys |-> Flags(tags, i)[j]]
      BY DEF Flags
    <2> HIDE DEF keys
    <2>5. Flags(tags, i) \in [1 .. Len(keys) -> Int]
      BY <2>2, <2>3, <2>4
    <2>6. QED
      BY <2>2, <2>5, IsSeq
  <1>3. <<>> \in Seq(Int) /\ <<>> \in Seq(AllFields)
    BY EmptySeq
  <1>4. CASE kind = "multi yes combo"
    BY <1>1, <1>2, <1>4 DEF ManyField, ManyKinds
  <1>5. CASE kind = "localized string"
    BY <1>1, <1>3, <1>5 DEF ManyField, ManyKinds
  <1>6. CASE kind \notin ManyKinds
    BY <1>3, <1>6 DEF ManyField, ManyKinds
  <1>7. QED
    BY <1>4, <1>5, <1>6 DEF ManyKinds

LEMMA CollectedIsFields ==
  ASSUME NEW tags \in Seq(Pairs)
  PROVE  Collected(tags) \in Seq(AllFields)
  <1> DEFINE rest(k) == Within(tags, {tag \in ToSet(tags) :
                          tag[1] = k /\ SingleOf(tag) = 0 /\ FlagsOf(tag) = 0})
             last(k) == IF rest(k) = <<>> THEN <<>> ELSE <<Other(k, Last(rest(k))[2])>>
             s == [i \in DOMAIN KeyOrder |-> last(KeyOrder[i])]
             n == Len(KeyOrder)
  <1>1. n \in Nat /\ DOMAIN KeyOrder = 1 .. n /\ \A i \in 1 .. n : KeyOrder[i] \in Tags
    <2>1. KeyOrder \in Seq(Tags)
      BY SchemaConstants
    <2>2. QED
      BY <2>1, LenProperties, ElementOfSeq
  <1>2. Collected(tags) = FlattenSeq(s)
    BY DEF Collected
  <1>3. ASSUME NEW k \in Tags PROVE last(k) \in Seq(AllFields)
    <2> DEFINE r == rest(k)
    <2>1. r \in Seq(Pairs)
      BY WithinIsSeq
    <2> HIDE DEF r
    <2>2. CASE r = <<>>
      BY <2>2, EmptySeq DEF r
    <2>3. CASE r # <<>>
      <3>1. Len(r) \in 1 .. Len(r)
        BY <2>1, <2>3, EmptySeq
      <3>2. Last(r) \in Pairs
        BY <2>1, <3>1, ElementOfSeq DEF Last
      <3> DEFINE value == Last(r)[2]
                 f == Other(k, value)
      <3>3. value \in Tags
        BY <3>2 DEF Pairs, Values
      <3> HIDE DEF value
      <3>4. f \in AllFields
        BY <3>3 DEF Other, AllFields, OtherFields
      <3>5. last(k) = <<f>>
        BY <2>3 DEF r, value
      <3> HIDE DEF f, last
      <3>6. QED
        BY <3>4, <3>5
    <2>4. QED
      BY <2>2, <2>3
  <1> HIDE DEF last
  <1>4. DOMAIN s = 1 .. n /\ \A i \in 1 .. n : s[i] \in Seq(AllFields)
    BY <1>1, <1>3
  <1>5. s = [i \in DOMAIN s |-> s[i]]
    OBVIOUS
  <1> HIDE DEF s, n
  <1>6. QED
    BY <1>1, <1>2, <1>4, <1>5, FlatOfPieces

(* Whatever the tags, they become fields, each of which has its bytes.     *)
LEMMA ParsedAreFields ==
  ASSUME NEW stored \in Seq(Pairs)
  PROVE  ParseTags(stored) \in Seq(AllFields)
  <1> DEFINE tags == ApplyDeprecations(stored)
             single == [i \in DOMAIN tags |-> SingleField(tags[i])]
             many == [i \in DOMAIN Schema |-> ManyField(tags, i)]
             n == Len(tags)
             m == Len(Schema)
  <1>1. tags \in Seq(Pairs)
    BY DeprecationsGivePairs
  <1>2. ParseTags(stored) = FlattenSeq(single) \o FlattenSeq(many) \o Collected(tags)
    BY DEF ParseTags
  <1> HIDE DEF tags
  <1>3. n \in Nat /\ DOMAIN tags = 1 .. n /\ \A i \in 1 .. n : tags[i] \in Pairs
    BY <1>1, LenProperties, ElementOfSeq
  <1>4. FlattenSeq(single) \in Seq(AllFields)
    <2>1. DOMAIN single = 1 .. n /\ \A i \in 1 .. n : single[i] \in Seq(AllFields)
      BY <1>3, SingleFieldIsField
    <2>2. single = [i \in DOMAIN single |-> single[i]]
      OBVIOUS
    <2> HIDE DEF single, n
    <2>3. QED
      BY <1>3, <2>1, <2>2, FlatOfPieces
  <1>5. FlattenSeq(many) \in Seq(AllFields)
    <2>1. m \in Nat /\ DOMAIN Schema = 1 .. m
      BY SchemaIsSeq
    <2>2. DOMAIN many = 1 .. m /\ \A i \in 1 .. m : many[i] \in Seq(AllFields)
      BY <2>1, ManyFieldIsField
    <2>3. many = [i \in DOMAIN many |-> many[i]]
      OBVIOUS
    <2> HIDE DEF many, m
    <2>4. QED
      BY <2>1, <2>2, <2>3, FlatOfPieces
  <1> HIDE DEF single, many
  <1>6. Collected(tags) \in Seq(AllFields)
    BY <1>1, CollectedIsFields
  <1>7. FlattenSeq(single) \o FlattenSeq(many) \in Seq(AllFields)
    BY <1>4, <1>5, ConcatProperties
  <1>8. QED
    BY <1>2, <1>6, <1>7, ConcatProperties

LEMMA FieldsOfElement ==
  ASSUME NEW e \in Elements
  PROVE  FieldsOf(Data[e]) \in Seq(AllFields)
  <1>1. Data[e].tags \in Seq(Pairs)
    BY ElementConstants DEF Pairs
  <1>2. Stored(Data[e].tags) \in Seq(Pairs)
    BY <1>1, WithinIsSeq DEF Stored
  <1>3. QED
    BY <1>2, ParsedAreFields DEF FieldsOf

-----------------------------------------------------------------------------
(* What the elements put into the pools.                                   *)

(* InsertBlobs gives a good pool and an id for each blob. *)
InsertedBlobs == [pool : GoodPools, ids : Seq(Nat)]

LEMMA InsertBlobsIsGood ==
  ASSUME NEW p \in GoodPools, NEW blobs \in Seq(Blobs)
  PROVE  /\ InsertBlobs(p, blobs) \in InsertedBlobs
         /\ Len(InsertBlobs(p, blobs).ids) = Len(blobs)
  <1> DEFINE n == Len(blobs)
             Z == InsertedBlobs
             z == [pool |-> p, ids |-> <<>>]
             with(acc, new) == [pool |-> new.pool, ids |-> Append(acc.ids, new.id)]
             on(acc, i) == with(acc, InsertBlob(acc.pool, blobs[i]))
             G == [i \in 1 .. n |-> [acc \in Z |-> on(acc, i)]]
             Body(i, h) == IF i = 0 THEN z ELSE on(h[i - 1], i)
             at == CHOOSE h : h = [i \in 0 .. n |-> Body(i, h)]
  <1>1. n \in Nat /\ \A i \in 1 .. n : blobs[i] \in Blobs
    BY LenProperties, ElementOfSeq
  <1>2. InsertBlobs(p, blobs) = at[n]
    BY DEF InsertBlobs
  <1> HIDE DEF at, n
  <1>3. ASSUME NEW acc \in Z, NEW i \in 1 .. n
        PROVE  on(acc, i) \in Z /\ Len(on(acc, i).ids) = Len(acc.ids) + 1
    <2>1. acc.pool \in GoodPools /\ acc.ids \in Seq(Nat)
      BY DEF InsertedBlobs
    <2> DEFINE new == InsertBlob(acc.pool, blobs[i])
    <2>2. blobs[i] \in Blobs
      BY <1>1
    <2>3. new \in [pool : GoodPools, id : Nat]
      BY <2>1, <2>2, InsertBlobIsGood
    <2> HIDE DEF new
    <2>4. new.pool \in GoodPools /\ new.id \in Nat
      BY <2>3
    <2>5. Append(acc.ids, new.id) \in Seq(Nat) /\ Len(Append(acc.ids, new.id)) = Len(acc.ids) + 1
      BY <2>1, <2>4, AppendProperties
    <2>6. on(acc, i) = [pool |-> new.pool, ids |-> Append(acc.ids, new.id)]
      BY DEF new
    <2> HIDE DEF on
    <2>7. QED
      BY <2>4, <2>5, <2>6 DEF InsertedBlobs
  <1> HIDE DEF on
  <1>4. Stepwise(n, Z, G)
    BY <1>3 DEF Stepwise
  <1>5. z \in Z
    BY EmptySeq DEF InsertedBlobs
  <1> HIDE DEF z, Z
  <1>6. PICK f \in [0 .. n -> Z] : f[0] = z /\ \A i \in 1 .. n : f[i] = G[i][f[i - 1]]
    <2>1. n \in Nat
      BY <1>1
    <2> HIDE DEF G
    <2>2. PICK f : IsRun(f, n, Z, z, G)
      BY <1>4, <1>5, <2>1, UpwardRecursion
    <2>3. QED
      BY <2>2 DEF IsRun
  <1>7. f = [i \in 0 .. n |-> Body(i, f)]
    <2>1. ASSUME NEW i \in 0 .. n PROVE f[i] = Body(i, f)
      <3>1. CASE i = 0
        BY <1>6, <3>1
      <3>2. CASE i # 0
        <4>1. i \in 1 .. n /\ i - 1 \in 0 .. n
          BY <1>1, <3>2
        <4>2. f[i - 1] \in Z /\ f[i] = G[i][f[i - 1]]
          BY <1>6, <4>1
        <4>3. f[i] = on(f[i - 1], i)
          BY <4>1, <4>2
        <4>4. QED
          BY <3>2, <4>3
      <3>3. QED
        BY <3>1, <3>2
    <2> HIDE DEF Body
    <2>2. QED
      BY <2>1
  <1>8. at = [i \in 0 .. n |-> Body(i, at)]
    <2> HIDE DEF Body
    <2>1. QED
      BY <1>7 DEF at
  <1>9. at[0] = z /\ \A i \in 1 .. n : at[i] = on(at[i - 1], i)
    <2>1. \A i \in 0 .. n : at[i] = Body(i, at)
      <3> HIDE DEF Body
      <3>1. QED
        BY <1>8
    <2>2. 0 \in 0 .. n /\ \A i \in 1 .. n : i \in 0 .. n /\ i # 0
      BY <1>1
    <2>3. QED
      BY <2>1, <2>2
  <1> HIDE DEF Body
  <1>10. \A i \in 0 .. n : at[i] \in Z
    <2>1. \A i \in 1 .. n : at[i - 1] \in Z => at[i] = G[i][at[i - 1]]
      BY <1>9
    <2>2. n \in Nat /\ at[0] = z
      BY <1>1, <1>9
    <2> HIDE DEF G
    <2>3. Follows(at, n, Z, z, G)
      BY <2>1, <2>2 DEF Follows
    <2>4. QED
      BY <1>4, <1>5, <2>2, <2>3, Determined
  <1> DEFINE T == {i \in 0 .. n : Len(at[i].ids) = i}
  <1>11. ASSUME NEW i \in 0 .. n - 1, i \in T PROVE i + 1 \in T
    <2> DEFINE j == i + 1
    <2>1. j \in 1 .. n /\ j \in 0 .. n /\ j - 1 = i /\ i \in 0 .. n
      BY <1>1
    <2>2. Len(at[i].ids) = i
      BY <1>11
    <2> HIDE DEF j
    <2>3. at[j] = on(at[i], j) /\ at[i] \in Z
      BY <1>9, <1>10, <2>1
    <2>4. Len(at[j].ids) = Len(at[i].ids) + 1
      BY <1>3, <2>1, <2>3
    <2>5. Len(at[j].ids) = j
      BY <2>1, <2>2, <2>4 DEF j
    <2>6. QED
      BY <2>1, <2>5 DEF j
  <1>12. 0 \in T
    BY <1>1, <1>9, EmptySeq DEF z
  <1>13. n \in T
    <2>1. \A i \in 0 .. n - 1 : i \in T => i + 1 \in T
      BY <1>11
    <2> HIDE DEF T
    <2>2. \A i \in 0 .. n : i \in T
      BY <1>1, <1>12, <2>1, Upwards
    <2>3. QED
      BY <1>1, <2>2
  <1>14. QED
    BY <1>1, <1>2, <1>10, <1>13 DEF n, Z

(* The blob of a field that is not known: the ids of two literals. *)
LEMMA OtherFieldIsGood ==
  ASSUME NEW both, both.pool \in GoodPools, both.ids \in Seq(Nat), Len(both.ids) = 2
  PROVE  OtherField(both) \in [pool : GoodPools, blob : Blobs]
  <1>1. both.ids[1] \in Nat /\ both.ids[2] \in Nat
    BY ElementOfSeq
  <1> DEFINE v1 == Varint(both.ids[1])
             v2 == Varint(both.ids[2])
  <1>2. OtherField(both) = [pool |-> both.pool, blob |-> <<0>> \o v1 \o v2]
    BY DEF OtherField
  <1>3. v1 \in File /\ Len(v1) <= 5 /\ v2 \in File /\ Len(v2) <= 5
    <2> DEFINE a == both.ids[1]
               b == both.ids[2]
    <2>1. a \in Int /\ b \in Int
      BY <1>1
    <2> HIDE DEF a, b
    <2>2. /\ Varint(a) \in File /\ Len(Varint(a)) <= 5
          /\ Varint(b) \in File /\ Len(Varint(b)) <= 5
      BY <2>1, VarintIsShort
    <2>3. QED
      BY <2>2 DEF a, b
  <1> HIDE DEF v1, v2
  <1>4. <<0>> \o v1 \o v2 \in Blobs
    <2> DEFINE h == <<0>>
    <2>1. h \in File /\ Len(h) = 1
      BY OneByte DEF Byte
    <2> HIDE DEF h
    <2>2. h \o v1 \in File /\ Len(h \o v1) = 1 + Len(v1)
      BY <1>3, <2>1, FileConcat
    <2>3. (h \o v1) \o v2 \in File /\ Len((h \o v1) \o v2) = 1 + Len(v1) + Len(v2)
      BY <1>3, <2>2, FileConcat
    <2>4. Len(v1) \in Nat /\ Len(v2) \in Nat
      BY <1>3, FileFacts
    <2>5. Len((h \o v1) \o v2) <= 11
      BY <1>3, <2>3, <2>4
    <2>6. QED
      BY <2>3, <2>5 DEF Blobs, MaxBlob, h
  <1>5. QED
    BY <1>2, <1>4

(* The blob of a field. *)
LEMMA FieldBlobIsGood ==
  ASSUME NEW pool \in GoodPools, NEW f \in AllFields
  PROVE  FieldBlob(pool, f) \in [pool : GoodPools, blob : Blobs]
  <1> DEFINE key == LiteralBytes(LiteralOf(f.key))
             value == LiteralBytes(LiteralOf(f.value))
             both == InsertBlobs(pool, <<key, value>>)
  <1>1. CASE f \in KnownFields
    <2>1. FieldBlob(pool, f) = [pool |-> pool, blob |-> KnownField(f)]
      BY <1>1 DEF FieldBlob, IsKnown, KnownFields
    <2>2. KnownField(f) \in Blobs
      BY <1>1, KnownFieldIsShort
    <2>3. QED
      BY <2>1, <2>2
  <1>2. CASE f \in OtherFields
    <2>1. key \in Blobs /\ value \in Blobs
      <3>1. f.key \in Tags /\ f.value \in Tags
        BY <1>2 DEF OtherFields
      <3>2. LiteralOf(f.key) \in Literals /\ LiteralOf(f.value) \in Literals
        BY <3>1, LiteralOfTag
      <3>3. QED
        BY <3>2, LiteralIsShort
    <2>2. FieldBlob(pool, f) = OtherField(both)
      BY <1>2 DEF FieldBlob, IsKnown, OtherFields
    <2> HIDE DEF key, value
    <2>3. <<key, value>> \in Seq(Blobs) /\ Len(<<key, value>>) = 2
      BY <2>1
    <2> DEFINE blobs == <<key, value>>
    <2> HIDE DEF blobs
    <2>4. InsertBlobs(pool, blobs) \in InsertedBlobs /\ Len(InsertBlobs(pool, blobs).ids) = 2
      BY <2>3, InsertBlobsIsGood DEF blobs
    <2>5. both.pool \in GoodPools /\ both.ids \in Seq(Nat) /\ Len(both.ids) = 2
      <3> HIDE DEF both
      <3>1. QED
        BY <2>4 DEF both, blobs, InsertedBlobs
    <2> HIDE DEF both
    <2>6. OtherField(both) \in [pool : GoodPools, blob : Blobs]
      BY <2>5, OtherFieldIsGood
    <2>7. QED
      BY <2>2, <2>6
  <1>3. QED
    BY <1>1, <1>2 DEF AllFields

(* The bytes of fields. *)
MadeFields == [pool : GoodPools, blobs : Seq(Blobs)]

LEMMA FieldBlobsAreGood ==
  ASSUME NEW fields \in Seq(AllFields), values \in GoodPools
  PROVE  FieldBlobs(fields) \in MadeFields /\ Len(FieldBlobs(fields).blobs) = Len(fields)
  <1> DEFINE n == Len(fields)
             Z == MadeFields
             z == [pool |-> values, blobs |-> <<>>]
             with(acc, new) == [pool |-> new.pool, blobs |-> Append(acc.blobs, new.blob)]
             on(acc, i) == with(acc, FieldBlob(acc.pool, fields[i]))
             G == [i \in 1 .. n |-> [acc \in Z |-> on(acc, i)]]
             Body(i, h) == IF i = 0 THEN z ELSE on(h[i - 1], i)
             at == CHOOSE h : h = [i \in 0 .. n |-> Body(i, h)]
  <1>1. n \in Nat /\ \A i \in 1 .. n : fields[i] \in AllFields
    BY LenProperties, ElementOfSeq
  <1>2. FieldBlobs(fields) = at[n]
    BY DEF FieldBlobs
  <1> HIDE DEF at, n
  <1>3. ASSUME NEW acc \in Z, NEW i \in 1 .. n
        PROVE  on(acc, i) \in Z /\ Len(on(acc, i).blobs) = Len(acc.blobs) + 1
    <2>1. acc.pool \in GoodPools /\ acc.blobs \in Seq(Blobs)
      BY DEF MadeFields
    <2> DEFINE new == FieldBlob(acc.pool, fields[i])
    <2>2. fields[i] \in AllFields
      BY <1>1
    <2>3. new \in [pool : GoodPools, blob : Blobs]
      BY <2>1, <2>2, FieldBlobIsGood
    <2> HIDE DEF new
    <2>4. new.pool \in GoodPools /\ new.blob \in Blobs
      BY <2>3
    <2>5. /\ Append(acc.blobs, new.blob) \in Seq(Blobs)
          /\ Len(Append(acc.blobs, new.blob)) = Len(acc.blobs) + 1
      BY <2>1, <2>4, AppendProperties
    <2>6. on(acc, i) = [pool |-> new.pool, blobs |-> Append(acc.blobs, new.blob)]
      BY DEF new
    <2> HIDE DEF on
    <2>7. QED
      BY <2>4, <2>5, <2>6 DEF MadeFields
  <1> HIDE DEF on
  <1>4. Stepwise(n, Z, G)
    BY <1>3 DEF Stepwise
  <1>5. z \in Z /\ Len(z.blobs) = 0
    BY EmptySeq DEF MadeFields
  <1> HIDE DEF z, Z
  <1>6. PICK f \in [0 .. n -> Z] : f[0] = z /\ \A i \in 1 .. n : f[i] = G[i][f[i - 1]]
    <2>1. n \in Nat
      BY <1>1
    <2> HIDE DEF G
    <2>2. PICK f : IsRun(f, n, Z, z, G)
      BY <1>4, <1>5, <2>1, UpwardRecursion
    <2>3. QED
      BY <2>2 DEF IsRun
  <1>7. f = [i \in 0 .. n |-> Body(i, f)]
    <2>1. ASSUME NEW i \in 0 .. n PROVE f[i] = Body(i, f)
      <3>1. CASE i = 0
        BY <1>6, <3>1
      <3>2. CASE i # 0
        <4>1. i \in 1 .. n /\ i - 1 \in 0 .. n
          BY <1>1, <3>2
        <4>2. f[i - 1] \in Z /\ f[i] = G[i][f[i - 1]]
          BY <1>6, <4>1
        <4>3. f[i] = on(f[i - 1], i)
          BY <4>1, <4>2
        <4>4. QED
          BY <3>2, <4>3
      <3>3. QED
        BY <3>1, <3>2
    <2> HIDE DEF Body
    <2>2. QED
      BY <2>1
  <1>8. at = [i \in 0 .. n |-> Body(i, at)]
    <2> HIDE DEF Body
    <2>1. QED
      BY <1>7 DEF at
  <1>9. at[0] = z /\ \A i \in 1 .. n : at[i] = on(at[i - 1], i)
    <2>1. \A i \in 0 .. n : at[i] = Body(i, at)
      <3> HIDE DEF Body
      <3>1. QED
        BY <1>8
    <2>2. 0 \in 0 .. n /\ \A i \in 1 .. n : i \in 0 .. n /\ i # 0
      BY <1>1
    <2>3. QED
      BY <2>1, <2>2
  <1> HIDE DEF Body
  <1>10. \A i \in 0 .. n : at[i] \in Z
    <2>1. \A i \in 1 .. n : at[i - 1] \in Z => at[i] = G[i][at[i - 1]]
      BY <1>9
    <2>2. n \in Nat /\ at[0] = z
      BY <1>1, <1>9
    <2> HIDE DEF G
    <2>3. Follows(at, n, Z, z, G)
      BY <2>1, <2>2 DEF Follows
    <2>4. QED
      BY <1>4, <1>5, <2>2, <2>3, Determined
  <1> DEFINE T == {i \in 0 .. n : Len(at[i].blobs) = i}
  <1>11. 0 \in T /\ \A i \in 0 .. n - 1 : i \in T => i + 1 \in T
    <2>1. ASSUME NEW i \in 0 .. n - 1, Len(at[i].blobs) = i
          PROVE  Len(at[i + 1].blobs) = i + 1 /\ i + 1 \in 0 .. n
      <3> DEFINE j == i + 1
      <3>1. j \in 1 .. n /\ j \in 0 .. n /\ j - 1 = i /\ i \in 0 .. n
        BY <1>1
      <3> HIDE DEF j
      <3>2. at[j] = on(at[i], j) /\ at[i] \in Z
        BY <1>9, <1>10, <3>1
      <3>3. Len(on(at[i], j).blobs) = i + 1
        BY <1>3, <2>1, <3>1, <3>2
      <3>4. QED
        BY <3>1, <3>2, <3>3 DEF j
    <2>2. Len(at[0].blobs) = 0 /\ 0 \in 0 .. n
      BY <1>1, <1>5, <1>9
    <2>3. QED
      BY <2>1, <2>2
  <1> HIDE DEF T
  <1>12. n \in T /\ n \in 0 .. n
    <2>1. \A i \in 0 .. n : i \in T
      BY <1>1, <1>11, Upwards
    <2>2. QED
      BY <1>1, <2>1
  <1>13. Len(at[n].blobs) = n
    BY <1>12 DEF T
  <1>14. QED
    BY <1>2, <1>10, <1>12, <1>13 DEF Z, n

LEMMA FieldIdsAreGood ==
  ASSUME NEW fields \in Seq(AllFields), values \in GoodPools, literals \in GoodPools
  PROVE  /\ FieldIds(fields).literals \in GoodPools /\ FieldIds(fields).values \in GoodPools
         /\ FieldIds(fields).ids \in Seq(Nat) /\ Len(FieldIds(fields).ids) = Len(fields)
  <1> DEFINE made == FieldBlobs(fields)
             ids == InsertBlobs(literals, made.blobs)
  <1>1. FieldIds(fields) = [ids |-> ids.ids, literals |-> ids.pool, values |-> made.pool]
    BY DEF FieldIds
  <1>2. /\ made.pool \in GoodPools /\ made.blobs \in Seq(Blobs)
        /\ Len(made.blobs) = Len(fields)
    <2>1. made \in MadeFields /\ Len(made.blobs) = Len(fields)
      BY FieldBlobsAreGood
    <2> HIDE DEF made
    <2>2. QED
      BY <2>1 DEF MadeFields
  <1> HIDE DEF made
  <1>3. ids \in InsertedBlobs /\ Len(ids.ids) = Len(fields)
    BY <1>2, InsertBlobsIsGood
  <1> HIDE DEF ids
  <1>4. QED
    BY <1>1, <1>2, <1>3 DEF InsertedBlobs

(* Whatever the element, the pools are good after its bytes are made. *)
LEMMA BlobIsGood ==
  ASSUME NEW e \in Elements, NEW box, values \in GoodPools, literals \in GoodPools
  PROVE  Blob(Data[e], box).literals \in GoodPools /\ Blob(Data[e], box).values \in GoodPools
  <1> DEFINE d == Data[e]
             fields == FieldsOf(d)
  <1>1. d.kind \in {"node", "way", "relation"}
    BY ElementConstants
  <1>2. fields \in Seq(AllFields)
    BY FieldsOfElement
  <1>3. /\ FieldIds(fields).literals \in GoodPools /\ FieldIds(fields).values \in GoodPools
        /\ FieldBlobs(fields).pool \in GoodPools
    <2> HIDE DEF fields
    <2>1. FieldBlobs(fields) \in MadeFields
      BY <1>2, FieldBlobsAreGood
    <2>2. QED
      BY <1>2, <2>1, FieldIdsAreGood DEF MadeFields
  <1>4. CASE d.kind = "node"
    <2>1. Blob(d, box) = NodeBlob(d)
      BY <1>4 DEF Blob
    <2>2. /\ NodeBlob(d).literals \in {literals, FieldIds(fields).literals}
          /\ NodeBlob(d).values \in {values, FieldIds(fields).values}
      BY DEF NodeBlob, fields
    <2> HIDE DEF fields
    <2>3. QED
      BY <1>3, <2>1, <2>2 DEF d
  <1>5. CASE d.kind = "way"
    <2>1. Blob(d, box) = WayBlob(d, box)
      BY <1>5 DEF Blob
    <2>2. WayBlob(d, box).literals = literals /\ WayBlob(d, box).values = FieldBlobs(fields).pool
      BY DEF WayBlob, fields
    <2> HIDE DEF fields
    <2>3. QED
      BY <1>3, <2>1, <2>2 DEF d
  <1>6. CASE d.kind = "relation"
    <2>1. Blob(d, box) = RelationBlob(d)
      BY <1>6 DEF Blob
    <2>2. /\ RelationBlob(d).literals = FieldIds(fields).literals
          /\ RelationBlob(d).values = FieldIds(fields).values
      BY DEF RelationBlob, fields
    <2> HIDE DEF fields
    <2>3. QED
      BY <1>3, <2>1, <2>2 DEF d
  <1>7. QED
    BY <1>1, <1>4, <1>5, <1>6 DEF d

-----------------------------------------------------------------------------
(* The walk over the blocks.                                               *)

(* As long as nothing is read from the pools they are good.  A read moves  *)
(* the cursor, and the programs that read do not write.                    *)
PoolsGood == /\ reads \in Nat
             /\ reads = 0 => literals \in GoodPools /\ values \in GoodPools

LEMMA GoodPoolWalks ==
  ASSUME NEW p \in GoodPools
  PROVE  BlockAt(p, p.firstIndex \div BlockWrite) + HeaderSize + p.blockSize = p.cursor
  <1>1. p \in Pools
    BY DEF GoodPools
  <1>2. PICK k \in Nat : \E at : Holds(p, k, at)
    BY DEF GoodPools
  <1>3. PICK at : Holds(p, k, at)
    BY <1>2
  <1>4. p.firstIndex \div BlockWrite = k
    <2>1. p.firstIndex = k * BlockWrite
      BY <1>3 DEF Holds
    <2>2. (k * BlockWrite) \div BlockWrite = k
      BY BlockWriteFacts
    <2>3. QED
      BY <2>1, <2>2
  <1>5. PICK f : IsWalk(p.file, f, k) /\ BlockAt(p, k) = f[k]
    BY <1>1, PoolFacts, BlockAtWalks
  <1>6. IsWalk(p.file, at, k) /\ at[k] + HeaderSize + p.blockSize = p.cursor
    BY <1>3 DEF Holds
  <1>7. f[k] = at[k]
    BY <1>5, <1>6, WalkIsOne
  <1>8. QED
    BY <1>4, <1>5, <1>6, <1>7

LEMMA PoolsGoodAtFirst == Init => PoolsGood
  <1>1. <<>> \in File
    BY EmptySeq DEF File
  <1>2. NewPool(<<>>) \in GoodPools
    BY <1>1, NewPoolIsGood
  <1>3. QED
    BY <1>2 DEF Init, PoolsGood

LEMMA PoolsStayGood == PoolsGood /\ [Next]_vars => PoolsGood'
  <1>1. SUFFICES ASSUME PoolsGood, [Next]_vars PROVE PoolsGood'
    OBVIOUS
  <1>2. ASSUME NEW e \in Elements, WriteEmptyNode(e) PROVE PoolsGood'
    BY <1>1, <1>2 DEF WriteEmptyNode, Remember, PoolsGood
  <1>3. ASSUME NEW e \in Elements, Write(e) PROVE PoolsGood'
    <2>1. reads = 0 /\ reads' = reads
      BY <1>3 DEF Write, Remember
    <2>2. literals \in GoodPools /\ values \in GoodPools
      BY <1>1, <2>1 DEF PoolsGood
    <2>3. PICK box : /\ literals' = Blob(Data[e], box).literals
                     /\ values' = Blob(Data[e], box).values
      BY <1>3 DEF Write
    <2>4. QED
      BY <2>1, <2>2, <2>3, BlobIsGood DEF PoolsGood
  <1>4. ASSUME NEW e \in DOMAIN written, ReadTags(e) PROVE PoolsGood'
    <2>1. reads' = reads + 1
      BY <1>4 DEF ReadTags
    <2>2. QED
      BY <1>1, <2>1 DEF PoolsGood
  <1>5. ASSUME Rerun PROVE PoolsGood'
    <2>1. /\ reads = 0 /\ reads' = reads
          /\ literals' = NewPool(literals.file) /\ values' = NewPool(values.file)
      BY <1>5 DEF Rerun
    <2>2. literals \in Pools /\ values \in Pools
      BY <1>1, <2>1 DEF PoolsGood, GoodPools
    <2>3. literals.file \in File /\ values.file \in File
      BY <2>2, PoolFacts
    <2>4. NewPool(literals.file) \in GoodPools /\ NewPool(values.file) \in GoodPools
      BY <2>3, NewPoolIsGood
    <2>5. QED
      BY <2>1, <2>4 DEF PoolsGood
  <1>6. CASE UNCHANGED vars
    BY <1>1, <1>6 DEF vars, PoolsGood
  <1>7. QED
    BY <1>1, <1>2, <1>3, <1>4, <1>5, <1>6 DEF Next

(* BlocksWalk: whatever is written to the pools, for whatever elements,    *)
(* whatever the schema makes of their tags and whatever the size of a      *)
(* block in values, the sizes in the headers that post_insert has written  *)
(* lead from the first block to the one being filled.                      *)
THEOREM BlocksWalkCorrect == Spec => []BlocksWalk
  <1>1. Spec => []PoolsGood
    BY PoolsGoodAtFirst, PoolsStayGood, PTL DEF Spec
  <1>2. PoolsGood => BlocksWalk
    BY GoodPoolWalks DEF PoolsGood, BlocksWalk
  <1>3. QED
    BY <1>1, <1>2, PTL

-----------------------------------------------------------------------------
(* The bytes of a relation.                                                *)

(* One varint is passed over. *)
LEMMA OneSkipped ==
  ASSUME NEW n \in Nat, NEW tail \in File
  PROVE  SkipVarints(Varint(n) \o tail, 1) = tail
  <1> DEFINE ns == <<n>>
  <1>1. ns \in Seq(Nat) /\ Len(ns) = 1 /\ ns[1] = n /\ DOMAIN ns = 1 .. 1
    OBVIOUS
  <1>2. VarintsOf(ns) = Varint(n)
    <2> DEFINE ss == [i \in 1 .. 1 |-> Varint(ns[i])]
    <2>1. VarintsOf(ns) = FlattenSeq(ss)
      BY <1>1 DEF VarintsOf
    <2>2. Varint(n) \in File
      BY VarintBytes
    <2> HIDE DEF ns
    <2>3. ss \in [1 .. 1 -> File] /\ ss[1] = Varint(n)
      BY <1>1, <2>2
    <2> HIDE DEF ss
    <2>4. ss \in Seq(File) /\ Len(ss) = 1
      BY <2>3, IsSeq
    <2>5. PICK f : IsFlattening(f, ss, Byte)
      BY <2>4, FlattenSteps DEF File
    <2>6. f[0] = <<>> /\ f[1] = f[0] \o ss[1] /\ FlattenSeq(ss) = f[1]
      <3>1. 1 \in 1 .. Len(ss) /\ 1 - 1 = 0
        BY <2>4
      <3>2. QED
        BY <2>4, <2>5, <3>1 DEF IsFlattening
    <2>7. <<>> \o Varint(n) = Varint(n)
      BY <2>2, ConcatEmptySeq DEF File
    <2>8. QED
      BY <2>1, <2>3, <2>6, <2>7
  <1> HIDE DEF ns
  <1>3. Repeated(ReadVarint, VarintsOf(ns) \o tail, Len(ns))
          = <<[i \in 1 .. Len(ns) |-> ns[i] % WordEnd], tail>>
    BY <1>1, VarintsRead
  <1>4. QED
    BY <1>1, <1>2, <1>3 DEF SkipVarints

(* What is below the end of a word is left alone by it.                    *)
LEMMA WordFits ==
  ASSUME NEW n \in Nat, n < WordEnd
  PROVE  n % WordEnd = n
  BY SMT DEF WordEnd

(* Varints one after another are bytes.                                    *)
LEMMA VarintsAreBytes ==
  ASSUME NEW ns \in Seq(Int)
  PROVE  VarintsOf(ns) \in File
  <1> DEFINE ss == [i \in DOMAIN ns |-> Varint(ns[i])]
  <1>1. Len(ns) \in Nat /\ DOMAIN ns = 1 .. Len(ns) /\ \A i \in 1 .. Len(ns) : ns[i] \in Int
    BY LenProperties, ElementOfSeq
  <1>2. \A i \in 1 .. Len(ns) : Varint(ns[i]) \in File
    BY <1>1, VarintIsShort
  <1>3. ss \in [1 .. Len(ns) -> File]
    BY <1>1, <1>2
  <1>4. VarintsOf(ns) = FlattenSeq(ss)
    BY DEF VarintsOf
  <1> HIDE DEF ss
  <1>5. ss \in Seq(File)
    BY <1>1, <1>3, IsSeq
  <1>6. QED
    BY <1>4, <1>5, FlatType DEF File

(* The bytes of a relation: its id, the ids of its fields, the roles of    *)
(* its members, and its members.                                           *)
RolesOf(d) == FlattenSeq([i \in 1 .. Len(d.members) |-> StringBytes(d.roles[i], 0)])

IsRelationBlob(blob, d) ==
    \E ids \in Seq(Nat), members \in File :
       /\ Len(ids) < WordEnd
       /\ blob = <<0>> \o SignedVarint(d.id, WordBits)
                   \o Varint(Len(ids)) \o VarintsOf(ids)
                   \o Varint(Len(d.members)) \o RolesOf(d) \o members

(* Bytes put one after another are the same however they are grouped. *)
Associates(a, b, c) == (a \o b) \o c = a \o (b \o c)

LEMMA FilesAssociate ==
  \A a, b, c : a \in File /\ b \in File /\ c \in File => Associates(a, b, c)
  BY FileAssociative DEF Associates

(* Four pieces.                                                            *)
LEMMA FourParts ==
  ASSUME NEW a \in File, NEW b \in File, NEW c \in File, NEW d \in File
  PROVE  ((a \o b) \o c) \o d = a \o (b \o (c \o d))
  <1>1. a \o b \in File /\ c \o d \in File
    BY FileConcat
  <1>2. Associates(a \o b, c, d) /\ Associates(a, b, c \o d)
    BY <1>1, FilesAssociate
  <1>3. QED
    BY <1>2 DEF Associates

(* The lengths of fields, members and roles are words.                     *)
LEMMA LengthsAreWords ==
  ASSUME NEW e \in Elements
  PROVE  /\ Len(FieldsOf(Data[e])) < WordEnd /\ Len(Data[e].members) < WordEnd
         /\ \A i \in DOMAIN Data[e].roles : Len(Data[e].roles[i]) < WordEnd
  <1> DEFINE d == Data[e]
  <1>1. /\ {Len(d.members)} \cup {Len(s) : s \in ToSet(d.roles)}
              \subseteq 0 .. 2 ^ WordBits - 1
        /\ Len(FieldsOf(d)) \in 0 .. 2 ^ WordBits - 1
    BY ElementConstants, FieldsAreFew
  <1>2. 2 ^ WordBits = WordEnd
    BY SMT DEF WordBits, WordEnd
  <1>3. \A n \in 0 .. WordEnd - 1 : n < WordEnd
    <2>1. WordEnd \in Nat
      BY SMT DEF WordEnd
    <2>2. QED
      BY <2>1, SMT
  <1>4. \A i \in DOMAIN d.roles : d.roles[i] \in ToSet(d.roles)
    BY DEF ToSet
  <1> HIDE DEF d
  <1>5. QED
    BY <1>1, <1>2, <1>3, <1>4 DEF d

(* What RolesRead reads out of the bytes of a relation. *)
LEMMA RelationRead ==
  ASSUME NEW e \in Elements, NEW blob, IsRelationBlob(blob, Data[e]),
         Data[e].kind = "relation", \A i \in DOMAIN Data[e].roles : EndsItself(Data[e].roles[i])
  PROVE  LET roles == Then(ReadVarint(SkipVarints(Tail(blob), 1)),
                           LAMBDA fields, rest : ReadVarint(SkipVarints(rest, fields)))
         IN  Then(roles, LAMBDA n, rest : Repeated(ReadText, rest, n)[1]) = Data[e].roles
  <1> DEFINE d == Data[e]
             n == Len(d.members)
             ss == [i \in 1 .. n |-> StringBytes(d.roles[i], 0)]
  <1>1. /\ d.id \in Int /\ d.roles \in Seq(File) /\ Len(d.roles) = n /\ n \in Nat /\ n < WordEnd
    <2>1. d.roles \in Seq(File)
      BY ElementConstants DEF File, Byte
    <2>2. d.id \in Int /\ d.members \in Seq(Elements) /\ Len(d.roles) = n
      BY ElementConstants
    <2>3. n \in Nat
      BY <2>2, LenProperties
    <2>4. QED
      BY <2>1, <2>2, <2>3, LengthsAreWords
  <1>2. PICK ids \in Seq(Nat), members \in File :
          /\ Len(ids) < WordEnd
          /\ blob = <<0>> \o SignedVarint(d.id, WordBits) \o Varint(Len(ids)) \o VarintsOf(ids)
                      \o Varint(n) \o RolesOf(d) \o members
    BY DEF IsRelationBlob
  <1>3. \A i \in 1 .. n : ReadsAs(ss[i], d.roles[i])
    <2>1. SUFFICES ASSUME NEW i \in 1 .. n PROVE ReadsAs(ss[i], d.roles[i])
      OBVIOUS
    <2>2. i \in DOMAIN d.roles /\ d.roles[i] \in File
      BY <1>1, ElementOfSeq, LenProperties
    <2>3. Len(d.roles[i]) < WordEnd /\ EndsItself(d.roles[i])
      BY <2>2, LengthsAreWords
    <2>4. ss[i] = StringBytes(d.roles[i], 0)
      OBVIOUS
    <2> DEFINE s == d.roles[i]
    <2> HIDE DEF ss, s
    <2>5. ReadsAs(StringBytes(s, 0), s)
      BY <2>2, <2>3, StringRead DEF s
    <2>6. QED
      BY <2>4, <2>5 DEF s
  <1>4. ss \in Seq(File) /\ Len(ss) = n
    <2>1. \A i \in 1 .. n : ss[i] \in File
      BY <1>3 DEF ReadsAs
    <2>2. ss \in [1 .. n -> File]
      BY <2>1
    <2> HIDE DEF ss
    <2>3. QED
      BY <1>1, <2>2, IsSeq
  <1>5. RolesOf(d) = FlattenSeq(ss)
    BY DEF RolesOf
  <1> DEFINE zz == ZigZag(d.id, WordBits)
             k == Len(ids)
             z == Varint(zz)
             a == Varint(k)
             b == VarintsOf(ids)
             c == Varint(n)
             f == FlattenSeq(ss)
             r4 == f \o members
             r3 == c \o r4
             r2 == b \o r3
             r1 == a \o r2
  <1>6. zz \in Nat /\ SignedVarint(d.id, WordBits) = z /\ k \in Nat /\ k < WordEnd
    BY <1>1, <1>2, ZigZagIsNat, LenProperties DEF SignedVarint
  <1>7. z \in File /\ a \in File /\ b \in File /\ c \in File /\ f \in File
    <2>1. z \in File /\ a \in File /\ c \in File
      BY <1>1, <1>6, VarintBytes
    <2>2. b \in File
      BY VarintsAreBytes
    <2>3. f \in File
      BY <1>4, FlatType DEF File
    <2>4. QED
      BY <2>1, <2>2, <2>3
  <1>8. blob = <<0>> \o z \o a \o b \o c \o f \o members
    BY <1>2, <1>5, <1>6
  <1> HIDE DEF ss, f, z, a, b, c, zz, k
  <1>9. 0 \in Byte /\ <<0>> \in File
    BY OneByte DEF Byte
  <1>10. /\ r4 \in File /\ r3 \in File /\ r2 \in File /\ r1 \in File
         /\ z \o r1 \in File /\ blob = <<0>> \o (z \o r1)
    <2> DEFINE o == <<0>>
               p == o \o z
               q == ((p \o a) \o b)
    <2>1. o \in File /\ p \in File /\ q \in File
      <3>1. o \in File
        BY <1>9
      <3>2. p \in File
        BY <1>7, <3>1, FileConcat
      <3>3. p \o a \in File
        BY <1>7, <3>2, FileConcat
      <3>4. QED
        BY <1>7, <3>1, <3>2, <3>3, FileConcat
    <2>2. /\ r4 \in File /\ r3 \in File /\ r2 \in File /\ r1 \in File /\ z \o r1 \in File
      <3>1. r4 \in File
        BY <1>7, FileConcat
      <3>2. r3 \in File
        BY <1>7, <3>1, FileConcat
      <3>3. r2 \in File
        BY <1>7, <3>2, FileConcat
      <3>4. r1 \in File
        BY <1>7, <3>3, FileConcat
      <3>5. QED
        BY <1>7, <3>1, <3>2, <3>3, <3>4, FileConcat
    <2>3. blob = ((q \o c) \o f) \o members
      BY <1>8
    <2>4. /\ r4 = f \o members /\ r3 = c \o r4 /\ r2 = b \o r3 /\ r1 = a \o r2
          /\ q = (p \o a) \o b /\ p = o \o z
      OBVIOUS
    <2> HIDE DEF p, q, o, r1, r2, r3, r4
    <2>5. r1 = a \o (b \o r3) /\ r3 = c \o (f \o members)
      BY <2>4
    <2>6. ((q \o c) \o f) \o members = q \o r3
      <3>1. Associates(q \o c, f, members) /\ Associates(q, c, f \o members)
        <4>1. q \o c \in File /\ f \o members \in File
          BY <1>7, <2>1, FileConcat
        <4>2. QED
          BY <1>7, <2>1, <4>1, FilesAssociate
      <3>2. QED
        BY <2>5, <3>1 DEF Associates
    <2>7. ((p \o a) \o b) \o r3 = p \o r1
      <3>1. Associates(p \o a, b, r3) /\ Associates(p, a, b \o r3)
        <4>1. p \o a \in File /\ b \o r3 \in File
          BY <1>7, <2>1, <2>2, FileConcat
        <4>2. QED
          BY <1>7, <2>1, <2>2, <4>1, FilesAssociate
      <3>2. QED
        BY <2>5, <3>1 DEF Associates
    <2>8. (o \o z) \o r1 = o \o (z \o r1)
      <3>1. Associates(o, z, r1)
        BY <1>7, <2>1, <2>2, FilesAssociate
      <3>2. QED
        BY <3>1 DEF Associates
    <2>9. blob = o \o (z \o r1)
      BY <2>3, <2>4, <2>6, <2>7, <2>8
    <2>10. QED
      BY <2>2, <2>9 DEF o
  <1> HIDE DEF r1, r2, r3, r4
  <1>11. Tail(blob) = z \o r1
    <2> DEFINE t == z \o r1
    <2>1. t \in File /\ blob = <<0>> \o t
      BY <1>10
    <2> HIDE DEF t
    <2>2. Tail(<<0>> \o t) = t
      BY <1>9, <2>1, NextRead
    <2>3. QED
      BY <2>1, <2>2 DEF t
  <1>12. SkipVarints(z \o r1, 1) = r1
    BY <1>6, <1>10, OneSkipped DEF z
  <1>13. ReadVarint(r1) = <<k, r2>>
    <2>1. ReadVarint(Varint(k) \o r2) = <<k % WordEnd, r2>>
      BY <1>6, <1>10, VarintRead
    <2>2. k % WordEnd = k
      BY <1>6, WordFits
    <2>3. QED
      BY <2>1, <2>2 DEF r1, a
  <1>14. SkipVarints(r2, k) = r3
    <2>1. Repeated(ReadVarint, VarintsOf(ids) \o r3, Len(ids))
            = <<[i \in 1 .. Len(ids) |-> ids[i] % WordEnd], r3>>
      BY <1>10, VarintsRead
    <2>2. QED
      BY <2>1 DEF SkipVarints, r2, b, k
  <1>15. ReadVarint(r3) = <<n, r4>>
    <2>1. ReadVarint(Varint(n) \o r4) = <<n % WordEnd, r4>>
      BY <1>1, <1>10, VarintRead
    <2>2. n % WordEnd = n
      BY <1>1, WordFits
    <2>3. QED
      BY <2>1, <2>2 DEF r3, c
  <1>16. Repeated(ReadText, r4, n) = <<d.roles, members>>
    <2>1. Repeated(ReadText, FlattenSeq(ss) \o members, Len(d.roles)) = <<d.roles, members>>
      BY <1>1, <1>3, <1>4, TextsRead
    <2>2. QED
      BY <1>1, <2>1 DEF r4, f
  <1> DEFINE roles == Then(ReadVarint(SkipVarints(Tail(blob), 1)),
                           LAMBDA fields, rest : ReadVarint(SkipVarints(rest, fields)))
  <1>17. roles = <<n, r4>>
    <2>1. roles = ReadVarint(SkipVarints(ReadVarint(SkipVarints(Tail(blob), 1))[2],
                                         ReadVarint(SkipVarints(Tail(blob), 1))[1]))
      BY DEF Then
    <2>2. ReadVarint(SkipVarints(Tail(blob), 1)) = <<k, r2>>
      BY <1>11, <1>12, <1>13
    <2> HIDE DEF roles
    <2>3. roles = ReadVarint(SkipVarints(r2, k))
      BY <2>1, <2>2
    <2>4. QED
      BY <1>14, <1>15, <2>3
  <1>18. Then(roles, LAMBDA m, rest : Repeated(ReadText, rest, m)[1])
           = Repeated(ReadText, roles[2], roles[1])[1]
    BY DEF Then
  <1> HIDE DEF roles, n, d
  <1>19. Repeated(ReadText, roles[2], roles[1])[1] = d.roles
    BY <1>16, <1>17
  <1>20. QED
    BY <1>18, <1>19 DEF roles, d

(* The bytes of a relation are as they are read, while the pools are good. *)
LEMMA RelationBlobIs ==
  ASSUME NEW e \in Elements, Data[e].kind = "relation",
         values \in GoodPools, literals \in GoodPools
  PROVE  IsRelationBlob(RelationBlob(Data[e]).blob, Data[e])
  <1> DEFINE d == Data[e]
             n == Len(d.members)
             fields == FieldsOf(d)
             ids == FieldIds(fields).ids
             flat == [i \in 1 .. n |-> FlattenedId(d.members[i])]
             members == VarintsOf(flat)
  <1>1. ids \in Seq(Nat) /\ Len(ids) < WordEnd
    <2>1. fields \in Seq(AllFields) /\ Len(fields) < WordEnd
      BY FieldsOfElement, LengthsAreWords
    <2> HIDE DEF fields
    <2>2. QED
      BY <2>1, FieldIdsAreGood
  <1>2. members \in File
    <2>1. d.members \in Seq(Elements)
      BY ElementConstants
    <2>2. n \in Nat /\ \A i \in 1 .. n : d.members[i] \in Elements
      BY <2>1, LenProperties, ElementOfSeq
    <2>3. \A m \in Elements : FlattenedId(m) \in Int
      <3>1. SUFFICES ASSUME NEW m \in Elements PROVE FlattenedId(m) \in Int
        OBVIOUS
      <3>2. Data[m].id \in Int /\ Data[m].kind \in {"node", "way", "relation"}
        BY ElementConstants
      <3>3. 2 ^ (WordBits - 2) \in Int
        BY SMT DEF WordBits
      <3> DEFINE id == Data[m].id
                 kind == Data[m].kind
                 top == 2 ^ (WordBits - 2)
                 of == CASE kind = "node" -> 0 [] kind = "way" -> 1 [] kind = "relation" -> 2
      <3>4. FlattenedId(m) = id + top * of
        BY DEF FlattenedId
      <3>5. of \in {0, 1, 2}
        BY <3>2
      <3>6. id \in Int /\ top \in Int
        BY <3>2, <3>3
      <3> HIDE DEF id, top, of
      <3>7. QED
        BY <3>4, <3>5, <3>6
    <2> HIDE DEF d, n
    <2>4. flat \in [1 .. n -> Int]
      BY <2>2, <2>3
    <2> HIDE DEF flat
    <2>5. flat \in Seq(Int)
      BY <2>2, <2>4, IsSeq
    <2>6. QED
      BY <2>5, VarintsAreBytes
  <1>3. RelationBlob(d).blob
          = <<0>> \o SignedVarint(d.id, WordBits) \o Varint(Len(ids)) \o VarintsOf(ids)
            \o Varint(n) \o RolesOf(d) \o members
    BY DEF RelationBlob, RolesOf
  <1> HIDE DEF ids, members
  <1>4. QED
    BY <1>1, <1>2, <1>3 DEF IsRelationBlob

(* The bytes that were stored of each relation. *)
RelationsKept ==
    /\ DOMAIN written \subseteq Elements
    /\ \A e \in DOMAIN written :
          Data[e].kind = "relation" => IsRelationBlob(written[e].blob, Data[e])

LEMMA RelationsKeptAtFirst == Init => RelationsKept
  <1>1. SUFFICES ASSUME Init PROVE DOMAIN written = {}
    BY DEF RelationsKept
  <1>2. QED
    BY <1>1 DEF Init

(* A relation is written with the bytes of its data, and stays.            *)
LEMMA RelationsStayKept == PoolsGood /\ RelationsKept /\ [Next]_vars => RelationsKept'
  <1>1. SUFFICES ASSUME PoolsGood, RelationsKept, [Next]_vars PROVE RelationsKept'
    OBVIOUS
  <1>2. ASSUME written' = written PROVE RelationsKept'
    BY <1>1, <1>2 DEF RelationsKept
  <1>3. ASSUME NEW e \in Elements, Write(e) PROVE RelationsKept'
    <2>1. reads = 0 /\ literals \in GoodPools /\ values \in GoodPools
      BY <1>1, <1>3 DEF Write, Remember, PoolsGood
    <2>2. PICK box : written' = [f \in DOMAIN written \cup {e} |->
                                   IF f = e THEN [box |-> box, blob |-> Blob(Data[e], box).blob]
                                   ELSE written[f]]
      BY <1>3 DEF Write
    <2> DEFINE w == [box |-> box, blob |-> Blob(Data[e], box).blob]
    <2>3. written' = [f \in DOMAIN written \cup {e} |-> IF f = e THEN w ELSE written[f]]
      BY <2>2
    <2>4. Data[e].kind = "relation" => IsRelationBlob(w.blob, Data[e])
      <3>1. SUFFICES ASSUME Data[e].kind = "relation" PROVE IsRelationBlob(w.blob, Data[e])
        OBVIOUS
      <3>2. Blob(Data[e], box) = RelationBlob(Data[e])
        BY <3>1 DEF Blob
      <3>3. QED
        BY <2>1, <3>1, <3>2, RelationBlobIs
    <2> HIDE DEF w
    <2>5. QED
      BY <1>1, <2>3, <2>4 DEF RelationsKept
  <1>4. ASSUME NEW e \in Elements, WriteEmptyNode(e) PROVE written' = written
    BY <1>4 DEF WriteEmptyNode
  <1>5. ASSUME NEW e \in DOMAIN written, ReadTags(e) PROVE written' = written
    BY <1>5 DEF ReadTags
  <1>6. ASSUME Rerun PROVE written' = written
    BY <1>6 DEF Rerun
  <1>7. CASE UNCHANGED vars
    BY <1>2, <1>7 DEF vars
  <1>8. QED
    BY <1>1, <1>2, <1>3, <1>4, <1>5, <1>6, <1>7 DEF Next

(* RolesRead: whatever the roles of a relation are, as long as each ends   *)
(* itself, the readers of the storage give them back out of the bytes      *)
(* serialize_relation has made: its number of fields, the ids of the       *)
(* fields, the number of its members and the roles are where they are      *)
(* looked for, and none of the strings is read beyond its end.             *)
THEOREM RolesReadCorrect == Spec => []RolesRead
  <1>1. Spec => []PoolsGood
    BY PoolsGoodAtFirst, PoolsStayGood, PTL DEF Spec
  <1>2. Spec => []RelationsKept
    BY <1>1, RelationsKeptAtFirst, RelationsStayKept, PTL DEF Spec
  <1>3. RelationsKept => RolesRead
    <2>1. SUFFICES ASSUME RelationsKept, NEW e \in DOMAIN written,
                          Data[e].kind = "relation",
                          \A i \in DOMAIN Data[e].roles : EndsItself(Data[e].roles[i])
                   PROVE  LET roles == Then(ReadVarint(SkipVarints(Tail(written[e].blob), 1)),
                                            LAMBDA fields, rest : ReadVarint(SkipVarints(rest, fields)))
                          IN  Then(roles, LAMBDA n, rest : Repeated(ReadText, rest, n)[1])
                                = Data[e].roles
      BY DEF RolesRead
    <2>2. e \in Elements /\ IsRelationBlob(written[e].blob, Data[e])
      BY <2>1 DEF RelationsKept
    <2>3. QED
      BY <2>1, <2>2, RelationRead
  <1>4. QED
    BY <1>2, <1>3, PTL

-----------------------------------------------------------------------------
(* The bytes and the box of a way.                                         *)

(* The distance of two coordinates is a word, and leads back from one to   *)
(* the other.                                                              *)
LEMMA Distances ==
  ASSUME NEW a \in Coords, NEW b \in Coords, b <= a
  PROVE  /\ AbsDiff(b, a) \in Nat /\ AbsDiff(b, a) < WordEnd
         /\ WrappingAdd(b, AbsDiff(b, a)) = a /\ 0 \in Coords
  <1> DEFINE half == 2 ^ (W - 1)
             d == AbsDiff(b, a)
  <1>1. half \in Int
    BY WidthOK
  <1>2. 2 * half <= WordEnd /\ WordEnd \in Nat
    <2>1. 2 ^ WordBits = WordEnd
      BY SMT DEF WordBits, WordEnd
    <2>2. WordEnd \in Nat
      BY SMT DEF WordEnd
    <2>3. QED
      BY <2>1, <2>2, ElementConstants
  <1>3. Coords = -half .. half - 1
    BY DEF Coords
  <1>4. WrappingAdd(b, d) = ((b + d + half) % (2 * half)) - half
    BY DEF WrappingAdd
  <1> HIDE DEF half
  <1>5. a \in Int /\ b \in Int /\ d = a - b
    <2>1. a \in Int /\ b \in Int
      BY <1>1, <1>3
    <2>2. QED
      BY <2>1 DEF AbsDiff
  <1> HIDE DEF d
  <1>6. 0 <= a + half /\ a + half < 2 * half /\ -half <= b
    BY <1>1, <1>3, <1>5
  <1>7. b + d + half = a + half
    BY <1>1, <1>5
  <1>8. (a + half) % (2 * half) = a + half
    BY <1>1, <1>5, <1>6
  <1>9. d \in Nat /\ d < WordEnd
    BY <1>1, <1>2, <1>5, <1>6
  <1>10. 0 \in Coords
    BY <1>1, <1>3, <1>5, <1>6
  <1>11. (a + half) - half = a
    BY <1>1, <1>5
  <1>12. QED
    BY <1>4, <1>7, <1>8, <1>9, <1>10, <1>11 DEF d

(* Points, boxes whose corners may be in any order, and which points a box *)
(* has.                                                                    *)
Points == Coords \X Coords

Includes(b, p) == b.x <= p[1] /\ p[1] <= b.xEnd /\ b.y <= p[2] /\ p[2] <= b.yEnd

BoxRecords == [x : Coords, y : Coords, xEnd : Coords, yEnd : Coords]

(* A box that takes one more point has it, and what it had.                *)
LEMMA OneMorePoint ==
  ASSUME NEW b \in BoxRecords, NEW p \in Points, b # NoBox
  PROVE  /\ ExtendWithPoint(b, p) \in BoxRecords /\ Includes(ExtendWithPoint(b, p), p)
         /\ \A q \in Points : Includes(b, q) => Includes(ExtendWithPoint(b, p), q)
  <1>1. /\ p[1] \in Coords /\ p[2] \in Coords /\ b.x \in Coords /\ b.y \in Coords
        /\ b.xEnd \in Coords /\ b.yEnd \in Coords
    BY DEF Points, BoxRecords
  <1>2. \A c \in Coords : c \in Int
    BY CoordsAreIntegers
  <1> DEFINE e == ExtendWithPoint(b, p)
  <1>3. e = [x |-> Lower(b.x, p[1]), y |-> Lower(b.y, p[2]),
             xEnd |-> Upper(b.xEnd, p[1]), yEnd |-> Upper(b.yEnd, p[2])]
    BY DEF ExtendWithPoint, Box
  <1> HIDE DEF e
  <1>4. \A c, d \in Coords : /\ Lower(c, d) \in Coords /\ Upper(c, d) \in Coords
                             /\ Lower(c, d) <= c /\ Lower(c, d) <= d
                             /\ c <= Upper(c, d) /\ d <= Upper(c, d)
    BY <1>2 DEF Lower, Upper
  <1>5. e \in BoxRecords
    BY <1>1, <1>3, <1>4 DEF BoxRecords
  <1>6. /\ e.x \in Coords /\ e.y \in Coords /\ e.xEnd \in Coords /\ e.yEnd \in Coords
        /\ e.x <= b.x /\ e.x <= p[1] /\ e.y <= b.y /\ e.y <= p[2]
        /\ b.xEnd <= e.xEnd /\ p[1] <= e.xEnd /\ b.yEnd <= e.yEnd /\ p[2] <= e.yEnd
    BY <1>1, <1>3, <1>4
  <1>7. \A q \in Points : q[1] \in Coords /\ q[2] \in Coords
    BY DEF Points
  <1>8. \A c, d, f \in Int : c <= d /\ d <= f => c <= f
    OBVIOUS
  <1>9. \A q \in Points : Includes(b, q) => Includes(e, q)
    <2>1. SUFFICES ASSUME NEW q \in Points, Includes(b, q) PROVE Includes(e, q)
      OBVIOUS
    <2>2. /\ b.x <= q[1] /\ q[1] <= b.xEnd /\ b.y <= q[2] /\ q[2] <= b.yEnd
          /\ q[1] \in Coords /\ q[2] \in Coords
      BY <1>7, <2>1 DEF Includes
    <2>3. QED
      BY <1>1, <1>2, <1>6, <1>8, <2>2 DEF Includes
  <1>10. QED
    BY <1>5, <1>6, <1>9 DEF Includes, e

(* A box around points has them all, unless the first one is (0, 0).       *)
LEMMA BoxHasPoints ==
  ASSUME NEW points \in Seq(Points), points # <<>>, points[1] # <<0, 0>>
  PROVE  /\ BoxOfPoints(points) \in BoxRecords
         /\ \A i \in 1 .. Len(points) : Includes(BoxOfPoints(points), points[i])
  <1> DEFINE n == Len(points)
             first == FromPoint(points[1][1], points[1][2])
             on(b, i) == IF i = 1 THEN first ELSE ExtendWithPoint(b, points[i])
             Z == BoxRecords
             Body(i, h) == IF i = 0 THEN NoBox ELSE on(h[i - 1], i)
             at == CHOOSE h : h = [i \in 0 .. n |-> Body(i, h)]
             G == [i \in 1 .. n |-> [b \in Z |-> on(b, i)]]
  <1>1. /\ n \in Nat \ {0} /\ 1 \in 1 .. n /\ \A i \in 1 .. n : points[i] \in Points
    BY LenProperties, ElementOfSeq, EmptySeq
  <1>2. BoxOfPoints(points) = at[n]
    <2> DEFINE Long(i, h) == IF i = 0 THEN NoBox ELSE IF i = 1 THEN first
                             ELSE ExtendWithPoint(h[i - 1], points[i])
    <2>1. BoxOfPoints(points) = (CHOOSE h : h = [i \in 0 .. n |-> Long(i, h)])[n]
      BY DEF BoxOfPoints
    <2>2. QED
      BY <2>1
  <1> HIDE DEF at, n
  <1>3. /\ \A p \in Points : p[1] \in Coords /\ p[2] \in Coords /\ p = <<p[1], p[2]>>
        /\ 0 \in Coords /\ Coords \subseteq Int
    <2>1. \A p \in Points : p[1] \in Coords /\ p[2] \in Coords /\ p = <<p[1], p[2]>>
      BY DEF Points
    <2>2. Coords \subseteq Int
      BY CoordsAreIntegers
    <2>3. \A c \in Coords : c <= c
      BY <2>2
    <2>4. \A c \in Coords : 0 \in Coords
      BY <2>3, Distances
    <2>5. QED
      BY <1>1, <2>1, <2>2, <2>4
  <1>4. first \in Z /\ NoBox \in Z /\ Includes(first, points[1])
    <2>1. points[1][1] \in Coords /\ points[1][2] \in Coords
      BY <1>1, <1>3
    <2>2. first \in Z /\ NoBox \in Z
      BY <1>3, <2>1 DEF FromPoint, Box, NoBox, BoxRecords
    <2>3. QED
      BY <1>3, <2>1, <2>2 DEF FromPoint, Box, Includes
  <1> HIDE DEF first
  <1>5. Stepwise(n, Z, G) /\ \A b \in Z, i \in 1 .. n : on(b, i) \in Z
    <2>1. ASSUME NEW b \in Z, NEW i \in 1 .. n PROVE on(b, i) \in Z
      <3>1. CASE i = 1
        BY <1>4, <3>1
      <3>2. CASE i # 1 /\ b = NoBox
        <4>1. on(b, i) = FromPoint(points[i][1], points[i][2])
          BY <3>2 DEF ExtendWithPoint
        <4>2. points[i][1] \in Coords /\ points[i][2] \in Coords
          BY <1>1, <1>3
        <4>3. QED
          BY <4>1, <4>2 DEF FromPoint, Box, BoxRecords
      <3>3. CASE i # 1 /\ b # NoBox
        BY <1>1, <3>3, OneMorePoint
      <3>4. QED
        BY <3>1, <3>2, <3>3
    <2>2. QED
      BY <2>1 DEF Stepwise
  <1> HIDE DEF on, Z
  <1>6. PICK f \in [0 .. n -> Z] : f[0] = NoBox /\ \A i \in 1 .. n : f[i] = G[i][f[i - 1]]
    <2>1. n \in Nat
      BY <1>1
    <2> HIDE DEF G
    <2>2. PICK f : IsRun(f, n, Z, NoBox, G)
      BY <1>4, <1>5, <2>1, UpwardRecursion
    <2>3. QED
      BY <2>2 DEF IsRun
  <1>7. f = [i \in 0 .. n |-> Body(i, f)]
    <2>1. ASSUME NEW i \in 0 .. n PROVE f[i] = Body(i, f)
      <3>1. CASE i = 0
        BY <1>6, <3>1
      <3>2. CASE i # 0
        <4>1. i \in 1 .. n /\ i - 1 \in 0 .. n
          BY <1>1, <3>2
        <4>2. f[i - 1] \in Z /\ f[i] = G[i][f[i - 1]]
          BY <1>6, <4>1
        <4>3. f[i] = on(f[i - 1], i)
          BY <4>1, <4>2
        <4>4. QED
          BY <3>2, <4>3
      <3>3. QED
        BY <3>1, <3>2
    <2> HIDE DEF Body
    <2>2. QED
      BY <2>1
  <1>8. at = [i \in 0 .. n |-> Body(i, at)]
    <2> HIDE DEF Body
    <2>1. QED
      BY <1>7 DEF at
  <1>9. at[0] = NoBox /\ \A i \in 1 .. n : at[i] = on(at[i - 1], i)
    <2>1. \A i \in 0 .. n : at[i] = Body(i, at)
      <3> HIDE DEF Body
      <3>1. QED
        BY <1>8
    <2>2. 0 \in 0 .. n /\ \A i \in 1 .. n : i \in 0 .. n /\ i # 0
      BY <1>1
    <2>3. QED
      BY <2>1, <2>2
  <1> HIDE DEF Body
  <1> DEFINE T == {i \in 0 .. n : /\ at[i] \in Z
                                  /\ \A j \in 1 .. i : Includes(at[i], points[j])}
  <1>10. 0 \in T
    BY <1>1, <1>4, <1>9
  <1>11. ASSUME NEW i \in 0 .. n - 1, i \in T PROVE i + 1 \in T
    <2> DEFINE k == i + 1
    <2>1. k \in 1 .. n /\ k - 1 = i /\ k \in 0 .. n /\ \A j \in 1 .. k : j = k \/ j \in 1 .. i
      BY <1>1
    <2>2. at[i] \in Z /\ \A j \in 1 .. i : Includes(at[i], points[j])
      BY <1>11
    <2> HIDE DEF k
    <2>3. at[k] = on(at[i], k)
      BY <1>9, <2>1
    <2>4. at[k] \in Z
      BY <1>5, <2>1, <2>2, <2>3
    <2>5. CASE k = 1
      <3>1. at[k] = first
        BY <2>3, <2>5 DEF on
      <3>2. \A j \in 1 .. k : j = 1
        BY <2>5
      <3>3. \A j \in 1 .. k : Includes(at[k], points[j])
        BY <1>4, <3>1, <3>2
      <3>4. QED
        BY <2>1, <2>4, <3>3 DEF k
    <2>6. CASE k # 1
      <3>1. at[k] = ExtendWithPoint(at[i], points[k])
        BY <2>3, <2>6 DEF on
      <3>2. 1 \in 1 .. i
        BY <2>1, <2>6
      <3>3. at[i] # NoBox
        <4>1. SUFFICES ASSUME at[i] = NoBox PROVE FALSE
          OBVIOUS
        <4>2. points[1] \in Points /\ Includes(NoBox, points[1])
          BY <1>1, <2>2, <3>2, <4>1
        <4>3. /\ points[1][1] \in Int /\ points[1][2] \in Int
              /\ points[1] = <<points[1][1], points[1][2]>>
          BY <1>3, <4>2
        <4>4. /\ 0 <= points[1][1] /\ points[1][1] <= 0
              /\ 0 <= points[1][2] /\ points[1][2] <= 0
          BY <4>2 DEF Includes, NoBox, Box
        <4>5. points[1][1] = 0 /\ points[1][2] = 0
          BY <4>3, <4>4
        <4>6. QED
          BY <4>3, <4>5
      <3>4. points[k] \in Points /\ \A j \in 1 .. i : points[j] \in Points
        <4>1. \A j \in 1 .. i : j \in 1 .. n
          BY <1>1, <2>1
        <4>2. QED
          BY <1>1, <2>1, <4>1
      <3>5. at[i] \in BoxRecords
        BY <2>2 DEF Z
      <3>6. /\ Includes(at[k], points[k])
            /\ \A q \in Points : Includes(at[i], q) => Includes(at[k], q)
        BY <3>1, <3>3, <3>4, <3>5, OneMorePoint
      <3>7. \A j \in 1 .. k : Includes(at[k], points[j])
        BY <2>1, <2>2, <3>4, <3>6
      <3>8. QED
        BY <2>1, <2>4, <3>7 DEF k
    <2>7. QED
      BY <2>5, <2>6
  <1>12. n \in T
    <2> HIDE DEF T
    <2>1. \A i \in 0 .. n : i \in T
      BY <1>1, <1>10, <1>11, Upwards
    <2>2. QED
      BY <1>1, <2>1
  <1>13. QED
    BY <1>2, <1>12 DEF Z, n

(* Any number of corners. *)
CornersIn(all, k, box) == Repeated(LAMBDA bytes : ReadCorner(bytes, box), all, k)

LEMMA CornersRead ==
  ASSUME NEW box, NEW S, NEW vals \in Seq(S), NEW ss \in Seq(File), Len(ss) = Len(vals),
         \A i \in 1 .. Len(vals), r \in File : ReadCorner(ss[i] \o r, box) = <<vals[i], r>>,
         NEW tail \in File
  PROVE  CornersIn(FlattenSeq(ss) \o tail, Len(vals), box) = <<vals, tail>>
  <1> DEFINE k == Len(vals)
             all == FlattenSeq(ss) \o tail
             Body(n, h) == IF n = 0 THEN <<<<>>, all>>
                           ELSE <<Append(h[n - 1][1], ReadCorner(h[n - 1][2], box)[1]),
                                  ReadCorner(h[n - 1][2], box)[2]>>
             at == CHOOSE h : h = [n \in 0 .. k |-> Body(n, h)]
  <1>1. k \in Nat
    BY LenProperties
  <1>2. Len(ss) = k
    OBVIOUS
  <1>3. CornersIn(all, k, box) = at[k]
    BY DEF CornersIn, Repeated, Then
  <1>4. \A i \in 1 .. k, r \in File : ReadCorner(ss[i] \o r, box) = <<vals[i], r>>
    OBVIOUS
  <1> HIDE DEF k
  <1>5. PICK f : IsReading(f, ss, vals, tail)
    BY <1>2, ReadingExists DEF k
  <1>6. /\ f[0] = <<<<>>, all>> /\ f[k] = <<vals, tail>>
        /\ f \in [0 .. k -> Seq(Range(vals)) \X File]
        /\ \A i \in 1 .. k : \E r \in File : /\ f[i - 1][2] = ss[i] \o r
                                             /\ f[i] = <<Append(f[i - 1][1], vals[i]), r>>
    BY <1>2, <1>5 DEF IsReading
  <1>7. \A h : \A i \in 1 .. k : h[i - 1] = f[i - 1] => Body(i, h) = f[i]
    <2>1. SUFFICES ASSUME NEW h, NEW i \in 1 .. k, h[i - 1] = f[i - 1] PROVE Body(i, h) = f[i]
      OBVIOUS
    <2>2. PICK r \in File : f[i - 1][2] = ss[i] \o r /\ f[i] = <<Append(f[i - 1][1], vals[i]), r>>
      BY <1>6
    <2>3. ReadCorner(h[i - 1][2], box) = <<vals[i], r>>
      BY <1>4, <2>1, <2>2
    <2>4. i # 0
      BY <1>1
    <2>5. Body(i, h) = <<Append(h[i - 1][1], ReadCorner(h[i - 1][2], box)[1]),
                         ReadCorner(h[i - 1][2], box)[2]>>
      BY <2>4
    <2> HIDE DEF Body
    <2>6. QED
      BY <2>1, <2>2, <2>3, <2>5
  <1>8. \A h : Body(0, h) = f[0]
    BY <1>6
  <1> HIDE DEF Body
  <1>9. f = [n \in 0 .. k |-> Body(n, f)]
    <2>1. \A n \in 0 .. k : n = 0 \/ n \in 1 .. k
      BY <1>1
    <2>2. \A n \in 0 .. k : f[n] = Body(n, f)
      BY <1>7, <1>8, <2>1, Zenon
    <2>3. QED
      BY <1>6, <2>2
  <1>10. at = [n \in 0 .. k |-> Body(n, at)]
    BY <1>9, Zenon
  <1> HIDE DEF at
  <1>11. at[k] = f[k]
    <2>1. 0 \in 0 .. k /\ k \in 0 .. k /\ \A i \in 1 .. k : i \in 0 .. k
      BY <1>1
    <2>2. at[0] = f[0]
      BY <1>8, <1>10, <2>1, Zenon
    <2>3. \A i \in 1 .. k : at[i - 1] = f[i - 1] => at[i] = f[i]
      BY <1>7, <1>10, <2>1, Zenon
    <2>4. ASSUME NEW g, g[0] = f[0], \A i \in 1 .. k : g[i - 1] = f[i - 1] => g[i] = f[i]
          PROVE  g[k] = f[k]
      BY <1>1, <2>4, SameEnd
    <2>5. QED
      BY <2>2, <2>3, <2>4
  <1>12. QED
    BY <1>3, <1>6, <1>11 DEF k

(* One corner, by its distance from the box. *)
LEMMA CornerRead ==
  ASSUME NEW box \in BoxRecords, NEW p \in Points, Includes(box, p), NEW rest \in File
  PROVE  LET corner == Varint(AbsDiff(box.x, p[1])) \o Varint(AbsDiff(box.y, p[2]))
         IN  corner \in File /\ ReadCorner(corner \o rest, box) = <<p, rest>>
  <1> DEFINE dx == AbsDiff(box.x, p[1])
             dy == AbsDiff(box.y, p[2])
             a == Varint(dx)
             b == Varint(dy)
  <1>1. /\ box.x \in Coords /\ box.y \in Coords /\ p[1] \in Coords /\ p[2] \in Coords
        /\ p = <<p[1], p[2]>> /\ box.x <= p[1] /\ box.y <= p[2]
    BY DEF BoxRecords, Points, Includes
  <1>2. /\ dx \in Nat /\ dx < WordEnd /\ WrappingAdd(box.x, dx) = p[1]
        /\ dy \in Nat /\ dy < WordEnd /\ WrappingAdd(box.y, dy) = p[2]
    BY <1>1, Distances
  <1> HIDE DEF dx, dy
  <1>3. a \in File /\ b \in File
    BY <1>2, VarintBytes
  <1>4. a \o b \in File /\ b \o rest \in File
    BY <1>3, FileConcat
  <1>5. ReadVarint(a \o (b \o rest)) = <<dx, b \o rest>>
    <2> DEFINE t == b \o rest
    <2>1. t \in File
      BY <1>4
    <2> HIDE DEF t
    <2>2. ReadVarint(Varint(dx) \o t) = <<dx % WordEnd, t>>
      BY <1>2, <2>1, VarintRead
    <2>3. dx % WordEnd = dx
      BY <1>2, WordFits
    <2>4. QED
      BY <2>2, <2>3 DEF t
  <1>6. ReadVarint(b \o rest) = <<dy, rest>>
    <2>1. ReadVarint(Varint(dy) \o rest) = <<dy % WordEnd, rest>>
      BY <1>2, VarintRead
    <2>2. dy % WordEnd = dy
      BY <1>2, WordFits
    <2>3. QED
      BY <2>1, <2>2
  <1> HIDE DEF a, b
  <1>7. (a \o b) \o rest = a \o (b \o rest)
    <2>1. Associates(a, b, rest)
      BY <1>3, FilesAssociate
    <2>2. QED
      BY <2>1 DEF Associates
  <1> DEFINE u == (a \o b) \o rest
             v == b \o rest
  <1>8. ReadVarint(u) = <<dx, v>> /\ ReadVarint(v) = <<dy, rest>>
    BY <1>5, <1>6, <1>7
  <1> HIDE DEF u, v
  <1>9. ReadCorner(u, box) = <<<<WrappingAdd(box.x, dx), WrappingAdd(box.y, dy)>>, rest>>
    BY <1>8 DEF ReadCorner, Then
  <1>10. QED
    BY <1>1, <1>2, <1>4, <1>9 DEF u, a, b, dx, dy

(* Where the nodes of a way are. *)
PlacesOf(d) == [i \in DOMAIN d.members |-> Data[d.members[i]].at]

(* The nodes of the cache have the boxes of their places. *)
PlacesKept ==
    /\ DOMAIN cache \subseteq Elements
    /\ \A e \in DOMAIN cache : Data[e].kind = "node" =>
          cache[e] = FromPoint(Data[e].at[1], Data[e].at[2])

(* A way whose nodes can be told from its box. *)
HasPlace(d) == d.members # <<>> => Data[d.members[1]].at # <<0, 0>>

(* What is known of the nodes of a way.                                    *)
LEMMA WayFacts ==
  ASSUME NEW e \in Elements, Data[e].kind = "way"
  PROVE  LET d == Data[e]
             n == Len(d.members)
         IN  /\ n \in Nat /\ n < WordEnd /\ DOMAIN d.members = 1 .. n /\ d.id \in Int
             /\ \A i \in 1 .. n : /\ d.members[i] \in Elements /\ Data[d.members[i]].kind = "node"
                                  /\ PlacesOf(d)[i] = Data[d.members[i]].at
                                  /\ Data[d.members[i]].at \in Points
             /\ PlacesOf(d) \in Seq(Points) /\ Len(PlacesOf(d)) = n
  <1> DEFINE d == Data[e]
             n == Len(d.members)
  <1>1. d.members \in Seq(Elements) /\ d.id \in Int /\ n < WordEnd
    BY ElementConstants, LengthsAreWords
  <1>2. \A m \in ToSet(d.members) : Data[m].kind = "node"
    BY ElementConstants
  <1>3. \A m \in Elements : Data[m].kind = "node" => Data[m].at \in Points
    BY ElementConstants DEF Points
  <1>4. n \in Nat /\ DOMAIN d.members = 1 .. n /\ \A i \in 1 .. n : d.members[i] \in Elements
    <2> DEFINE ms == d.members
    <2>1. ms \in Seq(Elements)
      BY <1>1
    <2> HIDE DEF ms
    <2>2. Len(ms) \in Nat /\ DOMAIN ms = 1 .. Len(ms) /\ \A i \in 1 .. Len(ms) : ms[i] \in Elements
      BY <2>1, LenProperties, ElementOfSeq
    <2>3. QED
      BY <2>2 DEF ms
  <1>5. \A i \in 1 .. n : d.members[i] \in ToSet(d.members)
    BY <1>4 DEF ToSet
  <1>6. \A i \in 1 .. n : /\ Data[d.members[i]].kind = "node"
                          /\ Data[d.members[i]].at \in Points
    BY <1>2, <1>3, <1>4, <1>5
  <1>7. PlacesOf(d) = [i \in 1 .. n |-> Data[d.members[i]].at]
    BY <1>4 DEF PlacesOf
  <1> DEFINE ps == PlacesOf(d)
  <1>8. \A i \in 1 .. n : ps[i] = Data[d.members[i]].at
    BY <1>7
  <1>9. ps \in [1 .. n -> Points]
    BY <1>6, <1>7
  <1> HIDE DEF ps, n, d
  <1>10. ps \in Seq(Points) /\ Len(ps) = n
    BY <1>4, <1>9, IsSeq
  <1>11. QED
    BY <1>1, <1>4, <1>6, <1>8, <1>10 DEF ps, n, d

(* The box of a way has the places of its nodes. *)
LEMMA BoxOfWay ==
  ASSUME NEW e \in Elements, Data[e].kind = "way", HasPlace(Data[e]), PlacesKept,
         ToSet(Data[e].members) \subseteq DOMAIN cache, Data[e].members # <<>>
  PROVE  LET box == BoxFor(Data[e])
         IN  /\ box \in BoxRecords
             /\ \A i \in 1 .. Len(Data[e].members) : Includes(box, PlacesOf(Data[e])[i])
  <1> DEFINE d == Data[e]
             n == Len(d.members)
             ps == PlacesOf(d)
             boxes == [i \in DOMAIN d.members |-> cache[d.members[i]]]
             points == [k \in 1 .. 2 * Len(boxes) |->
                          LET b == boxes[(k + 1) \div 2]
                          IN IF k % 2 = 1 THEN <<b.x, b.y>> ELSE <<b.xEnd, b.yEnd>>]
  <1>1. /\ n \in Nat /\ DOMAIN d.members = 1 .. n
        /\ \A i \in 1 .. n : /\ Data[d.members[i]].kind = "node"
                             /\ ps[i] = Data[d.members[i]].at /\ ps[i] \in Points
    BY WayFacts
  <1>2. BoxFor(d) = BoxOfPoints(points)
    BY DEF BoxFor, BoxOfBoxes
  <1>3. n # 0
    <2>1. d.members \in Seq(Elements)
      BY ElementConstants
    <2>2. QED
      BY <2>1, EmptySeq
  <1>4. \A i \in 1 .. n : d.members[i] \in DOMAIN cache
    BY <1>1 DEF ToSet
  <1>5. \A i \in 1 .. n : cache[d.members[i]] = FromPoint(ps[i][1], ps[i][2])
    BY <1>1, <1>4 DEF PlacesKept
  <1>6. ps[1] # <<0, 0>>
    <2>1. Data[d.members[1]].at # <<0, 0>>
      BY DEF HasPlace
    <2>2. 1 \in 1 .. n
      BY <1>1, <1>3
    <2>3. QED
      BY <1>1, <2>1, <2>2
  <1>7. boxes \in [1 .. n -> {cache[d.members[i]] : i \in 1 .. n}]
        /\ \A i \in 1 .. n : boxes[i] = FromPoint(ps[i][1], ps[i][2])
    BY <1>1, <1>5
  <1> HIDE DEF boxes, ps, n, d
  <1>8. Len(boxes) = n
    BY <1>1, <1>7, IsSeq
  <1>9. \A i \in 1 .. n : ps[i] = <<ps[i][1], ps[i][2]>>
    BY <1>1 DEF Points
  <1>10. \A i \in 1 .. n : /\ <<boxes[i].x, boxes[i].y>> = ps[i]
                           /\ <<boxes[i].xEnd, boxes[i].yEnd>> = ps[i]
    BY <1>7, <1>9 DEF FromPoint, Box
  <1>11. \A k \in 1 .. 2 * n : (k + 1) \div 2 \in 1 .. n
    BY <1>1
  <1>12. /\ DOMAIN points = 1 .. 2 * n
         /\ \A k \in 1 .. 2 * n : points[k] = ps[(k + 1) \div 2]
    BY <1>8, <1>10, <1>11
  <1>13. points \in [1 .. 2 * n -> Points]
    <2>1. \A k \in 1 .. 2 * n : points[k] \in Points
      BY <1>1, <1>11, <1>12
    <2>2. points = [k \in 1 .. 2 * n |-> points[k]]
      BY <1>12
    <2> HIDE DEF points
    <2>3. QED
      BY <2>1, <2>2
  <1> HIDE DEF points
  <1>14. 2 * n \in Nat
    BY <1>1
  <1>15. points \in Seq(Points) /\ Len(points) = 2 * n
    BY <1>13, <1>14, IsSeq
  <1>16. 1 \in 1 .. 2 * n /\ (1 + 1) \div 2 = 1
    BY <1>1, <1>3
  <1>17. points[1] # <<0, 0>> /\ points # <<>>
    <2>1. points[1] = ps[1]
      BY <1>12, <1>16
    <2>2. Len(points) # 0
      BY <1>15, <1>16
    <2>3. QED
      BY <1>6, <2>1, <2>2
  <1>18. /\ BoxOfPoints(points) \in BoxRecords
         /\ \A k \in 1 .. 2 * n : Includes(BoxOfPoints(points), points[k])
    BY <1>15, <1>17, BoxHasPoints
  <1>19. ASSUME NEW i \in 1 .. n PROVE Includes(BoxOfPoints(points), ps[i])
    <2>1. 2 * i \in 1 .. 2 * n /\ (2 * i + 1) \div 2 = i
      BY <1>1
    <2>2. points[2 * i] = ps[i]
      BY <1>12, <2>1
    <2>3. QED
      BY <1>18, <2>1, <2>2
  <1>20. QED
    BY <1>2, <1>18, <1>19 DEF d, n, ps

(* What comes first stays first. *)
LEMMA FirstByte ==
  ASSUME NEW s \in File, NEW t \in File, Len(s) # 0
  PROVE  s \o t \in File /\ Len(s \o t) # 0 /\ (s \o t)[1] = s[1]
  <1>1. Len(s) \in Nat /\ Len(t) \in Nat
    BY FileFacts
  <1>2. /\ s \o t \in File /\ Len(s \o t) = Len(s) + Len(t)
        /\ \A i \in 1 .. Len(s) + Len(t) : (s \o t)[i] = IF i <= Len(s) THEN s[i] ELSE t[i - Len(s)]
    BY FileConcat
  <1>3. 1 \in 1 .. Len(s) + Len(t) /\ 1 <= Len(s)
    BY <1>1
  <1>4. QED
    BY <1>1, <1>2, <1>3

(* The first byte of what is stored tells which kind it is. *)
LEMMA TypeOfRelation ==
  ASSUME NEW e \in Elements, Data[e].kind = "relation",
         values \in GoodPools, literals \in GoodPools
  PROVE  TypeOf(RelationBlob(Data[e]).blob) = "relation"
  <1> DEFINE d == Data[e]
             blob == RelationBlob(d).blob
             n == Len(d.members)
             roles == RolesOf(d)
  <1>1. PICK ids \in Seq(Nat), members \in File :
           blob = <<0>> \o SignedVarint(d.id, WordBits) \o Varint(Len(ids)) \o VarintsOf(ids)
                    \o Varint(n) \o roles \o members
    BY RelationBlobIs DEF IsRelationBlob
  <1>2. d.roles \in Seq(File) /\ d.id \in Int /\ Len(d.roles) = n /\ n \in Nat
    <2>1. d.roles \in Seq(File)
      BY ElementConstants DEF File, Byte
    <2>2. d.id \in Int /\ d.members \in Seq(Elements) /\ Len(d.roles) = n
      BY ElementConstants
    <2>3. QED
      BY <2>1, <2>2, LenProperties
  <1>3. roles \in File
    <2> DEFINE rs == d.roles
               ss == [i \in 1 .. n |-> StringBytes(rs[i], 0)]
    <2>1. rs \in Seq(File) /\ Len(rs) = n
      BY <1>2
    <2>2. roles = FlattenSeq(ss)
      BY DEF RolesOf
    <2> HIDE DEF rs, n, roles
    <2>3. \A i \in 1 .. n : rs[i] \in File /\ i \in DOMAIN rs
      BY <2>1, ElementOfSeq, LenProperties
    <2>4. \A i \in 1 .. n : StringBytes(rs[i], 0) \in File
      BY <2>3, StringIsBytes
    <2>5. ss \in [1 .. n -> File]
      BY <2>4
    <2> HIDE DEF ss
    <2>6. ss \in Seq(File)
      BY <1>2, <2>5, IsSeq
    <2>7. QED
      BY <2>2, <2>6, FlatType DEF File
  <1> DEFINE o == <<0>>
             z == SignedVarint(d.id, WordBits)
             a == Varint(Len(ids))
             b == VarintsOf(ids)
             c == Varint(n)
  <1>4. z \in File /\ a \in File /\ b \in File /\ c \in File
    <2>1. z \in File
      BY <1>2, SignedIsShort
    <2>2. a \in File
      <3> DEFINE k == Len(ids)
      <3>1. k \in Nat
        BY LenProperties
      <3> HIDE DEF k
      <3>2. Varint(k) \in File
        BY <3>1, VarintBytes
      <3>3. QED
        BY <3>2 DEF k
    <2>3. b \in File
      BY VarintsAreBytes
    <2>4. c \in File
      BY <1>2, VarintBytes
    <2>5. QED
      BY <2>1, <2>2, <2>3, <2>4
  <1>5. o \in File /\ Len(o) # 0 /\ o[1] = 0
    BY OneByte DEF Byte
  <1>6. blob = o \o z \o a \o b \o c \o roles \o members
    BY <1>1
  <1> HIDE DEF o, z, a, b, c, roles, blob
  <1>7. (o \o z) \in File /\ Len(o \o z) # 0 /\ (o \o z)[1] = 0
    BY <1>4, <1>5, FirstByte
  <1>8. (o \o z \o a) \in File /\ Len(o \o z \o a) # 0 /\ (o \o z \o a)[1] = 0
    BY <1>4, <1>7, FirstByte
  <1>9. (o \o z \o a \o b) \in File /\ Len(o \o z \o a \o b) # 0 /\ (o \o z \o a \o b)[1] = 0
    BY <1>4, <1>8, FirstByte
  <1>10. /\ (o \o z \o a \o b \o c) \in File /\ Len(o \o z \o a \o b \o c) # 0
         /\ (o \o z \o a \o b \o c)[1] = 0
    BY <1>4, <1>9, FirstByte
  <1>11. /\ (o \o z \o a \o b \o c \o roles) \in File /\ Len(o \o z \o a \o b \o c \o roles) # 0
         /\ (o \o z \o a \o b \o c \o roles)[1] = 0
    BY <1>3, <1>10, FirstByte
  <1>12. blob[1] = 0
    BY <1>6, <1>11, FirstByte
  <1>13. QED
    BY <1>12 DEF TypeOf, blob

(* The first byte of a node that has its tags by their ids.                *)
LEMMA MarkedFirst ==
  ASSUME NEW n \in 128 .. 143
  PROVE  Varint(n) \in File /\ Len(Varint(n)) # 0 /\ Varint(n)[1] >= 128
  <1>1. n \in Words /\ n \in Nat
    BY SMT DEF Words, WordEnd
  <1>2. Groups(n) \in 1 .. 4
    <2>1. Groups(n) \in 0 .. 4
      BY GroupsFacts
    <2>2. n < 128 ^ (Groups(n) + 1)
      BY <1>1, GroupsSuffice
    <2>3. 128 ^ (0 + 1) = 128
      BY SMT
    <2>4. Groups(n) # 0
      <3>1. SUFFICES ASSUME Groups(n) = 0 PROVE FALSE
        OBVIOUS
      <3>2. n < 128
        BY <2>2, <2>3, <3>1
      <3>3. QED
        BY <3>2
    <2>5. QED
      BY <2>1, <2>4
  <1> DEFINE q == n \div 128 ^ (Groups(n) + 1 - 1)
  <1>3. /\ Varint(n) \in File /\ Len(Varint(n)) = Groups(n) + 1
        /\ \A i \in 1 .. Groups(n) + 1 :
              Varint(n)[i] = ((n \div 128 ^ (Groups(n) + 1 - i)) % 128)
                             + (IF i <= Groups(n) THEN 128 ELSE 0)
    BY <1>1, VarintBytes
  <1>4. Varint(n)[1] = (q % 128) + 128
    <2>1. 1 \in 1 .. Groups(n) + 1 /\ 1 <= Groups(n)
      BY <1>2
    <2>2. Varint(n)[1] = (q % 128) + (IF 1 <= Groups(n) THEN 128 ELSE 0)
      BY <1>3, <2>1
    <2>3. QED
      BY <2>1, <2>2
  <1>5. q \in Nat
    <2>1. Groups(n) + 1 - 1 \in 0 .. 4
      BY <1>2
    <2>2. 128 ^ (Groups(n) + 1 - 1) \in Fours
      BY <2>1, FiveGroups
    <2>3. QED
      BY <1>1, <2>2, DivIsNat
  <1> HIDE DEF q
  <1>6. (q % 128) + 128 >= 128
    BY <1>5
  <1>7. QED
    BY <1>2, <1>3, <1>4, <1>6

(* A node has one of the two forms of a first byte.                        *)
LEMMA TypeOfNode ==
  ASSUME NEW e \in Elements, Data[e].kind = "node",
         values \in GoodPools, literals \in GoodPools
  PROVE  TypeOf(NodeBlob(Data[e]).blob) = "node"
  <1> DEFINE d == Data[e]
             tags == Stored(d.tags)
             fields == FieldsOf(d)
             n == Len(fields)
             ids == FieldIds(fields).ids
             blob == NodeBlob(d).blob
  <1>1. d.id \in Int /\ fields \in Seq(AllFields) /\ n \in Nat
    <2>1. d.id \in Int /\ fields \in Seq(AllFields)
      BY ElementConstants, FieldsOfElement
    <2> HIDE DEF fields
    <2>2. QED
      BY <2>1, LenProperties
  <1>2. CASE Len(tags) = 1 /\ tags[1] \in DOMAIN SingleInlined
    <2> DEFINE h == 128 + SingleInlined[tags[1]]
               z == SignedVarint(d.id, WordBits)
    <2>1. blob = <<h>> \o z
      BY <1>2 DEF NodeBlob
    <2>2. SingleInlined[tags[1]] \in 1 .. 7
      BY <1>2, ElementConstants
    <2>3. h \in Byte /\ h >= 128
      <3> DEFINE k == SingleInlined[tags[1]]
      <3>1. k \in 1 .. 7
        BY <2>2
      <3> HIDE DEF k
      <3>2. 128 + k \in Byte /\ 128 + k >= 128
        BY <3>1 DEF Byte
      <3>3. QED
        BY <3>2 DEF k
    <2>4. z \in File
      BY <1>1, SignedIsShort
    <2> HIDE DEF h, z, blob
    <2>5. <<h>> \in File /\ Len(<<h>>) # 0 /\ <<h>>[1] = h
      BY <2>3, OneByte
    <2>6. blob[1] = h
      BY <2>1, <2>4, <2>5, FirstByte
    <2>7. QED
      BY <2>3, <2>6 DEF TypeOf, blob
  <1>3. CASE ~ (Len(tags) = 1 /\ tags[1] \in DOMAIN SingleInlined)
    <2> DEFINE head == IF n < 15 THEN Varint(128 + n) ELSE Varint(128 + 15) \o Varint(n)
               rest == VarintsOf(ids)
    <2>1. blob = head \o rest
      BY <1>3 DEF NodeBlob
    <2>2. ids \in Seq(Nat)
      <3> HIDE DEF fields
      <3>1. QED
        BY <1>1, FieldIdsAreGood
    <2>3. rest \in File
      <3> HIDE DEF ids
      <3>1. ids \in Seq(Int)
        BY <2>2
      <3>2. QED
        BY <3>1, VarintsAreBytes
    <2> HIDE DEF ids, rest, n, blob
    <2>4. head \in File /\ Len(head) # 0 /\ head[1] >= 128
      <3>1. CASE n < 15
        <4>1. \A l \in Nat : l < 15 => 128 + l \in 128 .. 143
          OBVIOUS
        <4>2. 128 + n \in 128 .. 143
          BY <1>1, <3>1, <4>1
        <4>3. QED
          BY <3>1, <4>2, MarkedFirst
      <3>2. CASE ~ (n < 15)
        <4>1. 128 + 15 \in 128 .. 143
          OBVIOUS
        <4> DEFINE m == 128 + 15
                   v == Varint(m)
        <4>2. v \in File /\ Len(v) # 0 /\ v[1] >= 128
          BY <4>1, MarkedFirst
        <4>3. Varint(n) \in File
          BY <1>1, VarintBytes
        <4>4. head = v \o Varint(n)
          BY <3>2
        <4> HIDE DEF v, head
        <4>5. QED
          BY <4>2, <4>3, <4>4, FirstByte
      <3>3. QED
        BY <3>1, <3>2
    <2> HIDE DEF head
    <2>5. blob[1] = head[1]
      BY <2>1, <2>3, <2>4, FirstByte
    <2>6. QED
      BY <2>4, <2>5 DEF TypeOf, blob
  <1>4. QED
    BY <1>2, <1>3

(* What the viewer reads out of the bytes of a way and its box.            *)
LEMMA WayRead ==
  ASSUME NEW e \in Elements, Data[e].kind = "way", HasPlace(Data[e]), PlacesKept,
         ToSet(Data[e].members) \subseteq DOMAIN cache, values \in GoodPools
  PROVE  LET box == BoxFor(Data[e])
         IN  WayPoints(WayBlob(Data[e], box).blob, box) = PlacesOf(Data[e])
  <1> DEFINE d == Data[e]
             box == BoxFor(d)
             n == Len(d.members)
             ps == PlacesOf(d)
             blobs == FieldBlobs(FieldsOf(d)).blobs
             ss == [i \in 1 .. n |-> Varint(AbsDiff(box.x, ps[i][1]))
                                     \o Varint(AbsDiff(box.y, ps[i][2]))]
             blob == WayBlob(d, box).blob
  <1>1. /\ n \in Nat /\ n < WordEnd /\ DOMAIN d.members = 1 .. n /\ d.id \in Int
        /\ ps \in Seq(Points) /\ Len(ps) = n
        /\ \A i \in 1 .. n : /\ d.members[i] \in Elements /\ Data[d.members[i]].kind = "node"
                             /\ ps[i] = Data[d.members[i]].at /\ ps[i] \in Points
    BY WayFacts
  <1>2. \A i \in 1 .. n : cache[d.members[i]] = FromPoint(ps[i][1], ps[i][2])
    <2>1. \A i \in 1 .. n : d.members[i] \in DOMAIN cache
      BY <1>1 DEF ToSet
    <2>2. QED
      BY <1>1, <2>1 DEF PlacesKept
  <1>3. n # 0 => box \in BoxRecords /\ \A i \in 1 .. n : Includes(box, ps[i])
    <2>1. SUFFICES ASSUME n # 0 PROVE box \in BoxRecords /\ \A i \in 1 .. n : Includes(box, ps[i])
      OBVIOUS
    <2>2. d.members # <<>>
      <3>1. Len(<<>>) = 0
        BY EmptySeq
      <3>2. QED
        BY <2>1, <3>1
    <2>3. QED
      BY <2>2, BoxOfWay
  <1>4. Corners(d, box) = FlattenSeq(ss)
    <2> HIDE DEF ps, box, n
    <2> DEFINE raw == [i \in DOMAIN d.members |-> Varint(AbsDiff(box.x, cache[d.members[i]].x))
                                                  \o Varint(AbsDiff(box.y, cache[d.members[i]].y))]
    <2>1. Corners(d, box) = FlattenSeq(raw)
      BY DEF Corners
    <2>2. \A i \in 1 .. n : cache[d.members[i]].x = ps[i][1] /\ cache[d.members[i]].y = ps[i][2]
      <3>1. \A x, y : FromPoint(x, y).x = x /\ FromPoint(x, y).y = y
        BY DEF FromPoint, Box
      <3>2. QED
        BY <1>2, <3>1
    <2>3. raw = ss
      BY <1>1, <2>2
    <2> HIDE DEF raw, ss
    <2>4. QED
      BY <2>1, <2>3
  <1> DEFINE o == <<64>>
             zz == ZigZag(d.id, WordBits)
             z == Varint(zz)
             c == Varint(n)
             f == FlattenSeq(ss)
             m == Varint(Len(blobs))
             g == FlattenSeq(blobs)
             r3 == m \o g
             r2 == f \o r3
             r1 == c \o r2
  <1>5. blob = ((((o \o z) \o c) \o f) \o m) \o g
    <2>1. blob = <<64>> \o SignedVarint(d.id, WordBits) \o Varint(n) \o Corners(d, box)
                    \o Varint(Len(blobs)) \o FlattenSeq(blobs)
      BY DEF WayBlob
    <2> HIDE DEF blob, blobs, box, n, ss
    <2>2. QED
      BY <1>4, <2>1 DEF SignedVarint
  <1>6. blobs \in Seq(File)
    <2> DEFINE fields == FieldsOf(d)
               made == FieldBlobs(fields)
    <2>1. fields \in Seq(AllFields)
      BY FieldsOfElement
    <2> HIDE DEF fields
    <2>2. made \in MadeFields
      BY <2>1, FieldBlobsAreGood
    <2> HIDE DEF made
    <2>3. made.blobs \in Seq(Blobs)
      BY <2>2 DEF MadeFields
    <2>4. \A x \in Blobs : x \in File
      BY DEF Blobs
    <2>5. made.blobs \in Seq(File)
      <3> DEFINE bs == made.blobs
      <3>1. bs \in Seq(Blobs)
        BY <2>3
      <3> HIDE DEF bs
      <3>2. bs \in Seq(File)
        BY <2>4, <3>1
      <3>3. QED
        BY <3>2 DEF bs
    <2>6. QED
      BY <2>5 DEF made, fields
  <1> HIDE DEF box, ps, blobs, blob, n
  <1>7. \A i \in 1 .. n : /\ ss[i] \in File
                          /\ \A r \in File : ReadCorner(ss[i] \o r, box) = <<ps[i], r>>
    <2>1. SUFFICES ASSUME NEW i \in 1 .. n
                   PROVE  /\ ss[i] \in File
                          /\ \A r \in File : ReadCorner(ss[i] \o r, box) = <<ps[i], r>>
      OBVIOUS
    <2> DEFINE p == ps[i]
    <2>2. box \in BoxRecords /\ p \in Points /\ Includes(box, p)
      BY <1>1, <1>3
    <2>3. ss[i] = Varint(AbsDiff(box.x, p[1])) \o Varint(AbsDiff(box.y, p[2]))
      OBVIOUS
    <2> HIDE DEF p, ss
    <2>4. \A r \in File : ReadCorner(ss[i] \o r, box) = <<p, r>>
      BY <2>2, <2>3, CornerRead
    <2>5. ss[i] \in File
      <3>1. <<>> \in File
        BY EmptySeq DEF File
      <3>2. QED
        BY <2>2, <2>3, <3>1, CornerRead
    <2>6. QED
      BY <2>4, <2>5 DEF p
  <1>8. ss \in Seq(File) /\ Len(ss) = n
    <2>1. ss \in [1 .. n -> File]
      BY <1>7
    <2> HIDE DEF ss
    <2>2. QED
      BY <1>1, <2>1, IsSeq
  <1>9. zz \in Nat
    BY <1>1, ZigZagIsNat
  <1> HIDE DEF ss, zz
  <1>10. o \in File /\ z \in File /\ c \in File /\ f \in File /\ m \in File /\ g \in File
    <2>1. o \in File
      BY OneByte DEF Byte
    <2>2. z \in File /\ c \in File
      BY <1>1, <1>9, VarintBytes
    <2>3. f \in File /\ g \in File
      BY <1>6, <1>8, FlatType DEF File
    <2>4. m \in File
      <3> DEFINE k == Len(blobs)
      <3>1. k \in Nat
        BY <1>6, LenProperties
      <3> HIDE DEF k
      <3>2. Varint(k) \in File
        BY <3>1, VarintBytes
      <3>3. QED
        BY <3>2 DEF k
    <2>5. QED
      BY <2>1, <2>2, <2>3, <2>4
  <1>11. o[1] = 64 /\ Len(o) # 0
    OBVIOUS
  <1>12. \A t : t \in File => <<64>> \o t = o \o t
    OBVIOUS
  <1> HIDE DEF o, z, c, f, m, g
  <1>13. r3 \in File /\ r2 \in File /\ r1 \in File /\ z \o r1 \in File
    <2>1. r3 \in File
      BY <1>10, FileConcat
    <2> HIDE DEF r3
    <2>2. r2 \in File
      BY <1>10, <2>1, FileConcat
    <2> HIDE DEF r2
    <2>3. r1 \in File
      BY <1>10, <2>2, FileConcat
    <2> HIDE DEF r1
    <2>4. QED
      BY <1>10, <2>1, <2>2, <2>3, FileConcat DEF r1, r2, r3
  <1>14. blob = o \o (z \o r1)
    <2> DEFINE oz == o \o z
               ozc == oz \o c
    <2>1. oz \in File
      BY <1>10, FileConcat
    <2>2. ozc \in File
      <3> HIDE DEF oz
      <3>1. QED
        BY <1>10, <2>1, FileConcat
    <2>3. ((ozc \o f) \o m) \o g = (ozc \o f) \o r3
      <3>1. ozc \o f \in File
        <4> HIDE DEF ozc
        <4>1. QED
          BY <1>10, <2>2, FileConcat
      <3> DEFINE x == ozc \o f
      <3> HIDE DEF x
      <3>2. Associates(x, m, g)
        BY <1>10, <3>1, FilesAssociate DEF x
      <3>3. QED
        BY <3>2 DEF Associates, x
    <2>4. (ozc \o f) \o r3 = ozc \o r2
      <3> HIDE DEF ozc
      <3>1. Associates(ozc, f, r3)
        BY <1>10, <1>13, <2>2, FilesAssociate
      <3>2. QED
        BY <3>1 DEF Associates
    <2>5. (oz \o c) \o r2 = oz \o r1
      <3> HIDE DEF oz
      <3>1. Associates(oz, c, r2)
        BY <1>10, <1>13, <2>1, FilesAssociate
      <3>2. QED
        BY <3>1 DEF Associates
    <2>6. (o \o z) \o r1 = o \o (z \o r1)
      <3>1. Associates(o, z, r1)
        BY <1>10, <1>13, FilesAssociate
      <3>2. QED
        BY <3>1 DEF Associates
    <2>7. blob = ((ozc \o f) \o m) \o g
      BY <1>5
    <2> HIDE DEF r1, r2, r3
    <2>8. QED
      BY <2>3, <2>4, <2>5, <2>6, <2>7
  <1> HIDE DEF r1, r2, r3
  <1>15. TypeOf(blob) = "way"
    <2> DEFINE t == z \o r1
    <2>1. t \in File /\ blob = o \o t
      BY <1>13, <1>14
    <2> HIDE DEF t
    <2>2. blob[1] = 64
      BY <1>10, <1>11, <2>1, FirstByte
    <2>3. QED
      BY <2>2 DEF TypeOf
  <1>16. Tail(blob) = z \o r1
    <2> DEFINE t == z \o r1
    <2>1. t \in File /\ blob = <<64>> \o t /\ 64 \in Byte
      BY <1>13, <1>14 DEF o, Byte
    <2> HIDE DEF t
    <2>2. Tail(<<64>> \o t) = t
      BY <2>1, NextRead
    <2>3. QED
      BY <2>1, <2>2 DEF t
  <1>17. ReadSigned(z \o r1, WordBits) = <<UnZigZag(zz % WordEnd, WordBits), r1>>
    <2>1. ReadVarint(z \o r1) = <<zz % WordEnd, r1>>
      BY <1>9, <1>13, VarintRead DEF z
    <2> DEFINE t == z \o r1
    <2>2. ReadVarint(t)[1] = zz % WordEnd /\ ReadVarint(t)[2] = r1
      BY <2>1
    <2> HIDE DEF t
    <2>3. ReadSigned(t, WordBits) = <<UnZigZag(zz % WordEnd, WordBits), r1>>
      BY <2>2 DEF ReadSigned, Then
    <2>4. QED
      BY <2>3 DEF t
  <1>18. ReadVarint(r1) = <<n, r2>>
    <2>1. ReadVarint(Varint(n) \o r2) = <<n % WordEnd, r2>>
      BY <1>1, <1>13, VarintRead
    <2>2. n % WordEnd = n
      BY <1>1, WordFits
    <2>3. QED
      BY <2>1, <2>2 DEF r1, c
  <1>19. CornersIn(r2, n, box) = <<ps, r3>>
    <2>1. Len(ps) = n /\ Len(ss) = Len(ps)
      BY <1>1, <1>8
    <2>2. \A i \in 1 .. Len(ps), r \in File : ReadCorner(ss[i] \o r, box) = <<ps[i], r>>
      BY <1>7, <2>1
    <2>3. ps \in Seq(Points) /\ ss \in Seq(File) /\ r3 \in File
      BY <1>1, <1>8, <1>13
    <2>4. CornersIn(FlattenSeq(ss) \o r3, Len(ps), box) = <<ps, r3>>
      BY <2>1, <2>2, <2>3, CornersRead
    <2>5. QED
      BY <2>1, <2>4 DEF r2, f
  <1>20. ReadWay(blob, box) = <<ps, r3>>
    <2> DEFINE t == Tail(blob)
               u == ReadSigned(t, WordBits)
               v == ReadVarint(u[2])
    <2>1. ReadWay(blob, box) = CornersIn(v[2], v[1], box)
      BY DEF ReadWay, Then, CornersIn
    <2>2. u[2] = r1
      <3>1. u = <<UnZigZag(zz % WordEnd, WordBits), r1>>
        BY <1>16, <1>17
      <3> HIDE DEF u
      <3>2. QED
        BY <3>1
    <2> HIDE DEF u
    <2>3. v = <<n, r2>>
      BY <1>18, <2>2
    <2> HIDE DEF v
    <2>4. QED
      BY <1>19, <2>1, <2>3
  <1>21. WayPoints(blob, box) = ps
    BY <1>15, <1>20 DEF WayPoints
  <1>22. QED
    BY <1>21 DEF blob, ps, box

(* PointsInBytes: PointsRead without the tree.  Out of the bytes and the   *)
(* box of each element as it was stored, the viewer reads the corners of   *)
(* the nodes of a way in their order, and none of a node or a relation.    *)
PointsInBytes ==
    \A e \in DOMAIN written :
       LET d == Data[e]
           w == written[e]
       IN (d.kind = "way" => HasPlace(d))
          => WayPoints(w.blob, w.box) = IF d.kind = "way" THEN PlacesOf(d) ELSE <<>>

WrittenKept == DOMAIN written \subseteq Elements /\ PointsInBytes

(* Whatever the element, its points are in its bytes and its box.          *)
LEMMA BytesHavePoints ==
  ASSUME NEW e \in Elements, values \in GoodPools, literals \in GoodPools, PlacesKept,
         ToSet(Data[e].members) \subseteq DOMAIN cache,
         Data[e].kind = "way" => HasPlace(Data[e])
  PROVE  WayPoints(Blob(Data[e], BoxFor(Data[e])).blob, BoxFor(Data[e]))
           = IF Data[e].kind = "way" THEN PlacesOf(Data[e]) ELSE <<>>
  <1> DEFINE box == BoxFor(Data[e])
  <1>1. Data[e].kind \in {"node", "way", "relation"}
    BY ElementConstants
  <1>2. CASE Data[e].kind = "way"
    <2>1. Blob(Data[e], box) = WayBlob(Data[e], box)
      BY <1>2 DEF Blob
    <2>2. WayPoints(WayBlob(Data[e], box).blob, box) = PlacesOf(Data[e])
      BY <1>2, WayRead
    <2> HIDE DEF box
    <2>3. QED
      BY <1>2, <2>1, <2>2 DEF box
  <1>3. CASE Data[e].kind = "node"
    <2>1. Blob(Data[e], box) = NodeBlob(Data[e])
      BY <1>3 DEF Blob
    <2>2. TypeOf(NodeBlob(Data[e]).blob) = "node"
      BY <1>3, TypeOfNode
    <2> HIDE DEF box
    <2>3. QED
      BY <1>3, <2>1, <2>2 DEF WayPoints, box
  <1>4. CASE Data[e].kind = "relation"
    <2>1. Blob(Data[e], box) = RelationBlob(Data[e])
      BY <1>4 DEF Blob
    <2>2. TypeOf(RelationBlob(Data[e]).blob) = "relation"
      BY <1>4, TypeOfRelation
    <2> HIDE DEF box
    <2>3. QED
      BY <1>4, <2>1, <2>2 DEF WayPoints, box
  <1>5. QED
    BY <1>1, <1>2, <1>3, <1>4

(* A node comes to the cache with the box of its place, and stays.         *)
LEMMA PlacesStayKept == PlacesKept /\ [Next]_vars => PlacesKept'
  <1>1. SUFFICES ASSUME PlacesKept, [Next]_vars PROVE PlacesKept'
    OBVIOUS
  <1>2. ASSUME cache' = cache PROVE PlacesKept'
    BY <1>1, <1>2 DEF PlacesKept
  <1>3. ASSUME NEW e \in Elements, Remember(e) PROVE PlacesKept'
    <2>1. cache' = [f \in DOMAIN cache \cup {e} |-> IF f = e THEN BoxFor(Data[e]) ELSE cache[f]]
      BY <1>3 DEF Remember
    <2>2. Data[e].kind = "node" => BoxFor(Data[e]) = FromPoint(Data[e].at[1], Data[e].at[2])
      BY DEF BoxFor
    <2> DEFINE box == BoxFor(Data[e])
    <2>3. cache' = [f \in DOMAIN cache \cup {e} |-> IF f = e THEN box ELSE cache[f]]
      BY <2>1
    <2>4. Data[e].kind = "node" => box = FromPoint(Data[e].at[1], Data[e].at[2])
      BY <2>2
    <2> HIDE DEF box
    <2>5. QED
      BY <1>1, <2>3, <2>4 DEF PlacesKept
  <1>4. CASE Next
    <2>1. \A e \in Elements : WriteEmptyNode(e) \/ Write(e) => Remember(e)
      BY DEF WriteEmptyNode, Write
    <2>2. Rerun \/ (\E e \in DOMAIN written : ReadTags(e)) => cache' = cache
      BY DEF Rerun, ReadTags
    <2>3. QED
      BY <1>2, <1>3, <1>4, <2>1, <2>2 DEF Next
  <1>5. CASE UNCHANGED vars
    BY <1>2, <1>5 DEF vars
  <1>6. QED
    BY <1>1, <1>4, <1>5

(* What is written once is not written again.                              *)
LEMMA WrittenStaysKept ==
  PoolsGood /\ PlacesKept /\ WrittenKept /\ [Next]_vars => WrittenKept'
  <1>1. SUFFICES ASSUME PoolsGood, PlacesKept, WrittenKept, [Next]_vars PROVE WrittenKept'
    OBVIOUS
  <1>2. ASSUME written' = written PROVE WrittenKept'
    BY <1>1, <1>2 DEF WrittenKept, PointsInBytes
  <1>3. ASSUME NEW e \in Elements, Write(e) PROVE WrittenKept'
    <2>1. reads = 0 /\ literals \in GoodPools /\ values \in GoodPools
      BY <1>1, <1>3 DEF Write, Remember, PoolsGood
    <2>2. ToSet(Data[e].members) \subseteq DOMAIN cache
      BY <1>3 DEF Write, Remember
    <2> DEFINE box == BoxFor(Data[e])
               w == [box |-> box, blob |-> Blob(Data[e], box).blob]
    <2>3. written' = [f \in DOMAIN written \cup {e} |-> IF f = e THEN w ELSE written[f]]
      BY <1>3 DEF Write
    <2>4. (Data[e].kind = "way" => HasPlace(Data[e]))
             => WayPoints(w.blob, w.box) = IF Data[e].kind = "way" THEN PlacesOf(Data[e]) ELSE <<>>
      <3>1. SUFFICES ASSUME Data[e].kind = "way" => HasPlace(Data[e])
                     PROVE  WayPoints(w.blob, w.box)
                              = IF Data[e].kind = "way" THEN PlacesOf(Data[e]) ELSE <<>>
        OBVIOUS
      <3>2. w.blob = Blob(Data[e], box).blob /\ w.box = box
        OBVIOUS
      <3> HIDE DEF w
      <3>3. QED
        BY <1>1, <2>1, <2>2, <3>1, <3>2, BytesHavePoints
    <2> HIDE DEF w
    <2>5. DOMAIN written \subseteq Elements
      BY <1>1 DEF WrittenKept
    <2>6. \A f \in DOMAIN written :
            (Data[f].kind = "way" => HasPlace(Data[f]))
               => WayPoints(written[f].blob, written[f].box)
                    = IF Data[f].kind = "way" THEN PlacesOf(Data[f]) ELSE <<>>
      BY <1>1 DEF WrittenKept, PointsInBytes
    <2>7. \A f \in DOMAIN written' :
            (Data[f].kind = "way" => HasPlace(Data[f]))
               => WayPoints(written'[f].blob, written'[f].box)
                    = IF Data[f].kind = "way" THEN PlacesOf(Data[f]) ELSE <<>>
      BY <2>3, <2>4, <2>6
    <2>8. DOMAIN written' \subseteq Elements
      BY <2>3, <2>5
    <2>9. QED
      BY <2>7, <2>8 DEF WrittenKept, PointsInBytes
  <1>4. ASSUME NEW e \in Elements, WriteEmptyNode(e) PROVE written' = written
    BY <1>4 DEF WriteEmptyNode
  <1>5. ASSUME NEW e \in DOMAIN written, ReadTags(e) PROVE written' = written
    BY <1>5 DEF ReadTags
  <1>6. ASSUME Rerun PROVE written' = written
    BY <1>6 DEF Rerun
  <1>7. CASE UNCHANGED vars
    BY <1>2, <1>7 DEF vars
  <1>8. QED
    BY <1>1, <1>2, <1>3, <1>4, <1>5, <1>6, <1>7 DEF Next

(* WayPointsRead: the corners that serialize_way wrote, as distances from  *)
(* the box that from_iter made around the nodes, are read as the places    *)
(* of the nodes, for every width of a coordinate.                          *)
THEOREM WayPointsRead == Spec => []PointsInBytes
  <1>1. Spec => []PoolsGood
    BY PoolsGoodAtFirst, PoolsStayGood, PTL DEF Spec
  <1>2. Init => PlacesKept /\ WrittenKept
    <2>1. SUFFICES ASSUME Init PROVE DOMAIN cache = {} /\ DOMAIN written = {}
      BY DEF PlacesKept, WrittenKept, PointsInBytes
    <2>2. QED
      BY <2>1 DEF Init
  <1>3. Spec => []PlacesKept
    BY <1>2, PlacesStayKept, PTL DEF Spec
  <1>4. Spec => []WrittenKept
    BY <1>1, <1>2, <1>3, WrittenStaysKept, PTL DEF Spec
  <1>5. WrittenKept => PointsInBytes
    BY DEF WrittenKept
  <1>6. QED
    BY <1>4, <1>5, PTL

=============================================================================
