------------------------------ MODULE Regions ------------------------------
(***************************************************************************)
(* The boxes and ranges the trees are made of: tree/src/bbox.rs for two    *)
(* dimensions, tree/src/point_range.rs for one, and the trait defaults of  *)
(* tree/src/tree_traits.rs that both replace.  A box is a record of its    *)
(* corners; where a box lies in a node is a key relative to the node's     *)
(* box, which has both coordinates in one number.                          *)
(***************************************************************************)
EXTENDS Integers, Sequences

CONSTANT W   \* bits of a coordinate: 32 in the code

ASSUME WidthOK == W \in Nat \ {0}

Coords == -(2 ^ (W - 1)) .. 2 ^ (W - 1) - 1

Box(x, y, xEnd, yEnd) == [x |-> x, y |-> y, xEnd |-> xEnd, yEnd |-> yEnd]

Boxes == {b \in [x : Coords, y : Coords, xEnd : Coords, yEnd : Coords] :
            b.x <= b.xEnd /\ b.y <= b.yEnd}

(* avg of two integers, which rounds down: (a & b) + ((a ^ b) >> 1). *)
Avg(a, b) == (a + b) \div 2

AbsDiff(a, b) == IF a < b THEN b - a ELSE a - b

(* wrapping_add_unsigned *)
WrappingAdd(a, d) ==
    LET half == 2 ^ (W - 1) IN ((a + d + half) % (2 * half)) - half

-----------------------------------------------------------------------------
(* Boxes made of points. *)

FromPoint(x, y) == Box(x, y, x, y)

NoBox == Box(0, 0, 0, 0)   \* BoundingBox::empty

IsPoint(b) == b.x = b.xEnd /\ b.y = b.yEnd

Lower(a, b) == IF a < b THEN a ELSE b
Upper(a, b) == IF a < b THEN b ELSE a

(* A box around (0, 0) alone is taken for an empty one. *)
ExtendWithPoint(b, p) ==
    IF b = NoBox THEN FromPoint(p[1], p[2])
    ELSE Box(Lower(b.x, p[1]), Lower(b.y, p[2]),
             Upper(b.xEnd, p[1]), Upper(b.yEnd, p[2]))

(* from_iter over points: the first one starts the box. *)
BoxOfPoints(points) ==
    LET after[i \in 0 .. Len(points)] ==
          IF i = 0 THEN NoBox
          ELSE IF i = 1 THEN FromPoint(points[1][1], points[1][2])
          ELSE ExtendWithPoint(after[i - 1], points[i])
    IN after[Len(points)]

(* from_iter over boxes goes through two corners of each. *)
BoxOfBoxes(boxes) ==
    BoxOfPoints([i \in 1 .. 2 * Len(boxes) |->
                   LET b == boxes[(i + 1) \div 2]
                   IN IF i % 2 = 1 THEN <<b.x, b.y>> ELSE <<b.xEnd, b.yEnd>>])

-----------------------------------------------------------------------------
(* Boxes as regions: they include their borders. *)

BoxContains(b, c) ==
    b.x <= c.x /\ b.y <= c.y /\ c.xEnd <= b.xEnd /\ c.yEnd <= b.yEnd

BoxOverlaps(b, c) ==
    /\ Upper(b.x, c.x) <= Lower(b.xEnd, c.xEnd)
    /\ Upper(b.y, c.y) <= Lower(b.yEnd, c.yEnd)

NextAxis(axis) == IF axis = "Long" THEN "Lat" ELSE "Long"
FirstAxis == "Lat"

(* split_on_axis: the halves share the line in the middle. *)
LeftHalf(b, axis) == IF axis = "Long" THEN [b EXCEPT !.yEnd = Avg(b.y, b.yEnd)]
                     ELSE [b EXCEPT !.xEnd = Avg(b.x, b.xEnd)]
RightHalf(b, axis) == IF axis = "Long" THEN [b EXCEPT !.y = Avg(b.y, b.yEnd)]
                      ELSE [b EXCEPT !.x = Avg(b.x, b.xEnd)]

(* split_enclosed_in_side as the trait has it, for boxes and for keys. *)
SideByHalves(b, axis, c) ==
    IF BoxContains(LeftHalf(b, axis), c) THEN <<"Left", LeftHalf(b, axis)>>
    ELSE IF BoxContains(RightHalf(b, axis), c) THEN <<"Right", RightHalf(b, axis)>>
    ELSE <<"Split", b>>

(* ... and as BoundingBox does it, by one coordinate. *)
SideByMiddle(b, axis, c) ==
    LET first == IF axis = "Long" THEN c.y ELSE c.x
        last == IF axis = "Long" THEN c.yEnd ELSE c.xEnd
        middle == IF axis = "Long" THEN Avg(b.y, b.yEnd) ELSE Avg(b.x, b.xEnd)
    IN IF last <= middle THEN <<"Left", LeftHalf(b, axis)>>
       ELSE IF first >= middle THEN <<"Right", RightHalf(b, axis)>>
       ELSE <<"Split", b>>

-----------------------------------------------------------------------------
(* Ranges <<first, last>>, which include their ends, and their keys. *)

RangeContains(r, s) == r[1] <= s[1] /\ s[2] <= r[2]
RangeOverlaps(r, s) == Upper(r[1], s[1]) < Lower(r[2], s[2])
HasKey(r, k) == r[1] <= k /\ k <= r[2]

LeftRange(r) == <<r[1], Avg(r[1], r[2])>>
RightRange(r) == <<Avg(r[1], r[2]), r[2]>>

(* split_enclosed_in_side of a range: the names of the sides are swapped. *)
RangeSide(r, s) ==
    IF s[1] >= Avg(r[1], r[2]) THEN <<"Left", LeftRange(r)>>
    ELSE IF s[2] <= Avg(r[1], r[2]) THEN <<"Right", RightRange(r)>>
    ELSE <<"Split", r>>

(* parent_split_enclosed_in_side of a key. *)
KeySide(r, k) ==
    IF k <= Avg(r[1], r[2]) THEN <<"Left", LeftRange(r)>>
    ELSE <<"Right", RightRange(r)>>

-----------------------------------------------------------------------------
(* Keys relative to a node's box. *)

(* Bit i of a number *)
Bit(n, i) == (n \div 2 ^ i) % 2

(* lutmorton: bit i of x becomes bit 2i, bit i of y becomes bit 2i + 1. *)
Morton(x, y) ==
    LET upTo[i \in 0 .. W] ==
          IF i = 0 THEN 0
          ELSE upTo[i - 1] + 4 ^ (i - 1) * Bit(x, i - 1) + 2 * 4 ^ (i - 1) * Bit(y, i - 1)
    IN upTo[W]

Unmorton(xy) ==
    LET every2nd(n) ==
          LET upTo[i \in 0 .. W] ==
                IF i = 0 THEN 0
                ELSE upTo[i - 1] + 2 ^ (i - 1) * Bit(n, 2 * i - 2)
          IN upTo[W]
    IN <<every2nd(xy), every2nd(xy \div 2)>>

(* interior_delta: c lies in b. *)
InteriorDelta(c, b) ==
    [xy |-> Morton(AbsDiff(c.x, b.x), AbsDiff(c.y, b.y)),
     width |-> AbsDiff(c.x, c.xEnd), height |-> AbsDiff(c.y, c.yEnd)]

(* absolute: a sum out of range panics, which leaves no box. *)
Absolute(delta, b) ==
    LET p == Unmorton(delta.xy)
        at(x, y) == Box(x, y, x + delta.width, y + delta.height)
    IN at(b.x + p[1], b.y + p[2])

(* Keys are compared by their corner only. *)
SameKey(d, e) == d.xy = e.xy
KeyLess(d, e) == d.xy < e.xy

(* delta_friendly_offset and back *)
OffsetFrom(d, initial) == [d EXCEPT !.xy = d.xy - initial.xy]
AfterOffset(o, initial) == [o EXCEPT !.xy = o.xy + initial.xy]

FirstKey == [xy |-> 0, width |-> 0, height |-> 0]
=============================================================================
