------------------------------- MODULE Codecs -------------------------------
(***************************************************************************)
(* How storage/ turns values into bytes and back: integers of variable     *)
(* length, packed strings, literal values and boxes.  A writer is a        *)
(* sequence of bytes; a reader takes the bytes from where it stands and    *)
(* gives <<what it read, the bytes after it>>.  Reading past the end ends  *)
(* the reading: the code returns an error there.                           *)
(*                                                                         *)
(* A string is the sequence of its UTF-8 bytes.                            *)
(***************************************************************************)
EXTENDS Regions, SequencesExt

(* Bits of the words modelled: 64 in the code.  4 * 7, so that the longest *)
(* integers have the redundant first byte.                                 *)
WordBits == 28

Ended == <<0, <<>>>>   \* UnexpectedEof

Next1(bytes) == IF bytes = <<>> THEN Ended ELSE <<Head(bytes), Tail(bytes)>>

After(bytes, k) == SubSeq(bytes, k + 1, Len(bytes))
UpTo(bytes, k) == SubSeq(bytes, 1, Lower(k, Len(bytes)))

(* A reader goes on with what another one read and left. *)
Then(read, F(_, _)) == F(read[1], read[2])

(* k values one after another. *)
Repeated(Read(_), bytes, k) ==
    LET read[n \in 0 .. k] ==
          IF n = 0 THEN <<<<>>, bytes>>
          ELSE Then(read[n - 1], LAMBDA values, left :
               Then(Read(left), LAMBDA value, rest : <<Append(values, value), rest>>))
    IN read[k]

-----------------------------------------------------------------------------
(* varint.rs: groups of 7 bits, the highest first, each but the last with  *)
(* its high bit set.  A length that is a multiple of 7 starts with a group *)
(* of zeros.                                                               *)

(* How often 7 bits go into the length of n. *)
Groups(n) == Max({g \in 0 .. WordBits \div 7 : g = 0 \/ 2 ^ (7 * g - 1) <= n})

Varint(n) ==
    LET g == Groups(n)
    IN [i \in 1 .. g + 1 |-> ((n \div 128 ^ (g + 1 - i)) % 128)
                             + (IF i <= g THEN 128 ELSE 0)]

(* What the first n bytes add up to; what is shifted out of the word is    *)
(* gone.                                                                   *)
Accumulated(bytes, n) ==
    LET value[i \in 0 .. n] ==
          IF i = 0 THEN 0
          ELSE (value[i - 1] % 2 ^ (WordBits - 7)) * 128 + (bytes[i] % 128)
    IN value[n]

ReadVarint(bytes) ==
    LET n == SelectInSeq(bytes, LAMBDA b : b < 128)
    IN IF n = 0 THEN Ended ELSE <<Accumulated(bytes, n), After(bytes, n)>>

(* zigzag: the sign bit of a word of w bits moves to the end. *)
ZigZag(n, w) ==
    LET half == 2 ^ (w - 1)
        u == n % (2 * half)
    IN ((2 * u) % (2 * half)) + (u \div half)

UnZigZag(u, w) ==
    LET half == 2 ^ (w - 1)
        n == (u \div 2) + (u % 2) * half
    IN IF n < half THEN n ELSE n - 2 * half

SignedVarint(n, w) == Varint(ZigZag(n, w))
ReadSigned(bytes, w) ==
    Then(ReadVarint(bytes), LAMBDA u, rest : <<UnZigZag(u, w), rest>>)

-----------------------------------------------------------------------------
(* bbox.rs: the offset of a key from the one before it on the page.        *)

HasRoom(xy) == xy < 2 ^ (2 * W - 2)   \* leading_zeros() >= 2

(* Fault: the room for the two flags is not checked. *)
OffsetBytesPacked(o) ==
    LET point == o.width = 0 /\ o.height = 0
    IN Varint((4 * o.xy + (IF point THEN 2 ELSE 0) + 1) % 2 ^ (2 * W))
       \o (IF point THEN <<>> ELSE Varint(o.width) \o Varint(o.height))

OffsetBytes(o) ==
    LET point == o.width = 0 /\ o.height = 0
        flag == IF point THEN 2 ELSE 0
    IN (IF HasRoom(o.xy) THEN Varint(4 * o.xy + flag + 1)
        ELSE Varint(flag) \o Varint(o.xy))
       \o (IF point THEN <<>> ELSE Varint(o.width) \o Varint(o.height))

ReadOffset(bytes) ==
    Then(ReadVarint(bytes), LAMBDA flags, afterFlags :
    Then(IF flags % 2 = 1 THEN <<flags \div 4, afterFlags>>
         ELSE ReadVarint(afterFlags), LAMBDA xy, afterCorner :
      IF (flags \div 2) % 2 = 1
      THEN <<[xy |-> xy, width |-> 0, height |-> 0], afterCorner>>
      ELSE Then(ReadVarint(afterCorner), LAMBDA width, afterWidth :
           Then(ReadVarint(afterWidth), LAMBDA height, rest :
             <<[xy |-> xy, width |-> width, height |-> height], rest>>))))

(* A box by itself, as the root's is written. *)
BoxBytes(b) ==
    IF IsPoint(b) THEN <<0>> \o SignedVarint(b.x, W) \o SignedVarint(b.y, W)
    ELSE <<1>> \o SignedVarint(b.x, W) \o SignedVarint(b.y, W)
              \o SignedVarint(b.xEnd, W) \o SignedVarint(b.yEnd, W)

ReadPoint(bytes) ==
    Then(ReadSigned(bytes, W), LAMBDA x, afterX :
    Then(ReadSigned(afterX, W), LAMBDA y, rest : <<<<x, y>>, rest>>))

ReadBox(bytes) ==
    Then(Next1(bytes), LAMBDA flag, afterFlag :
    Then(ReadPoint(afterFlag), LAMBDA first, afterFirst :
      IF flag # 1 THEN <<FromPoint(first[1], first[2]), afterFirst>>
      ELSE Then(ReadPoint(afterFirst), LAMBDA last, rest :
             <<Box(first[1], first[2], last[1], last[2]), rest>>)))

-----------------------------------------------------------------------------
(* packed_string_serialization: the four-bit character sets.  The digits   *)
(* come first in each of them; 15 is the end.                              *)

Digits == [i \in 1 .. 10 |-> 47 + i]
NumericSet == Digits \o <<44, 45, 32, 47, 46>>      \* , - space / .
PhoneSet == Digits \o <<40, 41, 43, 32, 45>>        \* ( ) + space -
IdentifierSet == Digits \o <<81, 97, 98, 32, 46>>   \* Q a b space .
EndNibble == 15

InSet(s, set) == \A i \in DOMAIN s : s[i] \in ToSet(set)

CodeIn(set, char) == SelectInSeq(set, LAMBDA c : c = char) - 1

(* chunks_padded: an odd string is filled up with the end. *)
FourBits(s, set) ==
    LET code(i) == IF i > Len(s) THEN EndNibble ELSE CodeIn(set, s[i])
    IN [k \in 1 .. (Len(s) + 1) \div 2 |-> 16 * code(2 * k - 1) + code(2 * k)]

(* Reads until an end, which an even string does not have. *)
ReadFourBits(bytes, set) ==
    LET codes == [j \in 1 .. 2 * Len(bytes) |->
                    IF j % 2 = 1 THEN bytes[(j + 1) \div 2] \div 16
                    ELSE bytes[j \div 2] % 16]
        end == SelectInSeq(codes, LAMBDA code : code = EndNibble)
        string(n) == [j \in 1 .. n |-> set[codes[j] + 1]]
    IN IF end = 0 THEN <<string(2 * Len(bytes)), <<>>>>
       ELSE <<string(end - 1), After(bytes, (end + 1) \div 2)>>

(* The five-bit set: a-z : _ - / . space, of which fits_charset leaves out *)
(* the dash.  Three characters to two bytes, the last pair marked; what is *)
(* left over goes to a byte of its own and, for two, to the header.        *)
FiveBitSet == [i \in 1 .. 26 |-> 96 + i] \o <<58, 95, 45, 47, 46, 32>>

FitsFiveBits(s) == InSet(s, FiveBitSet) /\ 45 \notin ToSet(s)

\* Fault: the header gets no bits of the last character but one.
FiveBitHeaderBare(s) ==
    CASE Len(s) % 3 = 0 -> 0
      [] Len(s) % 3 = 1 -> IF Len(s) = 1 THEN 5 ELSE 4
      [] OTHER -> IF Len(s) = 2 THEN 12 ELSE 8

FiveBitHeader(s) ==
    CASE Len(s) % 3 = 0 -> 0
      [] Len(s) % 3 = 1 -> IF Len(s) = 1 THEN 5 ELSE 4
      [] OTHER -> (IF Len(s) = 2 THEN 12 ELSE 8)
                  + (CodeIn(FiveBitSet, s[Len(s) - 1]) \div 8)

FiveBits(s) ==
    LET code(i) == CodeIn(FiveBitSet, s[i])
        triples == Len(s) \div 3
        section(k) == 2048 * code(3 * k - 2) + 64 * code(3 * k - 1)
                      + 2 * code(3 * k) + (IF k = triples THEN 1 ELSE 0)
        remainder ==
          CASE Len(s) % 3 = 0 -> <<>>
            [] Len(s) % 3 = 1 -> <<s[Len(s)]>>
            [] OTHER -> <<((code(Len(s) - 1) % 8) * 32) + code(Len(s))>>
    IN FlattenSeq([k \in 1 .. triples |->
                 <<section(k) \div 256, section(k) % 256>>]) \o remainder

(* Reads until a marked pair of bytes. *)
ReadTriples(bytes) ==
    LET sections == [k \in 1 .. Len(bytes) \div 2 |->
                       bytes[2 * k - 1] * 256 + bytes[2 * k]]
        end == SelectInSeq(sections, LAMBDA section : section % 2 = 1)
        code(j) == (sections[(j + 2) \div 3] \div <<2048, 64, 2>>[((j - 1) % 3) + 1]) % 32
        string(k) == [j \in 1 .. 3 * k |-> FiveBitSet[code(j) + 1]]
    IN IF end = 0 THEN <<string(Len(sections)), <<>>>>
       ELSE <<string(end), After(bytes, 2 * end)>>

ReadFiveBits(header, bytes) ==
    Then(IF header \div 4 = 3 \/ header \in {1, 5} THEN <<<<>>, bytes>>
         ELSE ReadTriples(bytes), LAMBDA s, afterTriples :
    IF header \in {0, 1} THEN <<s, afterTriples>>
    ELSE Then(Next1(afterTriples), LAMBDA last, rest :
      IF header \in {4, 5} THEN <<Append(s, last), rest>>
      ELSE <<s \o <<FiveBitSet[(header % 4) * 8 + (last \div 32) + 1],
                    FiveBitSet[(last % 32) + 1]>>, rest>>))

-----------------------------------------------------------------------------
(* A string: its header byte, with extra in the top three bits, names the  *)
(* first packing of these that it fits.                                    *)

Ascii(s) == [s EXCEPT ![Len(s)] = @ + 128]

ReadAscii(bytes) ==
    LET n == SelectInSeq(bytes, LAMBDA b : b >= 128)
    IN IF n = 0 THEN Ended
       ELSE <<[SubSeq(bytes, 1, n) EXCEPT ![n] = @ - 128], After(bytes, n)>>

IsAscii(s) == \A i \in DOMAIN s : s[i] < 128

StringBytes(s, extra) ==
    IF s = <<>> THEN <<extra>>
    ELSE IF Len(s) = 1 /\ IsAscii(s) THEN <<extra + 8 + 4>> \o s
    ELSE IF InSet(s, NumericSet) THEN <<extra + 8 + 1>> \o FourBits(s, NumericSet)
    ELSE IF InSet(s, PhoneSet) THEN <<extra + 8>> \o FourBits(s, PhoneSet)
    ELSE IF InSet(s, IdentifierSet)
    THEN <<extra + 8 + 2>> \o FourBits(s, IdentifierSet)
    ELSE IF FitsFiveBits(s) THEN <<extra + 16 + FiveBitHeader(s)>> \o FiveBits(s)
    ELSE IF IsAscii(s) THEN <<extra + 1>> \o Ascii(s)
    ELSE <<extra + 2>> \o Varint(Len(s)) \o s

ReadString(header, bytes) ==
    LET kind == header % 8
    IN CASE (header \div 16) % 2 = 1 -> ReadFiveBits(header % 16, bytes)
         [] (header \div 8) % 4 = 1 /\ kind = 4 ->
              Then(Next1(bytes), LAMBDA char, rest : <<<<char>>, rest>>)
         [] (header \div 8) % 4 = 1 /\ kind # 4 ->
              ReadFourBits(bytes,
                           <<PhoneSet, NumericSet, IdentifierSet>>[kind + 1])
         [] (header \div 8) % 4 = 0 /\ kind = 0 -> <<<<>>, bytes>>
         [] (header \div 8) % 4 = 0 /\ kind = 1 -> ReadAscii(bytes)
         [] OTHER -> Then(ReadVarint(bytes), LAMBDA len, rest :
                            <<UpTo(rest, len), After(rest, len)>>)

(* Only a four-bit string of even length needs what comes after it. *)
EndsItself(s) ==
    ~(Len(s) > 1 /\ Len(s) % 2 = 0
      /\ (InSet(s, NumericSet) \/ InSet(s, PhoneSet) \/ InSet(s, IdentifierSet)))

-----------------------------------------------------------------------------
(* literal_value.rs: the value of a tag.  A literal is its variant and a   *)
(* sequence: the number, the characters, or which of the specific values.  *)

Number(n) == [t |-> "number", v |-> <<n>>]
Text(s) == [t |-> "text", v |-> s]

Tags == [t : {"number"}, v : [1 .. 1 -> Int]] \cup [t : {"text"}, v : Seq(0 .. 255)]

Yes == <<121, 101, 115>>
No == <<110, 111>>

LiteralOf(tag) ==
    LET lit(t, v) == [t |-> t, v |-> v]
        n == tag.v[1]
    IN CASE tag.t = "number" /\ n \in 0 .. 62 -> lit("TinyUNumber", <<n>>)
         [] tag.t = "number" /\ n \in -31 .. -1 -> lit("TinyINumber", <<n>>)
         [] tag.t = "number" /\ n > 62 -> lit("UInt", <<n>>)
         [] tag.t = "number" /\ n < -31 -> lit("IInt", <<n>>)
         [] tag = Text(<<>>) -> lit("Specific", <<0>>)
         [] tag = Text(No) -> lit("Specific", <<1>>)
         [] tag = Text(Yes) -> lit("Specific", <<2>>)
         [] tag.t = "text" /\ Len(tag.v) = 2 /\ InSet(tag.v, [i \in 1 .. 26 |-> 64 + i])
              -> lit("TwoUpperLatinAbbrev", tag.v)
         [] OTHER -> lit("String", tag.v)

(* n | bit, for a single bit *)
WithBit(n, bit) == IF (n \div bit) % 2 = 0 THEN n + bit ELSE n

(* The bytes of a string go to a buffer that is dropped, and the mask      *)
(* 0b0000 takes everything from a specific value.  A small number of more  *)
(* than four bits runs into the variant.                                   *)
LiteralBytes(l) ==
    LET n == l.v[1]
    IN CASE l.t = "Specific" -> <<0>>
         [] l.t = "UInt" -> <<48>> \o Varint(n)
         [] l.t = "IInt" -> <<64>> \o SignedVarint(n, WordBits)
         [] l.t = "TinyUNumber" -> <<64 + WithBit(n, 16)>>
         [] l.t = "TinyINumber" -> <<96 + WithBit(AbsDiff(n, 0), 8)>>
         [] l.t = "TwoUpperLatinAbbrev" -> <<160>> \o l.v
         [] l.t = "String" -> <<>>

(* A variant that is not there, or not written yet, panics. *)
LiteralAfter(header, bytes) ==
    LET variant == header \div 16
        low == header % 16
        got(t, v, rest) == <<[t |-> t, v |-> v], rest>>
    IN CASE variant = 0 -> got("Specific", <<low>>, bytes)
         [] variant = 3 -> Then(ReadVarint(bytes), LAMBDA n, rest :
                                  got("UInt", <<n>>, rest))
         [] variant = 4 -> Then(ReadSigned(bytes, WordBits), LAMBDA n, rest :
                                  got("IInt", <<n>>, rest))
         [] variant = 5 -> got("TinyUNumber", <<low>>, bytes)
         [] variant = 6 ->
              got("TinyINumber",
                  <<(low % 8) * (IF low >= 8 THEN -1 ELSE 1)>>, bytes)
         [] variant = 10 ->
              Then(Next1(bytes), LAMBDA first, afterFirst :
              Then(Next1(afterFirst), LAMBDA second, rest :
                got("TwoUpperLatinAbbrev", <<first, second>>, rest)))
         [] variant \in 12 .. 15 ->
              Then(ReadString(header, bytes), LAMBDA string, rest :
                     got("String", string, rest))
         [] OTHER -> got("panic", <<>>, <<>>)

ReadLiteral(bytes) == Then(Next1(bytes), LiteralAfter)

(* The literals that survive, which is less than all that are written. *)
KeepsItsValue(l) ==
    \/ l.t \in {"UInt", "IInt", "TwoUpperLatinAbbrev"}
    \/ l.t = "Specific" /\ l.v = <<0>>
    \/ l.t = "TinyUNumber" /\ l.v[1] < 16
    \/ l.t = "TinyINumber" /\ l.v[1] > -8
=============================================================================
