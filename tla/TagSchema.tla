----------------------------- MODULE TagSchema -----------------------------
(***************************************************************************)
(* What osm_schema_builder/ makes of the schema of tags at build time, and *)
(* osm_tags_to_fields/ does with it when it runs: tags that are deprecated *)
(* are replaced, those the schema knows become fields of their own, each   *)
(* with its id and its way to be written, and the others stay tags.        *)
(*                                                                         *)
(* The schema itself, osm_tags_to_fields/id-tagging-schema-data, is data,  *)
(* and its fields get their ids in the order of a hash map: another one in *)
(* each build.  A tag is its key and its value.                            *)
(***************************************************************************)
EXTENDS ValuePool

CONSTANTS Schema,    \* the fields, by their names: [id, kind, keys, options]
          Rules,     \* the deprecations: [from, copy, to]
          KeyOrder   \* the keys there are, in the order of strings

(* Kinds of one key, and those that collect what several keys say. *)
SingleKinds == {"text", "checkbox", "combo"}
ManyKinds == {"multi yes combo", "localized string"}

(* The map's own limit for a value: 255 characters of up to four bytes. *)
MaxTagBytes == 1020
Values == {tag \in Tags : Len(tag.v) <= MaxTagBytes}

(* The value of the key that is copied: "*" in old, "$1" in replace. *)
Copied == [t |-> "any", v |-> <<>>]

ASSUME SchemaConstants ==
    /\ Schema \in Seq([id : 0 .. 1023, kind : SingleKinds \cup ManyKinds,
                       keys : Seq(Tags), options : Seq(Values)])
    /\ \A i, j \in DOMAIN Schema : Schema[i].id = Schema[j].id => i = j
    /\ \A f \in ToSet(Schema) :
          /\ f.kind \in SingleKinds => Len(f.keys) = 1
          /\ f.kind = "multi yes combo" => Len(f.keys) < WordBits   \* one word
          /\ Len(f.options) < 256
    /\ Rules \in Seq([from : Seq(Tags \X Values), copy : Seq(Tags),
                      to : Seq(Tags \X (Values \cup {Copied}))])
    /\ \A r \in ToSet(Rules) :
          /\ Len(r.copy) <= 1 /\ Len(r.from) + Len(r.copy) >= 1
          /\ (\E kv \in ToSet(r.to) : kv[2] = Copied) => Len(r.copy) = 1
    /\ KeyOrder \in Seq(Tags) /\ IsInjective(KeyOrder)
    /\ {kv[1] : kv \in UNION {ToSet(r.to) : r \in ToSet(Rules)}} \subseteq ToSet(KeyOrder)

-----------------------------------------------------------------------------
(* Deprecations: the first rule that a tag is a part of takes it.  A rule  *)
(* of several parts holds what it has until it has all of them.            *)

(* Those of a sequence that are in a set, in their order. *)
Within(s, S) ==
    FlattenSeq([i \in DOMAIN s |-> IF s[i] \in S THEN <<s[i]>> ELSE <<>>])

IsPart(r, tag) == tag[1] \in ToSet(r.copy) \/ tag \in ToSet(r.from)
RuleOf(tag) == SelectInSeq(Rules, LAMBDA r : IsPart(r, tag))

TakenBy(tags, k) == {tag \in ToSet(tags) : RuleOf(tag) = k}

Captured(tags, k) ==
    Within(tags, {tag \in TakenBy(tags, k) : tag[1] \in ToSet(Rules[k].copy)})
Matched(tags, k) ==
    Within(tags, {tag \in TakenBy(tags, k) : tag[1] \notin ToSet(Rules[k].copy)})

IsComplete(tags, k) ==
    /\ Len(Matched(tags, k)) = Len(Rules[k].from)
    /\ Len(Captured(tags, k)) = Len(Rules[k].copy)

Replaced(tags, k) ==
    LET new(kv) == IF kv[2] = Copied THEN <<kv[1], Captured(tags, k)[1][2]>> ELSE kv
    IN [j \in DOMAIN Rules[k].to |-> new(Rules[k].to[j])]

(* What is given for tag i, with the tags up to it. *)
Given(tags, i) ==
    LET k == RuleOf(tags[i])
        held == UpTo(tags, i)
    IN IF k = 0 THEN <<tags[i]>>
       ELSE IF IsComplete(held, k) THEN Replaced(held, k) ELSE <<>>

(* After the last tag a rule of several parts gives back what it holds:    *)
(* the tags it matched also when they have been replaced.                  *)
LeftOver(tags, k) ==
    IF Len(Rules[k].from) + Len(Rules[k].copy) = 1 THEN <<>>
    ELSE (IF IsComplete(tags, k) THEN <<>> ELSE Captured(tags, k)) \o Matched(tags, k)

ApplyDeprecations(tags) ==
    FlattenSeq([i \in DOMAIN tags |-> Given(tags, i)])
    \o FlattenSeq([k \in DOMAIN Rules |-> LeftOver(tags, k)])

-----------------------------------------------------------------------------
(* parse_tags_to_fields.                                                   *)

(* Field::Field and Field::Other.  A known field is its place in the       *)
(* schema and what it holds.                                               *)
Known(i, v) == [t |-> "Field", field |-> i, v |-> v]
Other(k, v) == [t |-> "Other", key |-> k, value |-> v]

IsKnown(f) == f.t = "Field"
IsOther(f) == f.t = "Other"

(* The characters of a value; a number has been parsed. *)
Decimal(n) ==
    LET most == Max({j \in 0 .. 9 : j = 0 \/ 10 ^ j <= n})
    IN [i \in 1 .. most + 1 |-> 48 + ((n \div 10 ^ (most + 1 - i)) % 10)]

Characters(value) ==
    IF value.t = "text" THEN value.v
    ELSE (IF value.v[1] < 0 THEN <<45>> ELSE <<>>) \o Decimal(AbsDiff(value.v[1], 0))

Takes(f, tag) ==
    /\ f.kind \in SingleKinds
    /\ tag[1] = f.keys[1]
    /\ f.kind = "checkbox" => tag[2] \in {Text(Yes), Text(No)}
    /\ f.kind = "combo" => tag[2] \in ToSet(f.options)

(* try_into_field of one field after the other *)
SingleOf(tag) == SelectInSeq(Schema, LAMBDA f : Takes(f, tag))

(* update_state: a field of flags takes a key whose value is yes, one of   *)
(* translations takes none.                                                *)
FlagsOf(tag) ==
    SelectInSeq(Schema, LAMBDA f : /\ f.kind = "multi yes combo"
                                   /\ tag[1] \in ToSet(f.keys) /\ tag[2] = Text(Yes))

SingleField(tag) ==
    LET i == SingleOf(tag)
        f == Schema[i]
    IN IF i = 0 THEN <<>>
       ELSE <<Known(i, CASE f.kind = "text" -> Characters(tag[2])
                         [] f.kind = "checkbox" -> <<IF tag[2] = Text(Yes) THEN 1 ELSE 0>>
                         [] f.kind = "combo" ->
                              <<SelectInSeq(f.options, LAMBDA o : o = tag[2]) - 1>>)>>

(* The flags of field i, one for each of its keys. *)
Flags(tags, i) ==
    LET keys == Schema[i].keys
        isSet(key) == \E tag \in ToSet(tags) :
                         SingleOf(tag) = 0 /\ FlagsOf(tag) = i /\ tag[1] = key
    IN [j \in DOMAIN keys |-> IF isSet(keys[j]) THEN 1 ELSE 0]

(* end_state: there is a field even if no tag went into it. *)
ManyField(tags, i) ==
    IF Schema[i].kind = "multi yes combo" THEN <<Known(i, Flags(tags, i))>>
    ELSE IF Schema[i].kind = "localized string" THEN <<Known(i, <<>>)>>
    ELSE <<>>

(* What is left is collected into a map: by the keys, and the last of each *)
Collected(tags) ==
    LET rest(k) == Within(tags, {tag \in ToSet(tags) :
                             tag[1] = k /\ SingleOf(tag) = 0 /\ FlagsOf(tag) = 0})
        last(k) == IF rest(k) = <<>> THEN <<>> ELSE <<Other(k, Last(rest(k))[2])>>
    IN FlattenSeq([i \in DOMAIN KeyOrder |-> last(KeyOrder[i])])

(* The fields of an element, as node.rs, way.rs and relation.rs join them. *)
ParseTags(stored) ==
    LET tags == ApplyDeprecations(stored)
    IN FlattenSeq([i \in DOMAIN tags |-> SingleField(tags[i])])
       \o FlattenSeq([i \in DOMAIN Schema |-> ManyField(tags, i)])
       \o Collected(tags)

-----------------------------------------------------------------------------
(* A known field in bytes: its head has the high bit, the id in ten bits   *)
(* and five bits for the field.  The last byte of the head is left to the  *)
(* field to write: with all of its bits, or as an integer of variable      *)
(* length.                                                                 *)

Nib(i) == 32 * (Schema[i].id % 8)

(* The flags as the bits of a word, the first one the lowest. *)
FlagWord(flags) ==
    LET n == Len(flags)
        above[j \in 0 .. n] ==
          IF j = 0 THEN 0 ELSE 2 * above[j - 1] + flags[n + 1 - j]
    IN above[n]

FlagsIn(word, n) == [j \in 1 .. n |-> (word \div 2 ^ (j - 1)) % 2]

(* One of the options: few of them are in the byte of the head, with the   *)
(* bits of the field's id, and more than few take a number of their own.   *)
ComboBytes(s, nib, n) ==
    IF Len(s.options) < 16 THEN Varint(nib + n) ELSE Varint(nib) \o Varint(n)

ReadCombo(s, low, bytes) ==
    IF Len(s.options) < 16 THEN <<<<low % 16>>, bytes>>
    ELSE Then(ReadVarint(bytes), LAMBDA n, rest : <<<<n % 256>>, rest>>)

(* Fault: the bits of the field's id are forgotten in the header. *)
KnownFieldNoNib(f) ==
    LET s == Schema[f.field]
    IN <<128 + (s.id \div 8)>> \o
       (CASE s.kind = "text" -> StringBytes(f.v, 0)
          [] s.kind = "checkbox" -> <<IF f.v[1] = 1 THEN 128 ELSE 0>>
          [] s.kind = "combo" -> ComboBytes(s, 0, f.v[1])
          [] s.kind = "multi yes combo" -> <<0>> \o Varint(FlagWord(f.v))
          [] s.kind = "localized string" -> Varint(16))

KnownField(f) ==
    LET s == Schema[f.field]
        nib == Nib(f.field)
        n == f.v[1]
        last ==
          CASE s.kind = "text" -> StringBytes(f.v, nib)
            [] s.kind = "checkbox" -> <<IF n = 1 THEN WithBit(nib, 128) ELSE nib>>
            [] s.kind = "combo" -> ComboBytes(s, nib, n)
            [] s.kind = "multi yes combo" -> <<nib>> \o Varint(FlagWord(f.v))
            [] s.kind = "localized string" -> Varint(nib + 16)   \* of none
    IN <<128 + (s.id \div 8)>> \o last

(* A translation: the language in two bytes, the first of which is taken   *)
(* for the header of the string.                                           *)
ReadName(bytes) ==
    Then(ReadVarint(bytes), LAMBDA first, afterFirst :
    Then(ReadVarint(afterFirst), LAMBDA second, rest : ReadString(first % 256, rest)))

(* The bytes after the head.  An id that no field has panics. *)
ReadKnown(id, low, bytes) ==
    LET i == SelectInSeq(Schema, LAMBDA f : f.id = id)
        s == Schema[i]
        got(v, rest) == <<Known(i, v), rest>>
    IN IF i = 0 THEN <<Known(0, <<>>), <<>>>>
       ELSE CASE s.kind = "text" -> Then(ReadString(low, bytes), got)
              [] s.kind = "checkbox" -> got(<<low \div 128>>, bytes)
              [] s.kind = "combo" -> Then(ReadCombo(s, low, bytes), got)
              [] s.kind = "multi yes combo" ->
                   Then(ReadVarint(bytes), LAMBDA word, rest :
                     got(FlagsIn(word, Len(s.keys)), rest))
              [] s.kind = "localized string" ->
                   Then(Then(IF low >= 16 THEN <<low % 16, bytes>> ELSE ReadVarint(bytes),
                             LAMBDA n, rest : Repeated(ReadName, rest, n)), got)

(* One of the kind Other has the ids of its literals. *)
ReadField(bytes) ==
    Then(Next1(bytes), LAMBDA head, afterHead :
      IF head < 128
      THEN Then(ReadVarint(afterHead), LAMBDA key, afterKey :
           Then(ReadVarint(afterKey), LAMBDA value, rest : <<Other(key, value), rest>>))
      ELSE Then(Next1(afterHead), LAMBDA low, rest :
             ReadKnown(8 * (head % 128) + (low \div 32), low % 32, rest)))

(* The fields that come back as they were: not a yes of a checkbox, which  *)
(* is read from a bit that has been cut off, and not those that write an   *)
(* integer of variable length over the bits of their id.                   *)
Survives(f) ==
    \/ IsOther(f)
    \/ /\ IsKnown(f)
       /\ LET s == Schema[f.field]
          IN /\ s.kind = "text" => EndsItself(f.v)
             /\ s.kind = "checkbox" => f.v = <<0>>
             /\ s.kind \in {"combo", "localized string"} => s.id % 8 < 2
=============================================================================
