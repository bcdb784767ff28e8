---------------------------- MODULE MessagePack ----------------------------
(***************************************************************************)
(* PackWriter and PackReader (data/pack.hpp).  A document is a sequence of *)
(* heads and of the payloads some heads announce: [h, n] is a head with    *)
(* the number it carries, [w, n] a payload of w bytes, [text] the bytes of *)
(* a string.  The widths are those of Values.                              *)
(***************************************************************************)
EXTENDS Values, Readers
LOCAL SeqOps == INSTANCE SequencesExt

CONSTANTS
    FixNegative, FixString, FixCount,    \* 2^5, 32 and 16 in the code: what a head alone can carry
    FloatBits,                           \* 24 in the code
    TextSizes                            \* bound: lengths of strings

HeadOf(h, n) == [h |-> h, n |-> n]
Payload(w, n) == [h |-> "payload", w |-> w, n |-> n % 2 ^ (w * ByteBits)]
RealPayload(w, v) == [h |-> "payload", w |-> w, n |-> v]
Text(n) == [h |-> "text", n |-> n]
Bit(k) == 2 ^ k

UnsignedFrom(v, widest) ==
    IF v < Bit(ByteBits - 1) THEN <<HeadOf("fix", v)>>
    ELSE IF v < Bit(ByteBits) THEN <<HeadOf("u", 1), Payload(1, v)>>
    ELSE IF v < Bit(2 * ByteBits) THEN <<HeadOf("u", 2), Payload(2, v)>>
    ELSE IF v < Bit(4 * ByteBits) \/ widest = 4 THEN <<HeadOf("u", 4), Payload(4, v)>>
    ELSE <<HeadOf("u", 8), Payload(8, v)>>

\* setInt and setInt64: a number that is not negative is written as unsigned.
SignedFrom(v, widest) ==
    IF widest = 8 /\ v < -Bit(4 * ByteBits - 1) THEN <<HeadOf("i", 8), Payload(8, v)>>
    ELSE IF v < -Bit(2 * ByteBits - 1) THEN <<HeadOf("i", 4), Payload(4, v)>>
    ELSE IF v < -Bit(ByteBits - 1) THEN <<HeadOf("i", 2), Payload(2, v)>>
    ELSE IF v < -FixNegative THEN <<HeadOf("i", 1), Payload(1, v)>>
    ELSE UnsignedFrom(v, widest)

SetInt(x) == SignedFrom(x.v \div 2, 4)
SetInt64(x) == SignedFrom(x.v \div 2, 8)
SetUint(x) == UnsignedFrom(x.v \div 2, 4)
SetUint64(x) == UnsignedFrom(x.v \div 2, 8)
\* As a float when that loses nothing: the mantissa has FloatBits bits.
SetDouble(x) ==
    IF \E k \in 0..30 : x.v % Bit(k) = 0 /\ Magnitude(x.v) \div Bit(k) < Bit(FloatBits)
    THEN <<HeadOf("r", 4), RealPayload(4, x.v)>> ELSE <<HeadOf("r", 8), RealPayload(8, x.v)>>

SetString(n) ==
    (IF n < FixString THEN <<HeadOf("fixstr", n)>>
     ELSE IF n < Bit(ByteBits) THEN <<HeadOf("str", 1), Payload(1, n)>>
     ELSE IF n < Bit(2 * ByteBits) THEN <<HeadOf("str", 2), Payload(2, n)>>
     ELSE <<HeadOf("str", 4), Payload(4, n)>>) \o <<Text(n)>>

StartCount(fixed, counted, n) ==
    IF n < FixCount THEN <<HeadOf(fixed, n)>>
    ELSE IF n < Bit(2 * ByteBits) THEN <<HeadOf(counted, 2), Payload(2, n)>>
    ELSE <<HeadOf(counted, 4), Payload(4, n)>>
StartArray(n) == StartCount("fixarr", "arr", n)
StartObject(n) == StartCount("fixobj", "obj", n)

NumberOf(t, v) == [k |-> "num", x |-> [t |-> t, v |-> v]]
WriteScalar(v) ==
    CASE v.k = "null" -> <<HeadOf("null", 0)>>
      [] v.k = "bool" -> <<HeadOf("bool", IF v.b THEN 1 ELSE 0)>>
      [] v.k = "str" -> SetString(v.n)
      [] v.k = "num" -> CASE v.x.t = "int" -> SetInt(v.x) [] v.x.t = "uint" -> SetUint(v.x)
                          [] v.x.t = "int64" -> SetInt64(v.x) [] v.x.t = "uint64" -> SetUint64(v.x)
                          [] v.x.t = "real" -> SetDouble(v.x)

RECURSIVE WriteValue(_)
WriteItems(v) ==
    IF v.k = "arr" THEN [i \in DOMAIN v.items |-> WriteValue(v.items[i])]
    ELSE [i \in DOMAIN v.items |-> WriteScalar(v.items[i][1]) \o WriteValue(v.items[i][2])]
WriteValue(v) ==
    IF ~Container(v) THEN WriteScalar(v)
    ELSE (IF v.k = "arr" THEN StartArray(Len(v.items)) ELSE StartObject(Len(v.items))) \o SeqOps!FlattenSeq(WriteItems(v))

\* setKey refuses a container, and the writer gives up.
RECURSIVE Writable(_)
Writable(v) ==
    Container(v) => \A i \in DOMAIN v.items :
        IF v.k = "arr" THEN Writable(v.items[i]) ELSE ~Container(v.items[i][1]) /\ Writable(v.items[i][2])
PackWrite(v) == IF Writable(v) THEN WriteValue(v) ELSE <<>>

\* peek () at the end of the document, as a byte: 0xff, the head of the number -1.
AtEnd == HeadOf("fix", -1)
PeekHead(d, r) == IF r.at <= Len(d) THEN d[r.at] ELSE AtEnd

\* unpack: the number a payload of w bytes stands for, or none when the document ends.
Unpacked(d, r) == r.at + 1 <= Len(d) /\ d[r.at + 1].h = "payload"
AsUnsigned(d, r) == d[r.at + 1].n
AsSigned(d, r, w) == LET n == d[r.at + 1].n IN IF n >= Bit(w * ByteBits - 1) THEN n - Bit(w * ByteBits) ELSE n

IsReadNumber(h) == h \in {"fix", "u", "i", "r"}
NumberRead(d, r) ==
    LET head == PeekHead(d, r) w == head.n IN
    CASE head.h = "fix" -> NumberOf(IF w < 0 THEN "int" ELSE "uint", 2 * w)
      [] head.h = "u" -> NumberOf(IF w = 8 THEN "uint64" ELSE "uint", 2 * AsUnsigned(d, r))
      [] head.h = "i" -> NumberOf(IF w = 8 THEN "int64" ELSE "int", 2 * AsSigned(d, r, w))
      [] head.h = "r" -> NumberOf("real", AsUnsigned(d, r))

Set(r, v, isKey) == IF isKey THEN SetKey(r, v) ELSE SetValue(r, v)
ReadNumber(d, r, isKey) ==
    IF PeekHead(d, r).h = "fix" THEN Set(Advance(r, 1), NumberRead(d, r), isKey)
    ELSE IF Unpacked(d, r) THEN Set(Advance(r, 2), NumberRead(d, r), isKey) ELSE Fail(r)
ReadString(d, r, isKey) ==
    LET fixed == PeekHead(d, r).h = "fixstr"
        n == IF fixed THEN PeekHead(d, r).n ELSE AsUnsigned(d, r)
        at == r.at + (IF fixed THEN 1 ELSE 2)
    IN IF ~fixed /\ ~Unpacked(d, r) THEN Fail(r)
       ELSE IF at <= Len(d) /\ d[at] = Text(n) THEN Set([r EXCEPT !.at = at + 1], StringOf(n), isKey)
       ELSE IF n = 0 /\ at > Len(d) THEN Set([r EXCEPT !.at = at], StringOf(0), isKey) ELSE Fail(r)
ReadWord(d, r, isKey) ==
    LET head == PeekHead(d, r) IN
    Set(Advance(r, 1), IF head.h = "null" THEN NullValue ELSE BoolValue(head.n = 1), isKey)

ReadScalar(d, r, isKey) ==
    LET h == PeekHead(d, r).h IN
    CASE h \in {"null", "bool"} -> ReadWord(d, r, isKey)
      [] h \in {"fixstr", "str"} -> ReadString(d, r, isKey)
      [] IsReadNumber(h) -> ReadNumber(d, r, isKey)
      [] OTHER -> Fail(r)
ReadKey(d, r) == ReadScalar(d, r, TRUE)

RECURSIVE PackReadValue(_, _)
RECURSIVE ReadCount(_, _, _)
\* The loops of readArray and readObject; r is the reader after the key of a member.
ReadItem(d, r, n) == IF r.ok THEN ReadCount(d, PackReadValue(d, r), n - 1) ELSE r
ReadCount(d, r, n) ==
    IF ~r.ok THEN r
    ELSE IF n = 0 THEN Stop(r)
    ELSE ReadItem(d, IF r.stack[Len(r.stack)].k = "obj" THEN ReadKey(d, r) ELSE r, n)
ReadCounted(d, r, head, fixed) ==
    IF ~fixed /\ ~Unpacked(d, r) THEN Fail(r)
    ELSE ReadCount(d, Start(Advance(r, IF fixed THEN 1 ELSE 2), IF head.h \in {"fixarr", "arr"} THEN "arr" ELSE "obj"),
                   IF fixed THEN head.n ELSE AsUnsigned(d, r))
ReadContainer(d, r) == ReadCounted(d, r, PeekHead(d, r), PeekHead(d, r).h \in {"fixarr", "fixobj"})
PackReadValue(d, r) ==
    IF PeekHead(d, r).h \in {"fixarr", "arr", "fixobj", "obj"} THEN ReadContainer(d, r) ELSE ReadScalar(d, r, FALSE)

\* read: nothing may follow the value.
NothingFollows(d, r) == IF r.ok /\ r.at <= Len(d) THEN Fail(r) ELSE r
PackRead(d) == NothingFollows(d, PackReadValue(d, NewReader))

RECURSIVE Nest(_, _)
Nest(k, n) == IF n = 0 THEN NullValue ELSE IF k = "arr" THEN ArrayOf(<<Nest(k, n - 1)>>) ELSE ObjectOf(<< <<StringOf(1), Nest(k, n - 1)>> >>)
Scalars == {NullValue, BoolValue(TRUE), BoolValue(FALSE)} \cup {StringOf(n) : n \in TextSizes}
SmallNumbers == {NumberOf(x.t, x.v) : x \in {y \in Numbers : Magnitude(y.v) <= 2 * Bit(ByteBits)}}
PackTrees ==
    {ArrayOf(<<NumberOf(x.t, x.v)>>) : x \in Numbers}
    \cup {ArrayOf(<<a, b>>) : a, b \in Scalars} \cup Scalars
    \cup {ObjectOf(<< <<a, b>>, <<b, a>> >>) : a, b \in Scalars}
    \cup {ObjectOf(<< <<n, NullValue>> >>) : n \in SmallNumbers}
    \cup {Nest(k, n) : k \in {"arr", "obj"}, n \in 1..MaxDepth + 1}
    \cup {ArrayOf([i \in 1..n |-> NullValue]) : n \in {1, 2, 3, Bit(2 * ByteBits) - 1, Bit(2 * ByteBits)}}
    \cup {ObjectOf(<< <<StringOf(1), Nest("arr", 2)>>, <<NullValue, ArrayOf(<<StringOf(1), Nest("obj", 1)>>)>> >>),
          ArrayOf(<<ObjectOf(<< <<Nest("arr", 1), NullValue>> >>)>>)}
CutTrees == {t \in PackTrees : Container(t) /\ Writable(t)}

PackInit ==
    \/ Begin("pack", PackTrees)
    \/ \E t \in CutTrees : Begin("cut", {<<t, n>> : n \in 0..Len(WriteValue(t)) - 1})
PackNext ==
    \/ Compute("pack", PackRead(PackWrite(input)))
    \/ Compute("cut", PackRead(SubSeq(WriteValue(input[1]), 1, input[2])))

RECURSIVE SameTree(_, _)
SameTree(a, b) ==
    IF a.k = "num" \/ ~Container(a) THEN a.k = b.k /\ (IF a.k = "num" THEN a.x.v = b.x.v ELSE a = b)
    ELSE /\ a.k = b.k /\ Len(a.items) = Len(b.items)
         /\ \A i \in DOMAIN a.items :
                IF a.k = "arr" THEN SameTree(a.items[i], b.items[i])
                ELSE SameTree(a.items[i][1], b.items[i][1]) /\ SameTree(a.items[i][2], b.items[i][2])

(* Reading what PackWriter wrote gives the same values, at every width and on both     *)
(* sides of every limit of the format, and fails exactly for a root that is no         *)
(* container and for a tree nested deeper than the reader's stack.                     *)
PackRoundTrip ==
    Computed("pack") =>
        /\ Result.ok <=> Container(input) /\ Writable(input) /\ Depth(input) <= MaxDepth
        /\ Result.ok => SameTree(input, Result.root)

(* A document cut short is refused when the cut is inside a value.  Cut between two    *)
(* values it is accepted, and every value that is missing is read as -1: the end of    *)
(* the document, taken for a byte, is the head of that number.                         *)
CutsCharacterised ==
    LET Announces(kept, last) ==
            \/ last.h \in {"u", "i", "r", "str", "arr", "obj"} \/ (last.h = "fixstr" /\ last.n > 0)
            \/ (last.h = "payload" /\ kept[Len(kept) - 1].h = "str" /\ last.n > 0)
        Between(kept) == kept # <<>> /\ ~Announces(kept, kept[Len(kept)])
        Characterised(between) == (Result.ok => between) /\ (between /\ Depth(input[1]) <= MaxDepth => Result.ok)
    IN  Computed("cut") => Characterised(Between(SubSeq(WriteValue(input[1]), 1, input[2])))
=============================================================================
