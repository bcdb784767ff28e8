------------------------------- MODULE Values -------------------------------
(***************************************************************************)
(* Variant (core/variant.hpp), and Value (data/value.hpp), which is one.   *)
(***************************************************************************)
EXTENDS Integers, Sequences, FiniteSets, Probe
LOCAL INSTANCE SequencesExt

-----------------------------------------------------------------------------
(***************************************************************************)
(* Value (data/value.hpp): numbers of five types, what they convert to and *)
(* how they compare, and the members of an object.  A number is counted in *)
(* halves, so that a real may have a fraction; the widths are those of the *)
(* code for ByteBits = 8 and MantissaBits = 53.                            *)
(***************************************************************************)
CONSTANTS
    ByteBits, MantissaBits,    \* bound: bits of a byte and of the mantissa of a double
    MemberKeys,                \* bound: keys of the members
    MaxMemberOps               \* bound: operations on one object

SMax(bytes) == 2 ^ (bytes * ByteBits - 1) - 1
SMin(bytes) == -SMax(bytes) - 1
UMax(bytes) == 2 ^ (bytes * ByteBits) - 1

Magnitude(v) == IF v < 0 THEN -v ELSE v
\* The nearest double, ties to even.
Exponent(m) == CHOOSE i \in 0..30 : m < 2 ^ (MantissaBits + i) /\ (i = 0 \/ m >= 2 ^ (MantissaBits + i - 1))
ToEven(q, rest, unit) == (IF 2 * rest > unit \/ (2 * rest = unit /\ unit > 1 /\ q % 2 = 1) THEN q + 1 ELSE q) * unit
RoundTo(m, unit) == ToEven(m \div unit, m % unit, unit)
Round(v) == (IF v < 0 THEN -1 ELSE 1) * RoundTo(Magnitude(v), 2 ^ Exponent(Magnitude(v)))

\* The alternatives, in the order of their indices.
Alternatives == <<"null", "bool", "int", "uint", "int64", "uint64", "real", "string">>
Rank(x) == CHOOSE i \in DOMAIN Alternatives : Alternatives[i] = x.t
IsNumber(x) == x.t \in {"int", "uint", "int64", "uint64", "real"}

\* A real must be whole; the limits are converted to double before they are compared.
Fits(x, lo, hi) ==
    IsNumber(x) /\ IF x.t = "real" THEN x.v % 2 = 0 /\ x.v >= Round(2 * lo) /\ x.v <= Round(2 * hi)
                    ELSE 2 * lo <= x.v /\ x.v <= 2 * hi
FitsBelow(x, lo, hi) ==
    IsNumber(x) /\ IF x.t = "real" THEN x.v % 2 = 0 /\ x.v >= Round(2 * lo) /\ x.v < Round(2 * hi)
                    ELSE 2 * lo <= x.v /\ x.v <= 2 * hi

IsInt8(x) == Fits(x, SMin(1), SMax(1))
IsUint8(x) == Fits(x, 0, UMax(1))
IsInt16(x) == Fits(x, SMin(2), SMax(2))
IsUint16(x) == Fits(x, 0, UMax(2))
IsInt(x) == Fits(x, SMin(4), SMax(4))
IsUint(x) == Fits(x, 0, UMax(4))
IsInt64(x) == FitsBelow(x, SMin(8), SMax(8))
IsUint64(x) == FitsBelow(x, 0, UMax(8))

\* static_cast; what it gives outside the type is undefined for a real.
Cast(x, lo, hi) == IF lo <= x.v \div 2 /\ x.v \div 2 <= hi /\ x.v % 2 = 0 THEN 2 * (x.v \div 2) ELSE "undefined"
BadCast == "bad_cast"
GetInt8(x) == IF IsInt8(x) THEN Cast(x, SMin(1), SMax(1)) ELSE BadCast
GetUint8(x) == IF IsUint8(x) THEN Cast(x, 0, UMax(1)) ELSE BadCast
GetInt16(x) == IF IsInt16(x) THEN Cast(x, SMin(2), SMax(2)) ELSE BadCast
GetUint16(x) == IF IsUint16(x) THEN Cast(x, 0, UMax(2)) ELSE BadCast
GetInt(x) == IF IsInt(x) THEN Cast(x, SMin(4), SMax(4)) ELSE BadCast
GetUint(x) == IF IsUint(x) THEN Cast(x, 0, UMax(4)) ELSE BadCast
GetInt64(x) == IF IsInt64(x) THEN Cast(x, SMin(8), SMax(8)) ELSE BadCast
GetUint64(x) == IF IsUint64(x) THEN Cast(x, 0, UMax(8)) ELSE BadCast
GetDouble(x) == Round(x.v)
GetBool(x) == IF x.t = "string" THEN BadCast ELSE x.v # 0

Equal(l, r) ==
    IF l.t = r.t \/ ~IsNumber(l) \/ ~IsNumber(r) THEN l.t = r.t /\ l.v = r.v
    ELSE IF IsInt64(l) /\ IsUint64(r) THEN GetInt64(l) >= 0 /\ GetInt64(l) = GetUint64(r)
    ELSE IF IsUint64(l) /\ IsInt64(r) THEN GetInt64(r) >= 0 /\ GetInt64(r) = GetUint64(l)
    ELSE GetDouble(l) = GetDouble(r)

Lower(l, r) ==
    IF l.t = r.t THEN l.v < r.v
    ELSE IF ~IsNumber(l) \/ ~IsNumber(r) THEN Rank(l) < Rank(r)
    ELSE IF IsInt64(l) /\ IsUint64(r) THEN GetInt64(l) < 0 \/ GetInt64(l) < GetUint64(r)
    ELSE IF IsUint64(l) /\ IsInt64(r) THEN GetInt64(r) >= 0 /\ GetUint64(l) < GetInt64(r)
    ELSE GetDouble(l) < GetDouble(r)

Absent == "out_of_range"
Found(o, key) == {i \in DOMAIN o : o[i][1] = key}
FirstIndex(o, key) == CHOOSE i \in Found(o, key) : \A j \in Found(o, key) : i <= j
At(o, key) == IF Found(o, key) = {} THEN Absent ELSE o[FirstIndex(o, key)][2]
HasMember(o, key) == Found(o, key) # {}
Insert(o, key, v) == Append(o, <<key, v>>)
\* value[key] = v
Index(o, key, v) ==
    IF Found(o, key) = {} THEN Append(o, <<key, v>>) ELSE [o EXCEPT ![FirstIndex(o, key)] = <<key, v>>]
Erase(o, key) == IF Found(o, key) = {} THEN o ELSE RemoveAt(o, FirstIndex(o, key))

OnMember(o, op) ==
    CASE op[1] = "index" -> Index(o, op[2], op[3])
      [] op[1] = "insert" -> Insert(o, op[2], op[3])
      [] op[1] = "erase" -> Erase(o, op[2])
MemberOps == {<<"index", k, v>> : k \in MemberKeys, v \in 1..2} \cup {<<"insert", k, 3>> : k \in MemberKeys}
             \cup {<<"erase", k>> : k \in MemberKeys}

\* Numbers around every limit a conversion or a comparison tests.
Edges == UNION {{s * 2 ^ e + d : d \in {-2, -1, 0, 1, 2}, s \in {-1, 1}} :
                    e \in {0} \cup {b * ByteBits + j : b \in {1, 2, 4, 8}, j \in {0, 1}} \cup {MantissaBits, MantissaBits + 1}}
TypeHas(t, v) ==
    CASE t = "int" -> v % 2 = 0 /\ 2 * SMin(4) <= v /\ v <= 2 * SMax(4)
      [] t = "uint" -> v % 2 = 0 /\ 0 <= v /\ v <= 2 * UMax(4)
      [] t = "int64" -> v % 2 = 0 /\ 2 * SMin(8) <= v /\ v <= 2 * SMax(8)
      [] t = "uint64" -> v % 2 = 0 /\ 0 <= v /\ v <= 2 * UMax(8)
      [] t = "real" -> Round(v) = v
Numbers == {x \in [t : {"int", "uint", "int64", "uint64", "real"}, v : Edges] : TypeHas(x.t, x.v)}
Others == [t : {"null"}, v : {0}] \cup [t : {"bool", "string"}, v : {0, 2}]

ValueInit ==
    \/ Begin("convert", Numbers \cup Others)
    \/ Begin("compare", (Numbers \cup Others) \X (Numbers \cup Others))
    \/ Begin("members", UNION {[1..n -> MemberOps] : n \in 1..MaxMemberOps})

Conversions(x) == << <<1, TRUE, GetInt8(x)>>, <<1, FALSE, GetUint8(x)>>, <<2, TRUE, GetInt16(x)>>, <<2, FALSE, GetUint16(x)>>,
                     <<4, TRUE, GetInt(x)>>, <<4, FALSE, GetUint(x)>>, <<8, TRUE, GetInt64(x)>>, <<8, FALSE, GetUint64(x)>> >>
ValueNext ==
    \/ Compute("convert", [ints |-> Conversions(input), bool |-> GetBool(input)])
    \/ Compute("compare", [eq |-> Equal(input[1], input[2]), lt |-> Lower(input[1], input[2]), gt |-> Lower(input[2], input[1])])
    \/ Compute("members", FoldLeft(OnMember, <<>>, input))

(* isX is true of exactly the numbers type X can hold, whatever type holds them, and   *)
(* then getX gives that number: no conversion is undefined, at the limit of 64 bits    *)
(* too, where the limit rounded to a double is outside the type.  getBool agrees with  *)
(* every conversion there is.                                                          *)
ConversionsExact ==
    Computed("convert") => \A i \in DOMAIN Result.ints :
        LET bytes == Result.ints[i][1]
            lo == IF Result.ints[i][2] THEN 2 * SMin(bytes) ELSE 0
            hi == IF Result.ints[i][2] THEN 2 * SMax(bytes) ELSE 2 * UMax(bytes)
            held == IsNumber(input) /\ input.v % 2 = 0 /\ lo <= input.v /\ input.v <= hi
        IN  /\ Result.ints[i][3] = IF held THEN input.v ELSE BadCast
            /\ held => Result.bool = (Result.ints[i][3] # 0)

(* Numbers of different types compare by their value as long as both are doubles or    *)
(* one is unsigned and the other signed; past the precision of double two others may   *)
(* be found equal that are not, but never in the wrong order.  What is not a number is *)
(* equal to its own kind only.  One of lower, equal and greater holds of any two.      *)
NumbersCompare ==
    Computed("compare") =>
        LET a == input[1] b == input[2]
            mixed(x, y) == x.v >= 0 /\ y.v <= 2 * SMax(8) IN
        /\ Cardinality({i \in DOMAIN Result : Result[i]}) = 1
        /\ IsNumber(a) /\ IsNumber(b) =>
            /\ Result.lt => a.v < b.v
            /\ a.v < b.v => (Result.lt \/ Result.eq)
            /\ (\/ a.t = b.t \/ (Round(a.v) = a.v /\ Round(b.v) = b.v)
                \/ a.v % 2 = 0 /\ b.v % 2 = 0 /\ (mixed(a, b) \/ mixed(b, a)) /\ IsInt64(a) /\ IsInt64(b))
               => (Result.eq <=> a.v = b.v) /\ (Result.lt <=> a.v < b.v)
        /\ Result.eq => a.t = b.t \/ (IsNumber(a) /\ IsNumber(b))

(* As long as insert is not given a key that is there, at returns what was last stored *)
(* under the key and nothing after erase.  insert appends the key a second time: at    *)
(* goes on returning the old value, and erase uncovers the new one.                    *)
MembersLookedUp ==
    Computed("members") => \A k \in MemberKeys :
        LET touching == {i \in DOMAIN input : input[i][2] = k}
            last == CHOOSE i \in touching : \A j \in touching : j <= i
            before(i) == {j \in touching : j < i /\ input[j][1] # "erase" /\ ~\E e \in touching : j < e /\ e < i /\ input[e][1] = "erase"}
            doubled == \E i \in touching : input[i][1] = "insert" /\ before(i) # {}
            held == touching # {} /\ input[last][1] # "erase"
        IN ~doubled => (HasMember(Result, k) <=> held) /\ At(Result, k) = IF held THEN input[last][3] ELSE Absent

-----------------------------------------------------------------------------
(***************************************************************************)
(* Variant (core/variant.hpp): storage for one of several types, _which,   *)
(* and the calls that construct, copy, move, swap and destroy what it      *)
(* holds.  Memory is a function from places to the objects alive there.    *)
(* An object is a pair <<alternative, value>>; alternative 0 is the null   *)
(* pointer, alternative 2 a type whose copy constructor may throw.  A use  *)
(* of a place where nothing is alive, or where something already is, is    *)
(* undefined: it is recorded, and the memory is then anything.             *)
(***************************************************************************)
CONSTANTS VariantValues,        \* the values of an alternative
          MaxVariantCalls       \* bound: calls on the two variants

Null == <<0, 0>>
MovedFrom(o) == IF o[1] = 0 THEN o ELSE <<o[1], "moved">>
VariantObjects == {Null} \cup ({1, 2} \X VariantValues)
Dead == <<>>

\* x and y are variants, tmp the buffer of swap, t the variant on the stack of operator= and set.
NewMemory == [data |-> [p \in {"x", "y", "tmp", "t"} |-> Dead], which |-> [p \in {"x", "y", "t"} |-> 0],
              undefined |-> {}]

Misuse(m, what) == [m EXCEPT !.undefined = @ \cup {what}]
Alive(m, p) == m.data[p] # Dead

\* copyImpl, moveImpl, destroyImpl and the constructor with arguments
Construct(m, p, o) == [(IF Alive(m, p) THEN Misuse(m, "constructed twice") ELSE m) EXCEPT !.data[p] = o]
CopyTo(m, src, dst) == IF Alive(m, src) THEN Construct(m, dst, m.data[src]) ELSE Misuse(m, "copied dead")
MoveTo(m, src, dst) ==
    IF ~Alive(m, src) THEN Misuse(Construct(m, dst, <<1, "moved">>), "moved dead")
    ELSE [Construct(m, dst, m.data[src]) EXCEPT !.data[src] = IF src = dst THEN @ ELSE MovedFrom(m.data[src])]
Destroy(m, p) == IF Alive(m, p) THEN [m EXCEPT !.data[p] = Dead] ELSE Misuse(m, "destroyed dead")

\* The constructors of VariantStorage and its destructor.
Made(m, p, o) == [Construct(m, p, o) EXCEPT !.which[p] = o[1]]
CopyMade(m, p, other) == [CopyTo(m, other, p) EXCEPT !.which[p] = m.which[other]]
MoveMade(m, p, other) == [MoveTo(m, other, p) EXCEPT !.which[p] = m.which[other]]

\* Mutant: the temporary is not destroyed.
SwapAliased(m, p, other) ==
    LET moved == Destroy(MoveTo(m, p, "tmp"), p)
        back == MoveTo(Destroy(MoveTo(moved, other, p), other), "tmp", other)
    IN  [back EXCEPT !.which[p] = m.which[other], !.which[other] = m.which[p]]

\* VariantStorage::swap
VSwap(m, p, other) ==
    LET moved == Destroy(MoveTo(m, p, "tmp"), p)
        back == MoveTo(Destroy(MoveTo(moved, other, p), other), "tmp", other)
        freed == Destroy(back, "tmp")
    IN  [freed EXCEPT !.which[p] = m.which[other], !.which[other] = m.which[p]]

\* operator= (const VariantStorage&): a copy that throws leaves everything as it was.
AssignCopy(m, p, other, throws) ==
    IF throws /\ m.which[other] = 2 THEN m
    ELSE Destroy(VSwap(CopyMade(m, "t", other), p, "t"), "t")
AssignMove(m, p, other) == VSwap(m, p, other)
\* set, operator= (T&&)
SetValueOf(m, p, o, throws) ==
    IF throws /\ o[1] = 2 THEN m ELSE Destroy(VSwap(Made(m, "t", o), p, "t"), "t")

\* get: a reference to the object, or bad_cast
VGet(m, p, i) == IF m.which[p] # i THEN "bad_cast" ELSE m.data[p]
\* getIf: a pointer to the object, or null
VGetIf(m, p, i) == IF m.which[p] # i THEN "null" ELSE m.data[p]

VEqual(a, b) == a[1] = b[1] /\ a[2] = b[2]
\* lower, with lowerDispatch for the null pointer
VLower(a, b) == a[1] < b[1] \/ (a[1] = b[1] /\ a[1] # 0 /\ a[2] < b[2])

VDiffers(a, b) == ~VEqual(a, b)
VGreater(a, b) == VLower(b, a)
VAtMost(a, b) == ~VLower(b, a)
VAtLeast(a, b) == ~VLower(a, b)

VCall(m, c) ==
    CASE c.op = "set" -> SetValueOf(m, c.p, c.o, c.throws)
      [] c.op = "copy" -> AssignCopy(m, c.p, c.other, c.throws)
      [] c.op = "move" -> AssignMove(m, c.p, c.other)
      [] c.op = "remake" -> MoveMade(Destroy(m, c.p), c.p, c.other)

Places == {"x", "y"}
VCalls == [op : {"set"}, p : Places, o : VariantObjects, throws : BOOLEAN]
          \cup [op : {"copy"}, p : Places, other : Places, throws : BOOLEAN]
          \cup [op : {"move"}, p : Places, other : Places]
          \cup {c \in [op : {"remake"}, p : Places, other : Places] : c.p # c.other}
VRun(calls) == FoldLeft(VCall, Made(Made(NewMemory, "x", Null), "y", <<1, 1>>), calls)

VariantInit ==
    \/ Begin("variant", UNION {[1..n -> VCalls] : n \in 0..MaxVariantCalls})
    \/ Begin("variant_order", VariantObjects \X VariantObjects \X VariantObjects)
VariantNext ==
    \/ Compute("variant", VRun(input))
    \/ Compute("variant_order", [equal |-> VEqual(input[1], input[2]), lower |-> VLower(input[1], input[2]),
                                 then |-> VLower(input[2], input[3]), outer |-> VLower(input[1], input[3]),
                                 above |-> VGreater(input[1], input[2]), differs |-> VDiffers(input[1], input[2]),
                                 atMost |-> VAtMost(input[1], input[2]), atLeast |-> VAtLeast(input[1], input[2])])
-----------------------------------------------------------------------------
\* What the calls promise, without the storage: an assignment by move exchanges the two.
Promised(v, c) ==
    CASE c.op = "set" -> IF c.throws /\ c.o[1] = 2 THEN v ELSE [v EXCEPT ![c.p] = c.o]
      [] c.op = "copy" -> IF c.throws /\ v[c.other][1] = 2 THEN v ELSE [v EXCEPT ![c.p] = v[c.other]]
      [] c.op = "move" -> [v EXCEPT ![c.p] = v[c.other], ![c.other] = v[c.p]]
      [] c.op = "remake" -> [v EXCEPT ![c.p] = v[c.other], ![c.other] = MovedFrom(v[c.other])]
SelfMoves(calls) == \E i \in DOMAIN calls : calls[i].op = "move" /\ calls[i].p = calls[i].other

(***************************************************************************)
(* Whatever is assigned, copied, moved or fails to be copied, each variant *)
(* holds exactly the object it was last given, get and getIf find it under *)
(* its own alternative and no other, and nothing else is left alive; an    *)
(* object that is not alive is used if and only if a variant is moved to   *)
(* or swapped with itself, which swap does not look for                    *)
(* (VariantStorage::swap, operator=, Variant::set, get, getIf).            *)
(***************************************************************************)
VariantsHoldLastGiven ==
    Computed("variant") =>
        /\ (Result.undefined # {}) = SelfMoves(input)
        /\ Result.undefined = {} =>
              /\ \A p \in {"tmp", "t"} : ~Alive(Result, p)
              /\ LET v == FoldLeft(Promised, [x |-> Null, y |-> <<1, 1>>], input)
                 IN  \A p \in Places, i \in 0..2 :
                        /\ VGet(Result, p, i) = IF i = v[p][1] THEN v[p] ELSE "bad_cast"
                        /\ VGetIf(Result, p, i) = IF i = v[p][1] THEN v[p] ELSE "null"

(***************************************************************************)
(* Variants are totally ordered, first by alternative, and == agrees with  *)
(* the order: exactly one of <, == and > holds, !=, <= and >= follow from  *)
(* them, and < is transitive (Variant::equal, lower, the six operators,    *)
(* and VariantHelper::lowerDispatch for nullptr).                          *)
(***************************************************************************)
VariantOrder ==
    Computed("variant_order") =>
        /\ \E r \in {"equal", "lower", "above"} : \A q \in {"equal", "lower", "above"} : Result[q] = (q = r)
        /\ Result.lower /\ Result.then => Result.outer
        /\ Result.differs = (Result.lower \/ Result.above)
        /\ Result.atMost = (Result.lower \/ Result.equal) /\ Result.atLeast = (Result.above \/ Result.equal)
=============================================================================
