-------------------------------- MODULE Json --------------------------------
(***************************************************************************)
(* JsonReader and JsonWriter (data/json.hpp) in four parts: the structure  *)
(* of a document, whose tokens are brackets, "," and ":", a string "s",    *)
(* another scalar "n", a white space "w" and a comment "c"; the conversion *)
(* of a number; its rounding; and the encodings of a character.  Numbers   *)
(* have digits of base Radix; the limits are the code's for Radix = 10,    *)
(* NumberBits = 64, DoubleBits = 53, SafeDigits = 19, ExactPower = 22 and  *)
(* ExtraPower = 16.                                                        *)
(***************************************************************************)
EXTENDS Integers, Sequences, Readers, Probe
LOCAL JsonSeqs == INSTANCE SequencesExt

CONSTANTS
    MaxTokens,                         \* bound: tokens of a document
    Radix, NumberBits, DoubleBits,
    SafeDigits, ExactPower, ExtraPower,
    MaxDigits, MaxExponent             \* bound: digits and exponent of a number

Tokens == {"[", "]", "{", "}", ",", ":", "s", "n", "w", "c"}

PeekToken(d, r) == IF r.at <= Len(d) THEN d[r.at] ELSE "eof"
\* getIf fails the reader when the token is another one.
Get(d, r, t) == IF PeekToken(d, r) = t THEN Advance(r, 1) ELSE Fail(r)

RECURSIVE SkipWhitespaces(_, _, _)
SkipWhitespaces(d, r, comments) ==
    IF PeekToken(d, r) = "w" \/ (comments /\ PeekToken(d, r) = "c") THEN SkipWhitespaces(d, Advance(r, 1), comments) ELSE r

\* Between two values: comments are skipped only after a white space.
AfterValue(d, r, comments) == IF PeekToken(d, r) = "w" THEN SkipWhitespaces(d, r, comments) ELSE r

RECURSIVE JsonReadValue(_, _, _)
RECURSIVE ReadElements(_, _, _)
RECURSIVE ReadMembers(_, _, _)
\* What follows an element: read is the reader after it, next the reader after the white space.
AfterElement(d, read, next, comments) ==
    IF ~read.ok THEN read
    ELSE IF PeekToken(d, next) = "," THEN ReadElements(d, SkipWhitespaces(d, Advance(next, 1), comments), comments)
    ELSE IF PeekToken(d, next) = "]" THEN Stop(Advance(next, 1)) ELSE Fail(next)
Element(d, read, comments) == AfterElement(d, read, AfterValue(d, read, comments), comments)
ReadElements(d, r, comments) == Element(d, JsonReadValue(d, r, comments), comments)
OpenArray(d, open, comments) ==
    IF ~open.ok THEN open
    ELSE IF PeekToken(d, open) = "]" THEN Stop(Advance(open, 1)) ELSE ReadElements(d, open, comments)
ReadArray(d, r, comments) == OpenArray(d, SkipWhitespaces(d, Start(r, "arr"), comments), comments)
AfterMember(d, read, next, comments) ==
    IF ~read.ok THEN read
    ELSE IF PeekToken(d, next) = "," THEN ReadMembers(d, SkipWhitespaces(d, Advance(next, 1), comments), comments)
    ELSE IF PeekToken(d, next) = "}" THEN Stop(Advance(next, 1)) ELSE Fail(next)
Member(d, read, comments) == AfterMember(d, read, AfterValue(d, read, comments), comments)
AfterColon(d, colon, comments) ==
    IF ~colon.ok THEN colon ELSE Member(d, JsonReadValue(d, SkipWhitespaces(d, colon, comments), comments), comments)
AfterKey(d, key, comments) ==
    IF ~key.ok THEN key
    ELSE AfterColon(d, Get(d, IF PeekToken(d, key) = ":" THEN key ELSE SkipWhitespaces(d, key, comments), ":"), comments)
ReadMembers(d, r, comments) == AfterKey(d, SetKey(Get(d, r, "s"), StringOf("s")), comments)
OpenObject(d, open, comments) ==
    IF ~open.ok THEN open
    ELSE IF PeekToken(d, open) = "}" THEN Stop(Advance(open, 1)) ELSE ReadMembers(d, open, comments)
ReadObject(d, r, comments) == OpenObject(d, SkipWhitespaces(d, Start(r, "obj"), comments), comments)
JsonReadValue(d, r, comments) ==
    LET t == PeekToken(d, r) IN
    CASE t = "[" -> ReadArray(d, Advance(r, 1), comments)
      [] t = "{" -> ReadObject(d, Advance(r, 1), comments)
      [] t = "s" -> SetValue(Advance(r, 1), StringOf("s"))
      [] t = "n" -> SetValue(Advance(r, 1), NullValue)
      [] OTHER -> Fail(r)

Ended(d, end) == IF end.ok /\ PeekToken(d, end) # "eof" THEN Fail(end) ELSE end
JsonRead(d, comments) == Ended(d, SkipWhitespaces(d, JsonReadValue(d, SkipWhitespaces(d, NewReader, comments), comments), comments))

\* JsonWriter: _first, _stack (TRUE for an array) and what it has put out.
NewWriter(indent) == [out |-> <<>>, stack |-> <<>>, first |-> TRUE, indent |-> indent]
Emit(w, tokens) == [w EXCEPT !.out = @ \o tokens]
Comma(w) == IF w.stack # <<>> /\ ~w.first THEN Emit(w, <<",">>) ELSE w
EndLine(w) == IF w.indent THEN Emit(w, <<"w">>) ELSE w
BeforeItem(w) ==
    LET c == Comma(w) IN IF w.stack # <<>> /\ w.stack[Len(w.stack)] THEN EndLine(c) ELSE c
WriteWord(w, t) == [Emit(BeforeItem(w), <<t>>) EXCEPT !.first = FALSE]
WriteOpen(w, t) == [Emit(BeforeItem(w), <<t>>) EXCEPT !.first = TRUE, !.stack = Append(@, t = "[")]
WriteClose(w, t) ==
    LET line == IF w.first THEN w ELSE EndLine(w) IN
    [Emit(line, <<t>>) EXCEPT !.first = FALSE, !.stack = SubSeq(@, 1, Len(@) - 1)]
WriteKey(w) == [EndLine(Emit(EndLine(Comma(w)), <<"s", ":">>)) EXCEPT !.first = TRUE]

RECURSIVE JsonWriteValue(_, _)
RECURSIVE JsonWriteItems(_, _, _)
JsonWriteItems(w, v, i) ==
    IF i > Len(v.items) THEN w
    ELSE JsonWriteItems(IF v.k = "arr" THEN JsonWriteValue(w, v.items[i]) ELSE JsonWriteValue(WriteKey(w), v.items[i][2]), v, i + 1)
JsonWriteValue(w, v) ==
    CASE v.k = "null" -> WriteWord(w, "n")
      [] v.k = "str" -> WriteWord(w, "s")
      [] v.k = "arr" -> WriteClose(JsonWriteItems(WriteOpen(w, "["), v, 1), "]")
      [] v.k = "obj" -> WriteClose(JsonWriteItems(WriteOpen(w, "{"), v, 1), "}")
JsonWrite(v, indent) == JsonWriteValue(NewWriter(indent), v).out

\* readNumber.  The text of a number: sign, digits, fraction (<<>> or <<digits>>) and exponent (<<>> or <<n>>).
Wrap(n) == n % 2 ^ NumberBits
Limit(neg) == IF neg THEN 2 ^ (NumberBits - 1) ELSE 2 ^ NumberBits - 1

\* Mutant: the new digit is left out of the comparison.
FitsDivided(u, d, neg) == u <= Limit(neg) \div Radix

NextFits(u, d, neg) == u <= (Limit(neg) - d) \div Radix
\* One digit before the point; dbl once the number has left the range of the integers.
IntegerDigit(neg, s, d) ==
    IF ~s.dbl /\ s.digits > 0 /\ ~NextFits(s.u, d, neg) THEN [u |-> Wrap(s.u * Radix + d), digits |-> s.digits + 1, dbl |-> TRUE]
    ELSE [s EXCEPT !.u = Wrap(@ * Radix + d), !.digits = @ + 1]
FractionDigit(s, d) ==
    LET u == Wrap(s.u * Radix + d) IN [s EXCEPT !.u = u, !.digits = IF u # 0 \/ @ # 0 THEN @ + 1 ELSE @]
ReadNumberText(t) ==
    LET zero == [u |-> 0, digits |-> 0, dbl |-> FALSE]
        digit(s, d) == IntegerDigit(t.neg, s, d)
        whole == IF t.int = <<0>> THEN zero ELSE JsonSeqs!FoldLeft(digit, zero, t.int)
        part == IF t.frac = <<>> THEN whole ELSE JsonSeqs!FoldLeft(FractionDigit, whole, t.frac[1])
        exponent == (IF t.exp = <<>> THEN 0 ELSE t.exp[1]) - (IF t.frac = <<>> THEN 0 ELSE Len(t.frac[1]))
    IN IF t.int[1] = 0 /\ Len(t.int) > 1 THEN [by |-> "refused"]
       ELSE IF ~whole.dbl /\ t.frac = <<>> /\ t.exp = <<>> THEN [by |-> "integer", v |-> IF t.neg THEN -whole.u ELSE whole.u]
       ELSE IF part.digits <= SafeDigits THEN [by |-> "fast", u |-> part.u, e |-> exponent]
       ELSE [by |-> "slow"]

\* strtodFast, for an exponent that is not negative: the values of doubles are integers.
BitLength(n) == CHOOSE k \in 0..30 : n < 2 ^ k /\ (k = 0 \/ n >= 2 ^ (k - 1))
Nearest(n) ==
    LET k == BitLength(n) - DoubleBits
        q == n \div 2 ^ k
        rest == 2 * (n % 2 ^ k) - 2 ^ k
    IN IF k <= 0 THEN n ELSE (IF rest > 0 \/ (rest = 0 /\ q % 2 = 1) THEN q + 1 ELSE q) * 2 ^ k
\* The product of the significand and the power, cut to a word, and rounded by its last bits.
RoundWord(n) ==
    LET k == BitLength(n) - NumberBits
        high == IF k > 0 THEN n \div 2 ^ k ELSE n * 2 ^ (-k)
        middle == k > 0 /\ n % 2 ^ k # 0
        guard == NumberBits - DoubleBits
        mant == high \div 2 ^ guard
        frac == high % 2 ^ guard
        half == 2 ^ (guard - 1)
        up == frac > half \/ (frac = half /\ (middle \/ mant % 2 = 1)) \/ (frac = half - 1 /\ middle)
        r == (IF up THEN mant + 1 ELSE mant) * 2 ^ guard
    IN IF k >= 0 THEN r * 2 ^ k ELSE r \div 2 ^ (-k)
\* The exponent that was lowered to ExactPower is used with the significand that was not raised.
StrtodFast(u, e) ==
    LET lowered == e > ExactPower /\ e < ExactPower + ExtraPower
        scaled == IF lowered THEN Nearest(Nearest(u) * Radix ^ (e - ExactPower)) ELSE Nearest(u)
        exponent == IF lowered THEN ExactPower ELSE e
    IN IF exponent <= ExactPower /\ scaled < 2 ^ DoubleBits THEN Nearest(scaled * Radix ^ exponent)
       ELSE IF u = 0 THEN 0 ELSE RoundWord(u * Radix ^ exponent)

\* Characters.
EncodeUtf8(cp) ==
    IF cp < 128 THEN <<cp>>
    ELSE IF cp < 2048 THEN <<192 + cp \div 64, 128 + (cp % 64)>>
    ELSE IF cp < 65536 THEN <<224 + cp \div 4096, 128 + ((cp \div 64) % 64), 128 + (cp % 64)>>
    ELSE <<240 + cp \div 262144, 128 + ((cp \div 4096) % 64), 128 + ((cp \div 64) % 64), 128 + (cp % 64)>>
Invalid == -1
Utf8Codepoint(b) ==
    LET n == IF b[1] < 128 THEN 1 ELSE IF b[1] < 224 THEN 2 ELSE IF b[1] < 240 THEN 3 ELSE IF b[1] < 248 THEN 4 ELSE 5
        low(i) == b[i] % 64
        cp == CASE n = 1 -> b[1]
                [] n = 2 -> (b[1] % 32) * 64 + low(2)
                [] n = 3 -> (b[1] % 16) * 4096 + low(2) * 64 + low(3)
                [] n = 4 -> (b[1] % 8) * 262144 + low(2) * 4096 + low(3) * 64 + low(4)
    IN IF n = 5 \/ Len(b) < n THEN Invalid
       ELSE IF (n = 2 /\ cp < 128) \/ (n = 3 /\ (cp < 2048 \/ cp \in 55296..57343)) \/ (n = 4 /\ cp < 65536) THEN Invalid
       ELSE cp
\* writeEscaped: one or two 16 bit units.
Escaped(cp) ==
    IF cp <= 65535 THEN <<cp>> ELSE <<55296 + (((cp - 65536) \div 1024) % 1024), 56320 + ((cp - 65536) % 1024)>>
ReadUnicode(units) ==
    IF units[1] \in 56320..57343 THEN Invalid
    ELSE IF units[1] \in 55296..56319
    THEN IF Len(units) < 2 \/ units[2] \notin 56320..57343 THEN Invalid ELSE 65536 + (units[1] - 55296) * 1024 + (units[2] - 56320)
    ELSE units[1]

Codepoints == UNION {{c - 1, c, c + 1} : c \in {1, 127, 2047, 55295, 57344, 65535, 65537, 131071, 1114110}} \ {55296, 57343}
Units == UNION {{c - 1, c, c + 1} : c \in {1, 55296, 56320, 57343, 65534}}
Digits(lo, hi) == UNION {[1..n -> 0..Radix - 1] : n \in lo..hi}

JsonInit ==
    \/ Begin("json", (UNION {[1..n -> Tokens] : n \in 1..MaxTokens}) \X BOOLEAN)
    \/ Begin("number", [neg : BOOLEAN, int : Digits(1, MaxDigits), frac : {<<>>} \cup {<<f>> : f \in Digits(0, 2)},
                        exp : {<<>>, <<-1>>, <<2>>}])
    \/ Begin("fast", (0..2 ^ NumberBits - 1) \X (0..MaxExponent))
    \/ Begin("char", Codepoints)
    \/ Begin("units", {<<u>> : u \in Units} \cup (Units \X Units))
JsonNext ==
    \/ Compute("json", JsonRead(input[1], input[2]))
    \/ Compute("number", ReadNumberText(input))
    \/ Compute("fast", StrtodFast(input[1], input[2]))
    \/ Compute("char", [utf |-> EncodeUtf8(input), back |-> Utf8Codepoint(EncodeUtf8(input)), esc |-> ReadUnicode(Escaped(input))])
    \/ Compute("units", ReadUnicode(input))

\* The grammar: what a value and a list of elements or members is, white space apart.
RECURSIVE IsValue(_)
RECURSIVE IsList(_, _)
IsMember(t, k) == IF k = "arr" THEN IsValue(t) ELSE Len(t) > 2 /\ t[1] = "s" /\ t[2] = ":" /\ IsValue(SubSeq(t, 3, Len(t)))
IsList(t, k) == IsMember(t, k) \/ \E i \in DOMAIN t : t[i] = "," /\ IsMember(SubSeq(t, 1, i - 1), k) /\ IsList(SubSeq(t, i + 1, Len(t)), k)
IsValue(t) ==
    \/ t \in {<<"s">>, <<"n">>}
    \/ /\ Len(t) >= 2
       /\ LET inner == SubSeq(t, 2, Len(t) - 1) IN
          \/ t[1] = "[" /\ t[Len(t)] = "]" /\ (inner = <<>> \/ IsList(inner, "arr"))
          \/ t[1] = "{" /\ t[Len(t)] = "}" /\ (inner = <<>> \/ IsList(inner, "obj"))
Strip(d, comments) == LET keep(t) == t # "w" /\ ~(comments /\ t = "c") IN SelectSeq(d, keep)
\* A comment right after a value of a container, with no white space before it.
TightComment(d) == \E i \in 2..Len(d) : d[i] = "c" /\ d[i - 1] \in {"]", "}", "s", "n"}

(* Without comments the reader accepts exactly the grammar, for a container within the *)
(* depth of its stack, and with comments too except those that follow a value without  *)
(* a white space; the tree it builds, written again, compact or indented, is the same  *)
(* document.                                                                           *)
JsonIsGrammar ==
    Computed("json") =>
        LET text == Strip(input[1], input[2])
            depth == LET f(s, t) == IF t \in {"[", "{"} THEN <<s[1] + 1, IF s[1] + 1 > s[2] THEN s[1] + 1 ELSE s[2]>>
                                    ELSE IF t \in {"]", "}"} THEN <<s[1] - 1, s[2]>> ELSE s
                     IN JsonSeqs!FoldLeft(f, <<0, 0>>, text)[2]
            valid == Len(text) > 1 /\ IsValue(text) /\ depth <= MaxDepth
        IN /\ Result.ok => valid /\ JsonWrite(Result.root, FALSE) = text
           /\ Result.ok => Strip(JsonWrite(Result.root, TRUE), FALSE) = text /\ JsonRead(JsonWrite(Result.root, TRUE), FALSE).ok
           /\ valid /\ ~(input[2] /\ TightComment(input[1])) => Result.ok

ValueOf(digits) == LET f(s, d) == s * Radix + d IN JsonSeqs!FoldLeft(f, 0, digits)
(* A number without fraction and exponent is an integer, exactly, whenever it is in    *)
(* the range of the 64 bit types, at their last value too; the fast conversion is only *)
(* given a significand that holds every digit, so nothing has overflowed.              *)
NumberTextExact ==
    Computed("number") =>
        LET whole == ValueOf(input.int)
            plain == input.frac = <<>> /\ input.exp = <<>> IN
        /\ Result.by = "refused" <=> input.int[1] = 0 /\ Len(input.int) > 1
        /\ Result.by = "integer" => plain /\ Result.v = IF input.neg THEN -whole ELSE whole
        /\ (plain /\ Result.by # "refused" /\ whole <= Limit(input.neg)) => Result.by = "integer"
        /\ Result.by = "fast" =>
            LET all == input.int \o (IF input.frac = <<>> THEN <<>> ELSE input.frac[1]) IN
            Result.u = ValueOf(all) /\ Result.e = (IF input.exp = <<>> THEN 0 ELSE input.exp[1]) - (Len(all) - Len(input.int))

(* The fast conversion gives the nearest double while the significand, scaled, fits    *)
(* the mantissa.                                                                       *)
FastExactRange ==
    Computed("fast") => LET u == input[1] e == input[2] IN
        (e < ExactPower + ExtraPower /\ u * Radix ^ (IF e > ExactPower THEN e - ExactPower ELSE 0) < 2 ^ DoubleBits)
            => Result = Nearest(u * Radix ^ e)

(* Every character survives its encoding as bytes and as \u escapes, one unit or a     *)
(* surrogate pair, at every limit between two lengths; of the escapes exactly the      *)
(* units and the pairs that stand for a character are accepted.                        *)
CharactersSurvive ==
    /\ Computed("char") => Result.back = input /\ Result.esc = input
    /\ Computed("units") =>
        /\ Result # Invalid <=> (input[1] \notin 55296..57343 \/ (input[1] <= 56319 /\ Len(input) = 2 /\ input[2] \in 56320..57343))
        /\ Result # Invalid => Escaped(Result) = SubSeq(input, 1, IF input[1] \in 55296..56319 THEN 2 ELSE 1)
=============================================================================
