------------------------------ MODULE Readers -------------------------------
(***************************************************************************)
(* What the readers of JSON and MessagePack are built on (data/).          *)
(***************************************************************************)
EXTENDS Integers, Sequences, Probe
LOCAL INSTANCE SequencesExt

-----------------------------------------------------------------------------
(***************************************************************************)
(* StreamReader (data/sax.hpp): the handlers that build a tree of values   *)
(* out of the events a reader finds.  Code keeps a stack of pointers into  *)
(* the tree; here an open container is a frame, put in its parent when it  *)
(* is closed, which gives the same tree to a reader that succeeds.         *)
(***************************************************************************)
CONSTANT MaxDepth    \* _maxdepth, 19 in the code

ArrayOf(items) == [k |-> "arr", items |-> items]
ObjectOf(members) == [k |-> "obj", items |-> members]
NullValue == [k |-> "null"]
BoolValue(b) == [k |-> "bool", b |-> b]
StringOf(n) == [k |-> "str", n |-> n]    \* a string: its length, or a name
Container(v) == v.k \in {"arr", "obj"}

\* at: the position in the document; stack: open containers; ok: no handler has failed.
NewReader == [at |-> 1, stack |-> <<>>, key |-> NullValue, root |-> NullValue, ok |-> TRUE]
Fail(r) == [r EXCEPT !.ok = FALSE]
Advance(r, n) == [r EXCEPT !.at = @ + n]

Put(r, key, v) ==
    LET top == r.stack[Len(r.stack)]
        item == IF top.k = "obj" THEN <<key, v>> ELSE v
    IN [r EXCEPT !.stack[Len(r.stack)].items = Append(@, item)]

SetKey(r, key) == [r EXCEPT !.key = key]

SetValue(r, v) == IF r.stack = <<>> THEN Fail(r) ELSE Put(r, r.key, v)

\* startArray, startObject: the first container replaces the root.
Start(r, k) ==
    IF Len(r.stack) >= MaxDepth /\ r.stack # <<>> THEN Fail(r)
    ELSE [r EXCEPT !.stack = Append(@, [k |-> k, items |-> <<>>, key |-> r.key])]

\* stopArray, stopObject
Stop(r) ==
    LET n == Len(r.stack)
        v == [k |-> r.stack[n].k, items |-> r.stack[n].items]
        rest == [r EXCEPT !.stack = SubSeq(@, 1, n - 1)]
    IN IF n = 1 THEN [rest EXCEPT !.root = v] ELSE Put(rest, r.stack[n].key, v)

RECURSIVE Depth(_)
Depth(v) ==
    IF ~Container(v) THEN 0
    ELSE LET inner == {Depth(IF v.k = "obj" THEN v.items[i][2] ELSE v.items[i]) : i \in DOMAIN v.items}
         IN 1 + (IF inner = {} THEN 0 ELSE CHOOSE d \in inner : \A e \in inner : e <= d)

-----------------------------------------------------------------------------
(***************************************************************************)
(* The input views of data/view.hpp that the JSON and MessagePack readers  *)
(* are written against: StringView, a position in a string; Basic-         *)
(* StreamView, a stream buffer that is consumed; and BufferingView, which  *)
(* gives back what was read through it, by seeking when the view can seek  *)
(* and from a buffer of the thread when it cannot.                         *)
(***************************************************************************)
CONSTANTS MaxBlankText,     \* bound: characters of a text that is skipped
          MaxViewText,      \* bound: characters of a text that is read
          MaxViewCalls      \* bound: calls on the views of one text

Eof == "eof"
Whitespaces == {" ", "nl"}           \* whitespaceLookup
Escapes == {"e"}                     \* escapedLookup
ViewChars == {"a", "A", "e"}           \* a letter, the same in upper case, and one of Escapes
Lowered(c) == IF c = "A" THEN "a" ELSE c     \* c | 32
Least(S) == CHOOSE n \in S : \A m \in S : n <= m
FirstFrom(t, i, found(_)) == LET at == {k \in i..Len(t) : found(k)} IN IF at = {} THEN Len(t) + 1 ELSE Least(at)

\* StringView: the text and _cur.
StringPeek(v) == IF v.cur <= Len(v.text) THEN v.text[v.cur] ELSE Eof
StringGet(v) == [v EXCEPT !.cur = IF @ <= Len(v.text) THEN @ + 1 ELSE @]
StringGetIf(v, chars) == IF v.cur <= Len(v.text) /\ v.text[v.cur] \in chars THEN StringGet(v) ELSE v
StringRead(v, n) == [v EXCEPT !.cur = IF n < Len(v.text) + 1 - @ THEN @ + n ELSE Len(v.text) + 1]
StringReadUntilEscaped(v) == [v EXCEPT !.cur = FirstFrom(v.text, @, LAMBDA k : v.text[k] \in Escapes)]
StringSeek(v, pos) == [v EXCEPT !.cur = pos]

\* BasicStreamView: what the stream buffer has left.
StreamPeek(left) == IF left = <<>> THEN Eof ELSE left[1]
StreamGet(left) == IF left = <<>> THEN left ELSE Tail(left)
StreamGetIf(left, chars) == IF left # <<>> /\ left[1] \in chars THEN StreamGet(left) ELSE left
StreamRead(left, n) == SubSeq(left, n + 1, Len(left))
RECURSIVE StreamReadUntilEscaped(_)
StreamReadUntilEscaped(left) == IF left = <<>> \/ left[1] \in Escapes THEN left ELSE StreamReadUntilEscaped(Tail(left))

\* StringView::skipWhitespacesAndComments from position i: [ret, cur], where -1 leaves _cur alone.
RECURSIVE StringSkip(_, _)
StringSkip(t, i) ==
    LET w == FirstFrom(t, i, LAMBDA k : t[k] \notin Whitespaces)
        close == FirstFrom(t, w + 2, LAMBDA k : t[k] = "*" /\ k < Len(t) /\ t[k + 1] = "/")
        bad == [ret |-> -1, cur |-> 1]
    IN  IF w > Len(t) \/ t[w] # "/" THEN [ret |-> 0, cur |-> w]
        ELSE IF w = Len(t) THEN bad
        ELSE IF t[w + 1] = "*" THEN IF close > Len(t) THEN bad ELSE StringSkip(t, close + 2)
        ELSE IF t[w + 1] = "/" THEN StringSkip(t, FirstFrom(t, w + 2, LAMBDA k : t[k] = "nl"))
        ELSE bad

\* BasicStreamView::skipWhitespacesAndComments, one character at a time: [ret, left].
RECURSIVE StreamSkip(_, _)
StreamSkip(left, in) ==
    LET c == StreamPeek(left)
        rest == StreamGet(left)
    IN  CASE in = "blank" -> IF c \in Whitespaces THEN StreamSkip(rest, in)
                             ELSE IF c = "/" THEN StreamSkip(rest, "slash") ELSE [ret |-> 0, left |-> left]
          [] in = "slash" -> IF c = "*" THEN StreamSkip(rest, "block")
                             ELSE IF c = "/" THEN StreamSkip(rest, "line") ELSE [ret |-> -1, left |-> left]
          [] in = "block" -> IF c = Eof THEN [ret |-> -1, left |-> left]
                             ELSE IF c = "*" /\ StreamPeek(rest) = "/" THEN StreamSkip(Tail(rest), "blank")
                             ELSE StreamSkip(rest, in)
          [] in = "line" -> IF c = Eof THEN [ret |-> 0, left |-> left]
                            ELSE StreamSkip(rest, IF c = "nl" THEN "blank" ELSE in)

\* A string view and a stream view of one text, with two BufferingViews on each: _beg of the ones
\* that can seek, and the one buffer that all views of a thread that cannot seek share.
NewViews(text) == [v |-> [text |-> text, cur |-> 1], left |-> text, beg |-> <<1>>, buf |-> <<>>, outs |-> <<>>]
Pushed(s, left) == [s EXCEPT !.left = left, !.buf = IF left = s.left THEN @ ELSE Append(@, s.left[1])]
Said(s, seekable, buffered) == [s EXCEPT !.outs = Append(@, <<seekable, buffered>>)]

OpenView(s) == [s EXCEPT !.beg = Append(@, s.v.cur), !.buf = <<>>]
GetThrough(s) == [Said(Pushed(s, StreamGet(s.left)), StringPeek(s.v), StreamPeek(s.left)) EXCEPT !.v = StringGet(s.v)]
GetIfThrough(s, chars) ==
    LET v == StringGetIf(s.v, chars)
        left == StreamGetIf(s.left, chars)
    IN  [Said(Pushed(s, left), v # s.v, left # s.left) EXCEPT !.v = v]
\* snapshot: a seek to _beg and a read, or a copy of the buffer
Snapshot(s, k) ==
    LET n == s.v.cur - s.beg[k]
        back == StringSeek(s.v, s.beg[k])
    IN  [Said(s, SubSeq(s.v.text, back.cur, StringRead(back, n).cur - 1), s.buf) EXCEPT !.v = StringRead(back, n)]
Consume(s, k) == LET shot == Snapshot(s, k) IN [shot EXCEPT !.beg[k] = shot.v.cur, !.buf = <<>>]

ReadThrough(s) == [Said(s, StringRead(s.v, 2).cur - s.v.cur, Len(s.left) - Len(StreamRead(s.left, 2)))
                      EXCEPT !.v = StringRead(s.v, 2), !.left = StreamRead(s.left, 2)]
UntilThrough(s) == [s EXCEPT !.v = StringReadUntilEscaped(s.v), !.left = StreamReadUntilEscaped(s.left)]

ViewCall(s, c) ==
    CASE c = "open" -> OpenView(s)
      [] c = "get" -> GetThrough(s)
      [] c = "getIf" -> GetIfThrough(s, {"a"})
      [] c = "getIfNoCase" -> GetIfThrough(s, {x \in ViewChars : Lowered(x) = "a"})
      [] c = "read" -> ReadThrough(s)
      [] c = "until" -> UntilThrough(s)
      [] c = "snapshot" -> Snapshot(s, Len(s.beg))
      [] c = "consume" -> Consume(s, Len(s.beg))
ViewCalls == {"open", "get", "getIf", "getIfNoCase", "snapshot", "consume"}

ViewTexts(chars, n) == UNION {[1..m -> chars] : m \in 0..n}
ViewsInit ==
    \/ Begin("skip", ViewTexts({" ", "nl", "/", "*", "x"}, MaxBlankText))
    \/ Begin("views", ViewTexts(ViewChars, MaxViewText) \X {<<>>, <<"read">>, <<"until">>} \X ViewTexts(ViewCalls, MaxViewCalls))
ViewsNext ==
    \/ Compute("skip", [string |-> StringSkip(input, 1), stream |-> StreamSkip(input, "blank")])
    \/ Compute("views", FoldLeft(ViewCall, OpenView(FoldLeft(ViewCall, NewViews(input[1]), input[2])), input[3]))
-----------------------------------------------------------------------------
\* Reference: the positions that whitespace and whole comments reach from the start of a text.
Comment(t, i, j) ==
    /\ j - i >= 2 /\ t[i] = "/"
    /\ \/ /\ t[i + 1] = "/"
          /\ \A k \in i + 2..j - 1 : t[k] # "nl"
          /\ j = Len(t) + 1 \/ t[j] = "nl"
       \/ /\ t[i + 1] = "*" /\ j - i >= 4 /\ t[j - 2] = "*" /\ t[j - 1] = "/"
          /\ \A k \in i + 2..j - 4 : ~(t[k] = "*" /\ t[k + 1] = "/")
Blank(t, i, j) == (j = i + 1 /\ t[i] \in {" ", "nl"}) \/ Comment(t, i, j)
RECURSIVE Reached(_, _)
Reached(t, j) == j = 1 \/ \E i \in 1..j - 1 : Blank(t, i, j) /\ Reached(t, i)

(***************************************************************************)
(* Both kinds of view skip exactly the whitespace and the whole comments   *)
(* at the front of a text, refuse the same texts (a slash that begins no   *)
(* comment, a comment that does not end), and stop at the same character;  *)
(* a string view that refuses has not moved (the two                       *)
(* skipWhitespacesAndComments).                                            *)
(***************************************************************************)
SkipsBlanks ==
    Computed("skip") =>
        LET q == CHOOSE j \in 1..Len(input) + 1 :
                    Reached(input, j) /\ \A k \in j + 1..Len(input) + 1 : ~Reached(input, k)
            refused == q <= Len(input) /\ input[q] = "/"
        IN  /\ Result.string = [ret |-> IF refused THEN -1 ELSE 0, cur |-> IF refused THEN 1 ELSE q]
            /\ Result.stream.ret = Result.string.ret
            /\ ~refused => Result.stream.left = SubSeq(input, q, Len(input))

(***************************************************************************)
(* A reader cannot tell the kinds of view apart: every call through the    *)
(* newest BufferingView of a view gives the same whether the view seeks or *)
(* buffers, what is given back is exactly what was read since the view was *)
(* made or consumed, and the two stay at the same place of the text        *)
(* (BufferingView::get, getIf, getIfNoCase, snapshot, consume).            *)
(***************************************************************************)
ViewsAlike ==
    Computed("views") =>
        /\ \A i \in DOMAIN Result.outs : Result.outs[i][1] = Result.outs[i][2]
        /\ Result.left = SubSeq(input[1], Result.v.cur, Len(input[1]))
        /\ Result.buf = SubSeq(input[1], Last(Result.beg), Result.v.cur - 1)
=============================================================================
