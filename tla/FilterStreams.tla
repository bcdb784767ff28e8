--------------------------- MODULE FilterStreams ----------------------------
(***************************************************************************)
(* Stream buffers that code what goes through them: chunked bodies         *)
(* (services/), digests, signatures and base64 (crypto/), and compression  *)
(* (data/).                                                                *)
(***************************************************************************)
EXTENDS Integers, Sequences, Probe
LOCAL INSTANCE SequencesExt

-----------------------------------------------------------------------------
(***************************************************************************)
(* The chunked transfer coding (services/chunk_stream.cpp): a stream       *)
(* buffer that writes what is put in chunks, and one that reads chunks     *)
(* from the same kind of connection, which may be cut.  A chunk is a line  *)
(* with its size, the bytes, and an empty line; size 0 ends a body.        *)
(***************************************************************************)
CONSTANTS WriteSize, ReadSize,   \* _chunksize of the one that writes and of the one that reads
          MaxBytes,              \* bound: bytes put
          MaxEnds                \* bound: calls of flush

ASSUME ChunkAssumption == WriteSize \in Nat \ {0} /\ ReadSize \in Nat \ {0}

VARIABLES put,        \* bytes put so far; the n-th is the number n
          chunk,      \* bytes between pbase and pptr
          coded,      \* what was written and not read: sizes, bytes and empty lines
          parsed,     \* bytes the reader took
          reading,    \* [area, at]: the bytes between gptr and egptr; "open", "end" (a chunk of size 0), or "error"
          ends,       \* bytes put when flush ended a body, one entry for each time
          gone,       \* the writer was destroyed
          whole       \* the connection was not cut
chunkVars == <<put, chunk, coded, parsed, reading, ends, gone, whole>>

SizeLine(n) == <<[size |-> n]>>
Bytes(s) == [i \in DOMAIN s |-> [byte |-> s[i]]]
EmptyLine == <<[line |-> ""]>>
Coded(s) == IF s = <<>> THEN <<>> ELSE SizeLine(Len(s)) \o Bytes(s) \o EmptyLine
LastChunk == SizeLine(0) \o EmptyLine

\* sputc, and overflow with a character when the area is full: the chunk is written first.
ChunkPut ==
    /\ ~gone /\ put < MaxBytes /\ put' = put + 1
    /\ IF Len(chunk) = WriteSize
       THEN coded' = coded \o Coded(chunk) /\ chunk' = <<put + 1>>
       ELSE chunk' = Append(chunk, put + 1) /\ UNCHANGED coded
    /\ UNCHANGED <<parsed, reading, ends, gone, whole>>
\* sync, overflow without a character: what is pending, and the chunk that ends the body.
ChunkFlush ==
    /\ ~gone /\ Len(ends) < MaxEnds
    /\ coded' = coded \o Coded(chunk) \o LastChunk /\ chunk' = <<>> /\ ends' = Append(ends, put)
    /\ UNCHANGED <<put, parsed, reading, gone, whole>>
\* The destructor, which clearEncoding calls: the body is ended only if something is pending.
ChunkDestroyed ==
    /\ ~gone /\ gone' = TRUE
    /\ IF chunk = <<>>
       THEN UNCHANGED <<coded, chunk, ends>>
       ELSE coded' = coded \o Coded(chunk) \o LastChunk /\ chunk' = <<>> /\ ends' = Append(ends, put)
    /\ UNCHANGED <<put, parsed, reading, whole>>
\* The connection loses its end.
ChunkCut ==
    /\ whole /\ \E n \in 0..(Len(coded) - 1) : coded' = SubSeq(coded, 1, n)
    /\ gone' = TRUE /\ whole' = FALSE /\ UNCHANGED <<put, chunk, parsed, reading, ends>>

Whole(n) == Len(coded) >= n + 2 /\ \A i \in 2..(n + 1) : "byte" \in DOMAIN coded[i]
\* underflow, at the end of the area: size, bytes and line are read; too large a chunk and bytes that
\* the size does not count are errors, like the end of the connection.
ChunkUnderflow ==
    /\ reading.at = "open" /\ reading.area = <<>> /\ coded # <<>>
    /\ LET n == coded[1].size IN
        IF n > ReadSize
        THEN reading' = [reading EXCEPT !.at = "error"] /\ coded' = Tail(coded)
        ELSE /\ Whole(n) \/ ~whole
             /\ IF ~Whole(n) \/ "line" \notin DOMAIN coded[n + 2]
                THEN reading' = [reading EXCEPT !.at = "error"] /\ coded' = <<>>
                ELSE /\ reading' = [area |-> [i \in 1..n |-> coded[i + 1].byte], at |-> IF n = 0 THEN "end" ELSE "open"]
                     /\ coded' = SubSeq(coded, n + 3, Len(coded))
    /\ UNCHANGED <<put, chunk, parsed, ends, gone, whole>>
ChunkGet ==
    /\ reading.area # <<>> /\ parsed' = Append(parsed, Head(reading.area))
    /\ reading' = [reading EXCEPT !.area = Tail(@)]
    /\ UNCHANGED <<put, chunk, coded, ends, gone, whole>>

ChunkInit ==
    /\ put = 0 /\ chunk = <<>> /\ coded = <<>> /\ parsed = <<>> /\ reading = [area |-> <<>>, at |-> "open"]
    /\ ends = <<>> /\ gone = FALSE /\ whole = TRUE
ChunkNext == ChunkPut \/ ChunkFlush \/ ChunkDestroyed \/ ChunkCut \/ ChunkUnderflow \/ ChunkGet

----------------------------------------------------------------------------
(***************************************************************************)
(* The reader takes the bytes that were put, each once and in order, and   *)
(* meets an end exactly where the first flush made one: a body is cut      *)
(* short by every flush but the last.  It meets an error only on a         *)
(* connection that was cut, or when its chunks are smaller.                *)
(***************************************************************************)
BodyReadBack ==
    /\ parsed = [i \in 1..Len(parsed) |-> i]
    /\ reading.at = "end" => ends # <<>> /\ Len(parsed) = ends[1]
    /\ reading.at = "error" => ~whole \/ ReadSize < WriteSize

(***************************************************************************)
(* A writer destroyed unflushed ends its body too, although it does so     *)
(* only when something is pending: a full chunk is written no sooner than  *)
(* the next byte, so that the area is never empty after a put.             *)
(***************************************************************************)
DestroyedIsEnded == gone /\ whole /\ put > 0 => ends # <<>> /\ ends[Len(ends)] = put

-----------------------------------------------------------------------------
(***************************************************************************)
(* The output streams of crypto/: Encoder and Decoder (base64.cpp), Digest *)
(* (digest.cpp), Hmac (hmac.cpp) and Signature (signature.cpp).  They have *)
(* one shape: a buffer of BufSize characters, an OpenSSL context made when *)
(* it is first needed and dropped by the call that asks for the result,    *)
(* and an overflow that hands the buffer to the context.  A character is a *)
(* number, its place in the text, or LineBreak or Bad.  The base64 sizes   *)
(* are scaled: Quad for 4, QuadBytes for 3, Block for 64 characters.       *)
(***************************************************************************)
CONSTANTS Quad, QuadBytes, Block, BufSize,
          MaxCalls     \* bound: characters written and results asked for

VARIABLES codec,     \* which of the five streams
          based,     \* pbase() is set
          pending,   \* the characters of the buffer
          ctx,       \* NoCtx, or <<what the context holds>>
          out,       \* _out
          failed,    \* failbit or badbit of the stream
          since,     \* history: what was written since the last result
          spoilt,    \* history: an earlier text had a bad character
          got,       \* history: <<text, result>> of the last call that gave one
          calls      \* the calls so far

cryptoVars == <<codec, based, pending, ctx, out, failed, since, spoilt, got, calls>>

Codecs == {"encode", "decode", "digest", "hmac", "sign"}
LineBreak == -1
Bad == -2
Zero == <<0, <<>>>>
NoCtx == <<>>

\* What a decoder makes of whole quads: each gives QuadBytes bytes.
Decoded(chars) ==
    [i \in 1..((Len(chars) \div Quad) * QuadBytes) |->
        <<(i - 1) % QuadBytes, SubSeq(chars, Quad * ((i - 1) \div QuadBytes) + 1, Quad * ((i - 1) \div QuadBytes) + Quad)>>]

\* EVP_DecodeUpdate: line breaks are skipped, and what fills no quad stays in the context.
DecodeUpdate(left, chars) ==
    LET all == left \o SelectSeq(chars, LAMBDA c : c # LineBreak)
        rest == Len(all) % Block
        used == IF rest % Quad = 0 THEN Len(all) ELSE Len(all) - rest
    IN  [ok |-> Bad \notin Range(all), bytes |-> Decoded(SubSeq(all, 1, used)), left |-> SubSeq(all, used + 1, Len(all))]

\* The bytes past the size that _out was given are written, then cleared by the second resize.
Resized(old, size, bytes) == old \o [i \in DOMAIN bytes |-> IF i <= size THEN bytes[i] ELSE Zero]

\* The call to the context: [ok, ctx, out].
Update(left, o) ==
    IF codec = "decode"
    THEN LET u == DecodeUpdate(left, pending)
         IN  [ok |-> u.ok, ctx |-> <<u.left>>, out |-> Resized(o, Len(pending), u.bytes)]
    ELSE [ok |-> TRUE, ctx |-> <<left \o pending>>, out |-> o]

MakeCtx == IF ctx = NoCtx THEN <<<<>>>> ELSE ctx
MakeOut == IF ctx = NoCtx THEN <<>> ELSE out

\* overflow(eof) when something is pending; the buffer keeps its characters when the context refuses them.
CryptoFlush == IF pending = <<>> THEN [ok |-> TRUE, ctx |-> MakeCtx, out |-> MakeOut] ELSE Update(MakeCtx[1], MakeOut)

\* overflow(c): the first character, or one for which the buffer has no room.
Overflow(c) ==
    LET f == CryptoFlush IN
    IF ~based THEN /\ pending' = Append(pending, c) /\ based' = TRUE
                   /\ ctx' = MakeCtx /\ out' = MakeOut /\ failed' = failed
    ELSE /\ pending' = IF f.ok THEN <<c>> ELSE pending
         /\ ctx' = f.ctx /\ out' = f.out /\ failed' = ~f.ok /\ based' = TRUE

\* One character of a write; a stream that failed drops it.
CryptoPut(c) ==
    /\ ~failed /\ calls < MaxCalls /\ calls' = calls + 1
    /\ since' = Append(since, c)
    /\ IF based /\ Len(pending) < BufSize
       THEN pending' = Append(pending, c) /\ UNCHANGED <<based, ctx, out, failed>>
       ELSE Overflow(c)
    /\ UNCHANGED <<codec, spoilt, got>>

\* EVP_EncodeFinal, EVP_DigestFinal_ex, EVP_MAC_final; EVP_DecodeFinal forgets an unfinished quad.
Final(f) == IF codec = "decode" THEN f.out ELSE f.out \o f.ctx

\* get, finalize: flush, take the result, drop the context; an empty result fails the stream.
GetResult(f, r) ==
    /\ ctx' = NoCtx /\ out' = f.out /\ based' = TRUE
    /\ pending' = IF f.ok THEN <<>> ELSE pending
    /\ failed' = (failed \/ (codec # "sign" /\ (r = <<>> \/ (codec = "encode" /\ r = <<<<>>>>))))
    /\ got' = <<since, r>> /\ since' = <<>> /\ spoilt' = (spoilt \/ Bad \in Range(since))
    /\ UNCHANGED codec
GetFrom(f) == GetResult(f, IF f.ok THEN Final(f) ELSE <<>>)
GetStep == GetFrom(CryptoFlush)
CryptoGet == calls < MaxCalls /\ calls' = calls + 1 /\ GetStep

\* sign and verify with a key that cannot be loaded: TlsKey throws between the flush and the drop of the context.
BadKey ==
    /\ codec = "sign" /\ calls < MaxCalls /\ calls' = calls + 1
    /\ ctx' = CryptoFlush.ctx /\ out' = CryptoFlush.out /\ based' = TRUE /\ pending' = <<>>
    /\ UNCHANGED <<codec, failed, since, spoilt, got>>

\* clear(), by the user of the stream.
Clear == failed /\ failed' = FALSE /\ UNCHANGED <<codec, based, pending, ctx, out, since, spoilt, got, calls>>

Symbols == IF codec = "decode" THEN {Len(since) + 1, LineBreak, Bad} ELSE {Len(since) + 1}

CryptoInit ==
    /\ codec \in Codecs /\ based = FALSE /\ pending = <<>> /\ ctx = NoCtx /\ out = <<>>
    /\ failed = FALSE /\ since = <<>> /\ spoilt = FALSE /\ got = <<>> /\ calls = 0
CryptoNext == (\E c \in Symbols : CryptoPut(c)) \/ CryptoGet \/ BadKey \/ Clear

----------------------------------------------------------------------------
PlainText(s) == SelectSeq(s, LAMBDA c : c # LineBreak)
CryptoText == got[1]
Clean == got # <<>> /\ ~spoilt /\ Len(PlainText(CryptoText)) % Quad = 0    \* spoilt tells of CryptoText too

(***************************************************************************)
(* The result of get, finalize and sign is that of the characters written  *)
(* since the last one, however they met the limits of the buffer: nothing  *)
(* of an earlier text, nothing twice, nothing lost.  For the decoder this  *)
(* needs a text without line breaks and no bad character before it.        *)
(***************************************************************************)
ResultOfText ==
    Clean => CASE codec # "decode" -> got[2] = <<CryptoText>>
               [] codec = "decode" -> LineBreak \notin Range(CryptoText) => got[2] = Decoded(CryptoText)

(***************************************************************************)
(* With line breaks a decoded text keeps its length, and loses bytes (they *)
(* read as zeros) only when a flush left an unfinished block in the        *)
(* context: a text that fits the buffer, or without a break in the part    *)
(* flushed before get, is decoded exactly.                                 *)
(***************************************************************************)
BreaksLoseAtFlush ==
    (Clean /\ codec = "decode") =>
        LET exact == Decoded(PlainText(CryptoText))
            flushed == BufSize * ((Len(CryptoText) - 1) \div BufSize)
        IN  /\ Len(got[2]) = Len(exact)
            /\ \A k \in DOMAIN exact : got[2][k] \in {exact[k], Zero}
            /\ (CryptoText = <<>> \/ LineBreak \notin Range(SubSeq(CryptoText, 1, flushed))) => got[2] = exact

(***************************************************************************)
(* A decoder that met a bad character never gives a result again, cleared  *)
(* or not: the buffer it was in stays pending and is offered to every new  *)
(* context.                                                                *)
(***************************************************************************)
RefusedForEver == (got # <<>> /\ spoilt) => got[2] = <<>>

-----------------------------------------------------------------------------
(***************************************************************************)
(* Zstreambuf (data/zstream.cpp): a stream that deflates what is written   *)
(* and inflates what is read, over one inner stream.  A byte is "r", which *)
(* does not compress, or "c": a run of "c" takes one cell of the deflated  *)
(* stream.  A member of the stream is a head, cells and an end.  ZArea     *)
(* stands for _bufsize, 16384, and BlockSymbols for the 16383 symbols that *)
(* zlib gathers before it gives output.                                    *)
(***************************************************************************)
CONSTANTS ZArea, BlockSymbols,
          MaxZCalls    \* bound: calls on one stream

ZHead == <<"head">>
ZEnd == <<"end">>
Lesser(a, b) == IF a < b THEN a ELSE b

\* A stream: the put area, zlib's two states, the inner stream and what the reader has.
NewZ == [area |-> <<>>, held |-> <<>>, pend |-> <<>>, begun |-> FALSE, inner |-> <<>>,
         in |-> <<>>, mode |-> "head", got |-> <<>>, stale |-> <<>>,
         wrote |-> <<>>, flushed |-> <<>>, dropped |-> <<>>]    \* history

RECURSIVE Cells(_)
Cells(bytes) ==
    IF bytes = <<>> THEN <<>>
    ELSE LET cells == Cells(Front(bytes))
             joins == cells # <<>> /\ Last(bytes) = "c" /\ Last(Last(cells)) = "c"
         IN  IF joins THEN Append(Front(cells), Append(Last(cells), "c")) ELSE Append(cells, <<Last(bytes)>>)

\* deflate: output that is waiting goes first, and input is not looked at while it fills the area.
Deflate(z, flush) ==
    LET stalled == Len(z.pend) >= ZArea
        held == IF stalled THEN z.held ELSE z.held \o z.area
        closes == ~stalled /\ (flush = "finish" \/ Len(held) >= BlockSymbols)
        ready == z.pend \o (IF z.begun THEN <<>> ELSE <<ZHead>>) \o (IF closes THEN Cells(held) ELSE <<>>)
                 \o (IF closes /\ flush = "finish" THEN <<ZEnd>> ELSE <<>>)
        n == Lesser(ZArea, Len(ready))
    IN [z EXCEPT !.area = IF stalled THEN @ ELSE <<>>, !.held = IF closes THEN <<>> ELSE held, !.begun = TRUE,
                 !.pend = SubSeq(ready, n + 1, Len(ready)), !.inner = @ \o SubSeq(ready, 1, n)]

RECURSIVE DeflateInput(_, _)
DeflateInput(z, flush) == IF z.area = <<>> THEN z ELSE DeflateInput(Deflate(z, flush), flush)

\* overflow (c) with a full area, and overflow (eof)
ZOverflow(z) == DeflateInput(z, "none")
ZOverflowEof(z) == DeflateInput(z, "finish")

ZPut(z, c) ==
    LET room == IF Len(z.area) = ZArea THEN ZOverflow(z) ELSE z
    IN  [room EXCEPT !.area = Append(@, c), !.wrote = Append(@, c)]

\* sync: deflateReset drops what zlib still holds.
ZSync(z) ==
    LET done == ZOverflowEof(z)
    IN  [done EXCEPT !.held = <<>>, !.pend = <<>>, !.begun = FALSE, !.flushed = @ \o z.wrote, !.wrote = <<>>,
                     !.dropped = @ \o done.pend]

\* inflate: the input left, the output and the mode it ends in.  The end takes no room in the output.
RECURSIVE Inflate(_, _, _)
Inflate(cells, made, mode) ==
    IF cells = <<>> \/ mode \in {"end", "error"} \/ (Len(made) = ZArea /\ cells[1] # ZEnd) THEN [in |-> cells, out |-> made, mode |-> mode]
    ELSE LET c == cells[1]
             rest == Tail(cells)
         IN  IF mode = "head" THEN Inflate(rest, made, IF c = ZHead THEN "body" ELSE "error")
             ELSE IF c = ZEnd THEN Inflate(rest, made, "end")
             ELSE IF c = ZHead THEN Inflate(rest, made, "error")
             ELSE Inflate(IF Len(c) = 1 THEN rest ELSE <<Tail(c)>> \o rest, Append(made, c[1]), mode)

\* underflow, until it gives the end of file, or inflate gave nothing and *gptr () is a stale character.
RECURSIVE ZUnderflow(_)
ZUnderflow(z) ==
    IF z.in = <<>> /\ z.mode = "end" THEN [z EXCEPT !.mode = "head"]
    ELSE LET n == Lesser(ZArea, Len(z.inner))
             fill == IF z.in # <<>> THEN z
                     ELSE [z EXCEPT !.in = SubSeq(z.inner, 1, n), !.inner = SubSeq(z.inner, n + 1, Len(z.inner))]
             i == Inflate(fill.in, <<>>, fill.mode)
             read == [fill EXCEPT !.in = i.in, !.mode = i.mode, !.got = @ \o i.out]
         IN  IF fill.in = <<>> THEN fill
             ELSE IF i.mode = "error" THEN [fill EXCEPT !.in = i.in, !.mode = "error"]
             ELSE IF i.out = <<>> THEN [read EXCEPT !.stale = fill.in]
             ELSE ZUnderflow(read)

ZCall(z, call) ==
    CASE call = "flush" -> ZSync(z)
      [] call = "read" -> IF z.stale # <<>> \/ z.mode = "error" THEN z ELSE ZUnderflow(z)
      [] OTHER -> ZPut(z, call)

\* ~Zstreambuf: what is still in the area is deflated, and zlib's state is dropped.
ZDestroy(z) == LET done == ZOverflowEof(z) IN [done EXCEPT !.flushed = @ \o z.wrote, !.dropped = @ \o done.pend]

ZRun(script) == ZDestroy(FoldLeft(ZCall, NewZ, script))

ZCalls == UNION {[1..n -> {"r", "c", "flush", "read"}] : n \in 0..MaxZCalls}
ZInit == Begin("zstream", ZCalls)
ZNext == Compute("zstream", ZRun(input))
-----------------------------------------------------------------------------
\* Texts are flushed and read one after the other, the last one too.
OneByOne(script) ==
    /\ script # <<>> /\ Last(script) = "read"
    /\ \A j \in DOMAIN script : script[j] = "read" => j > 1 /\ script[j - 1] \in {"flush", "read"}
    /\ \A i, j \in DOMAIN script :
          i < j /\ script[i] = "flush" /\ script[j] \in {"r", "c"} => \E k \in i..j : script[k] = "read"

(***************************************************************************)
(* Texts that are flushed and read one after the other are read back       *)
(* whole unless a flush dropped cells, and a flush that dropped a cell of  *)
(* its text, which is reported as a success, loses that part for the       *)
(* reader (Zstreambuf::overflow, sync and underflow): overflow stops when  *)
(* the input is taken, and the deflated bytes that did not fit the area    *)
(* are dropped by deflateReset.  The reader is given characters that       *)
(* nobody wrote only when the end of a text begins a chunk of the input:   *)
(* inflate then gives no output and underflow reads an empty get area.     *)
(***************************************************************************)
ReadBackUnlessCut ==
    Computed("zstream") /\ OneByOne(input) =>
        /\ Result.dropped = <<>> => Result.got = Result.flushed
        /\ Range(Result.dropped) \subseteq {ZEnd} \/ Result.got # Result.flushed
        /\ Result.stale \in {<<>>, <<ZEnd>>}

(***************************************************************************)
(* A text that is written, flushed and read is read back                   *)
(* (zstream_test.cpp checks it for one short text).                        *)
(***************************************************************************)
InflatesWhatWasDeflated ==
    Computed("zstream") /\ OneByOne(input) => Result.got = Result.flushed
=============================================================================
