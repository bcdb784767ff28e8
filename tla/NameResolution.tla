--------------------------- MODULE NameResolution ---------------------------
(***************************************************************************)
(* Names asked for (fabric/resolver.hpp, nameserver.hpp): the queries, and *)
(* the framing of DNS over TLS.                                            *)
(***************************************************************************)
EXTENDS Integers, Sequences, FiniteSets, Functions, SequencesExt

-----------------------------------------------------------------------------
(***************************************************************************)
(* Names asked for through a DNS resolver (fabric/resolver.hpp) or a       *)
(* multicast peer (fabric/nameserver.hpp) that threads share, or through   *)
(* resolvers of their own (lookups).  Answers come back to the reactor      *)
(* thread, which matches them by a random 16 bit id, here one of QueryIds. *)
(* The network loses, delays and copies; the connection of the shared      *)
(* resolver is made by whichever thread finds that it is needed, without a *)
(* lock, and taken down by the reactor thread when the server goes away.   *)
(***************************************************************************)
CONSTANTS Askers, QueryIds,    \* 0 is the id of announcements
          NameServers,         \* how many servers a lookup tries
          MaxAsked             \* bound: questions asked

VARIABLES through,       \* "resolver" or "peer": what the threads share
          topic,         \* what they ask for
          tabled,        \* <<socket, id>> -> PendingRequest (_pending)
          asker,         \* thread -> its call
          inFlight,      \* responses on their way
          dnsLink,          \* the shared resolver's socket
          closing,       \* where the reactor thread is in onClose
          asked          \* history: the ids of the questions asked so far

nameVars == <<through, topic, tabled, asker, inFlight, dnsLink, closing, asked>>

\* What a function asks for, question by question; it keeps the answers of that type that are not blank.
ResolveAllAddress(family) == <<IF family = 6 THEN "AAAA" ELSE "A">>
ResolveAnyAddress == ResolveAllAddress(4) \o ResolveAllAddress(6)
ResolveAllName == <<"PTR">>
ResolveAllNameServer == <<"NS">>
ResolveAuthority == <<"SOA">>
ResolveAllMailExchanger == <<"MX">>
\* The functions called on a topic, and whether as lookups.
Called == [address |-> {<<ResolveAnyAddress, FALSE>>, <<ResolveAllName, TRUE>>}, server |-> {<<ResolveAllNameServer, FALSE>>},
           authority |-> {<<ResolveAuthority, FALSE>>}, mail |-> {<<ResolveAllMailExchanger, FALSE>>}]
Kept(type, answers) == {a \in answers : a.type = type /\ ~a.blank}

Shared == <<"shared", 0>>
NoPacket == [req |-> 0, id |-> -1, answers |-> {}, ec |-> "none"]
NoQuery == [at |-> "idle", todo |-> <<>>, fn |-> <<>>, lookup |-> FALSE, server |-> 0, id |-> 0, req |-> 0, found |-> {}, got |-> NoPacket]
SocketOf(t) == IF asker[t].lookup THEN <<t, asker[t].server>> ELSE Shared
Key(t) == <<SocketOf(t), asker[t].id>>

CallBegins(t, fn, lookup) ==
    /\ asker[t].at = "idle" /\ Len(asked) < MaxAsked /\ (lookup => through = "resolver")
    /\ asker' = [asker EXCEPT ![t] = [NoQuery EXCEPT !.at = "query", !.todo = fn, !.fn = fn, !.lookup = lookup, !.server = 1]]
    /\ UNCHANGED <<through, topic, tabled, inFlight, dnsLink, closing, asked>>

\* A question that has no answer: the next one, the next server, or the end.
After(c) ==
    LET rest == Tail(c.todo) IN
    IF rest # <<>> THEN [c EXCEPT !.at = "query", !.todo = rest]
    ELSE IF c.lookup /\ c.found = {} /\ c.server < NameServers THEN [c EXCEPT !.at = "query", !.todo = c.fn, !.server = @ + 1]
    ELSE [NoQuery EXCEPT !.id = c.id, !.req = c.req, !.got = c.got]
Fails(t) == asker' = [asker EXCEPT ![t] = After([asker[t] EXCEPT !.got = NoPacket])]

----------------------------------------------------------------------------
(* The connection: needReconnection, disconnect, connect and addHandler are  *)
(* steps of their own, and another thread may be in the middle of them.      *)
NeedReconnection(t) ==
    /\ asker[t].at = "query"
    /\ asker' = [asker EXCEPT ![t].got = NoPacket, ![t].id = 0, ![t].req = 0, ![t].at = IF SocketOf(t) # Shared \/ through = "peer" \/ dnsLink.connected THEN "send" ELSE "del"]
    /\ UNCHANGED <<through, topic, tabled, inFlight, dnsLink, closing, asked>>
DelHandler(t) ==
    /\ asker[t].at = "del" /\ asker' = [asker EXCEPT ![t].at = "disc"] /\ dnsLink' = [dnsLink EXCEPT !.watched = FALSE]
    /\ UNCHANGED <<through, topic, tabled, inFlight, closing, asked>>
Disconnect(t) ==
    /\ asker[t].at = "disc" /\ asker' = [asker EXCEPT ![t].at = "conn"] /\ dnsLink' = [dnsLink EXCEPT !.connected = FALSE]
    /\ UNCHANGED <<through, topic, tabled, inFlight, closing, asked>>
\* A socket another thread connected meanwhile is in use, and the failure closes it, watched or not.
Connect(t, fails) ==
    /\ asker[t].at = "conn"
    /\ IF fails \/ dnsLink.connected
       THEN dnsLink' = [connected |-> FALSE, watched |-> FALSE] /\ Fails(t)
       ELSE dnsLink' = [dnsLink EXCEPT !.connected = TRUE] /\ asker' = [asker EXCEPT ![t].at = "add"]
    /\ UNCHANGED <<through, topic, tabled, inFlight, closing, asked>>
\* The socket may have been closed: adding fails then, and nobody looks.
AddHandler(t) ==
    /\ asker[t].at = "add" /\ asker' = [asker EXCEPT ![t].at = "send"] /\ dnsLink' = [dnsLink EXCEPT !.watched = dnsLink.connected]
    /\ UNCHANGED <<through, topic, tabled, inFlight, closing, asked>>

\* The server closes: the reactor thread removes the handler, then disconnects.
OnClose(step) ==
    /\ closing = step /\ through = "resolver"
    /\ closing' = IF step = "idle" THEN "disc" ELSE "idle"
    /\ dnsLink' = IF step = "idle" THEN [dnsLink EXCEPT !.watched = FALSE] ELSE [dnsLink EXCEPT !.connected = FALSE]
    /\ step = "idle" => dnsLink.watched
    /\ UNCHANGED <<through, topic, tabled, asker, inFlight, asked>>

----------------------------------------------------------------------------
(* The question, under the lock until the wait.  An id in use is refused.    *)
AnswersTo(type) == {[type |-> type, blank |-> FALSE], [type |-> type, blank |-> TRUE], [type |-> "NS", blank |-> FALSE]}
Send(t, id, r) ==
    LET c == asker[t]
        n == Len(asked) + 1
        key == <<SocketOf(t), id>>
        refused == key \in DOMAIN tabled
        unsent == through = "resolver" /\ SocketOf(t) = Shared /\ ~dnsLink.connected
    IN
    /\ c.at = "send" /\ n <= MaxAsked
    /\ asked' = Append(asked, id)
    /\ IF refused \/ unsent
       THEN Fails(t) /\ UNCHANGED <<tabled, inFlight>>
       ELSE /\ tabled' = [k \in DOMAIN tabled \cup {key} |-> IF k = key THEN NoPacket ELSE tabled[k]]
            /\ asker' = [asker EXCEPT ![t].at = "wait", ![t].id = id, ![t].req = n]
            /\ inFlight' = inFlight \cup {[r EXCEPT !.to = SocketOf(t), !.id = id, !.req = n]}
    /\ UNCHANGED <<through, topic, dnsLink, closing>>

\* What another peer sends on its own has id 0: announced records (goodbyes too) are a response, probes and browsing are questions.
Unasked(response) == [to |-> Shared, id |-> 0, req |-> 0, response |-> response, answers |-> {[type |-> "A", blank |-> FALSE]}, rcode |-> "none", tc |-> FALSE]
AnnounceRecords == Unasked(TRUE)
GoodbyeRecords == Unasked(TRUE)
ProbeRecords == Unasked(FALSE)
BrowseService == Unasked(FALSE)
Announce(message) ==
    /\ through = "peer" /\ \A r \in inFlight : r.req # 0
    /\ inFlight' = inFlight \cup {message}
    /\ UNCHANGED <<through, topic, tabled, asker, dnsLink, closing, asked>>

\* A resolver takes a truncated answer for an error, a peer does not.
DecodeError(r) == IF r.rcode # "none" THEN r.rcode ELSE IF r.tc /\ through = "resolver" THEN "toolong" ELSE "none"
\* The entry is filled, over an earlier answer too, and its thread woken.  Other responses are dropped, or announced; questions go to onQuery, or are dropped.
OnDnsReadable(r, copied) ==
    /\ r.to = Shared /\ through = "resolver" => dnsLink.watched /\ dnsLink.connected
    /\ inFlight' = IF copied THEN inFlight ELSE inFlight \ {r}
    /\ tabled' = [k \in DOMAIN tabled |-> IF r.response /\ k = <<r.to, r.id>> THEN [req |-> r.req, id |-> r.id, answers |-> r.answers, ec |-> DecodeError(r)] ELSE tabled[k]]
    /\ asker' = [t \in Askers |-> IF r.response /\ asker[t].at = "wait" /\ Key(t) = <<r.to, r.id>> THEN [asker[t] EXCEPT !.at = "woken"] ELSE asker[t]]
    /\ UNCHANGED <<through, topic, dnsLink, closing, asked>>

\* The wait has no predicate: it may end by itself, with the entry still empty.
WakesAlone(t) == asker[t].at = "wait" /\ asker' = [asker EXCEPT ![t].at = "woken"] /\ UNCHANGED <<through, topic, tabled, inFlight, dnsLink, closing, asked>>
TimesOut(t) == asker[t].at = "wait" /\ asker' = [asker EXCEPT ![t].at = "late"] /\ UNCHANGED <<through, topic, tabled, inFlight, dnsLink, closing, asked>>

\* Mutant: a query that ends stays in the table.
QueryEndsKept(t) ==
    LET e == tabled[Key(t)] IN
    /\ asker[t].at \in {"woken", "late"}
    /\ IF asker[t].at = "late" \/ e.ec # "none" THEN Fails(t)
       ELSE asker' = [asker EXCEPT ![t] = After([asker[t] EXCEPT !.got = e, !.found = @ \cup Kept(Head(asker[t].todo), e.answers)])]
    /\ UNCHANGED <<through, topic, tabled, inFlight, dnsLink, closing, asked>>

\* The lock is taken again: the entry is as it is now.
QueryEnds(t) ==
    LET e == tabled[Key(t)] IN
    /\ asker[t].at \in {"woken", "late"}
    /\ tabled' = Restrict(tabled, DOMAIN tabled \ {Key(t)})
    /\ IF asker[t].at = "late" \/ e.ec # "none" THEN Fails(t)
       ELSE asker' = [asker EXCEPT ![t] = After([asker[t] EXCEPT !.got = e, !.found = @ \cup Kept(Head(asker[t].todo), e.answers)])]
    /\ UNCHANGED <<through, topic, inFlight, dnsLink, closing, asked>>

DnsReply(answers, rcode, tc) == [to |-> Shared, id |-> 0, req |-> 0, response |-> TRUE, answers |-> answers, rcode |-> rcode, tc |-> tc]
Responses(type) == {DnsReply(AnswersTo(type), "none", FALSE), DnsReply({}, "refused", FALSE), DnsReply({}, "none", TRUE)}

NameInit ==
    /\ through \in {"resolver", "peer"} /\ topic \in (IF through = "peer" THEN {"address"} ELSE DOMAIN Called)
    /\ tabled = <<>> /\ inFlight = {} /\ asked = <<>> /\ closing = "idle"
    /\ dnsLink = [connected |-> FALSE, watched |-> FALSE]
    /\ asker = [t \in Askers |-> NoQuery]
NameNext ==
    \/ \E t \in Askers :
        \/ \E call \in Called[topic] : CallBegins(t, call[1], call[2])
        \/ NeedReconnection(t) \/ DelHandler(t) \/ Disconnect(t) \/ AddHandler(t)
        \/ \E fails \in BOOLEAN : Connect(t, fails)
        \/ asker[t].at = "send" /\ \E id \in QueryIds, r \in Responses(Head(asker[t].todo)) : Send(t, id, r)
        \/ WakesAlone(t) \/ TimesOut(t) \/ QueryEnds(t)
    \/ \E step \in {"idle", "disc"} : OnClose(step)
    \/ \E message \in {AnnounceRecords, GoodbyeRecords, ProbeRecords, BrowseService} : Announce(message)
    \/ \E r \in inFlight, copied \in BOOLEAN : OnDnsReadable(r, copied)

----------------------------------------------------------------------------
(***************************************************************************)
(* A query that ends well has an answer that carries its id, or the empty  *)
(* packet of a wait that ended by itself.  It is the answer to the query   *)
(* unless the id was drawn before, or is the 0 of announcements: nothing   *)
(* else (server, question, age) is compared.                               *)
(***************************************************************************)
AnswersById ==
    \A t \in Askers : (asker[t].at \notin {"wait", "woken", "late"} /\ asker[t].got # NoPacket) =>
        /\ asker[t].got.id = asker[t].id
        /\ (asker[t].id # 0 /\ Cardinality({n \in DOMAIN asked : asked[n] = asker[t].id}) = 1) => asker[t].got.req = asker[t].req

(***************************************************************************)
(* The reactor watches a connected socket once its threads are done with   *)
(* connecting, whichever of them disconnected, connected or failed last,   *)
(* and though the reactor thread took it down meanwhile: otherwise every   *)
(* later query would time out, since it finds the socket connected.        *)
(***************************************************************************)
WatchedWhenConnected ==
    (dnsLink.connected /\ closing = "idle" /\ \A t \in Askers : asker[t].at \notin {"del", "disc", "conn", "add"}) => dnsLink.watched

(***************************************************************************)
(* Every entry of a table belongs to one thread that waits: none is left   *)
(* by a failure or a timeout, to refuse its id for ever.                   *)
(***************************************************************************)
TabledAreAsked == DOMAIN tabled = {Key(t) : t \in {u \in Askers : asker[u].at \in {"wait", "woken", "late"}}}

-----------------------------------------------------------------------------
(***************************************************************************)
(* DNS messages on a TLS connection (BasicTlsResolver, fabric/resolver.hpp) *)
(* are preceded by their length.  The reactor thread reads what the socket *)
(* has, a few bytes at a time, and keeps its place in _offset and _size;   *)
(* the thread that asks writes, under the lock, waiting when the socket is *)
(* full.  Connections end while either is half way through a message, and  *)
(* whichever thread asks next makes another, without the lock.             *)
(***************************************************************************)
CONSTANTS FrameSizes,     \* sizes of messages
          MaxMsgSize,     \* Protocol::maxMsgSize
          MaxFrames,      \* bound: messages each way
          MaxConnections  \* bound

ASSUME FramesAssumption == MaxMsgSize \in Nat /\ FrameSizes \subseteq Nat \ {0}

VARIABLES peerSent,   \* bytes received by the socket and not read
          place,      \* [offset, size, data]: _offset, _size and the buffer
          delivered,  \* what read returned since the connection was made
          outStep,    \* history: a message too long came on this connection
          writing,    \* the bytes that write still has to write
          sent,       \* bytes written on this connection
          crossed,    \* history: this connection was made during a write
          encrypted, conns, frames
dotVars == <<peerSent, place, delivered, outStep, writing, sent, crossed, encrypted, conns, frames>>

HeaderSize == 2
\* The bytes of message f: a header that tells its length, and the payload.
Frame(f, size) == [i \in 1..(HeaderSize + size) |-> [frame |-> f, at |-> i, size |-> size]]
NoPlace == [offset |-> 0, size |-> 0, data |-> <<>>]
\* What the two first bytes of the buffer say; bytes of a payload may say anything.
Lengths(data) ==
    IF data[1].at = 1 /\ data[2].at = 2 /\ data[1].frame = data[2].frame THEN {data[1].size} ELSE 0..(MaxMsgSize + 1)

DotConnect ==
    /\ ~encrypted /\ conns < MaxConnections
    /\ encrypted' = TRUE /\ conns' = conns + 1
    /\ peerSent' = <<>> /\ delivered' = <<>> /\ outStep' = FALSE /\ sent' = <<>>
    /\ crossed' = (writing # <<>>)
    /\ UNCHANGED <<place, writing, frames>>

\* Mutant: the place in a message survives the connection.
DotCloseKeeps ==
    /\ encrypted /\ encrypted' = FALSE /\ peerSent' = <<>>
    /\ UNCHANGED <<place, delivered, outStep, writing, sent, crossed, conns, frames>>

\* disconnect: the handler is removed, so that no read is under way, and every path ends in close.
DotClose ==
    /\ encrypted /\ encrypted' = FALSE /\ place' = NoPlace /\ peerSent' = <<>>
    /\ UNCHANGED <<delivered, outStep, writing, sent, crossed, conns, frames>>

PeerSends(size) ==
    /\ encrypted /\ frames < MaxFrames /\ frames' = frames + 1
    /\ peerSent' = peerSent \o Frame(frames + 1, size)
    /\ UNCHANGED <<place, delivered, outStep, writing, sent, crossed, encrypted, conns>>

\* Socket::read of at most `wanted` bytes: 0 stands for TemporaryError.
Reads(wanted) == IF peerSent = <<>> THEN {0} ELSE 1..(IF Len(peerSent) < wanted THEN Len(peerSent) ELSE wanted)
ReadHeader ==
    /\ encrypted /\ place.offset < HeaderSize
    /\ \E n \in Reads(HeaderSize - place.offset) :
        LET offset == place.offset + n
            data == place.data \o SubSeq(peerSent, 1, n)
        IN
        /\ n > 0 /\ peerSent' = SubSeq(peerSent, n + 1, Len(peerSent))
        /\ IF offset < HeaderSize
           THEN place' = [offset |-> offset, size |-> 0, data |-> data] /\ UNCHANGED outStep
           ELSE \E size \in Lengths(data) :
                IF size > MaxMsgSize THEN place' = NoPlace /\ outStep' = TRUE
                ELSE place' = [offset |-> offset, size |-> size, data |-> <<>>] /\ UNCHANGED outStep
    /\ UNCHANGED <<delivered, writing, sent, crossed, encrypted, conns, frames>>

ReadBody ==
    /\ encrypted /\ place.offset >= HeaderSize
    /\ \E n \in IF place.size = 0 THEN {0} ELSE Reads(place.size - (place.offset - HeaderSize)) :
        LET offset == place.offset + n
            data == place.data \o SubSeq(peerSent, 1, n)
        IN
        /\ peerSent' = SubSeq(peerSent, n + 1, Len(peerSent))
        /\ IF offset < place.size + HeaderSize
           THEN place' = [place EXCEPT !.offset = offset, !.data = data] /\ UNCHANGED delivered
           ELSE place' = NoPlace /\ delivered' = Append(delivered, data)
    /\ UNCHANGED <<outStep, writing, sent, crossed, encrypted, conns, frames>>

WriteBegins(size) ==
    /\ encrypted /\ writing = <<>> /\ frames < MaxFrames /\ frames' = frames + 1
    /\ writing' = Frame(frames + 1, size)
    /\ UNCHANGED <<peerSent, place, delivered, outStep, sent, crossed, encrypted, conns>>
\* The socket takes some; without a connection the write gives up.
WriteSome ==
    /\ writing # <<>>
    /\ IF encrypted
       THEN \E n \in 1..Len(writing) :
                sent' = sent \o SubSeq(writing, 1, n) /\ writing' = SubSeq(writing, n + 1, Len(writing))
       ELSE writing' = <<>> /\ UNCHANGED sent
    /\ UNCHANGED <<peerSent, place, delivered, outStep, crossed, encrypted, conns, frames>>

DotInit ==
    /\ peerSent = <<>> /\ place = NoPlace /\ delivered = <<>> /\ outStep = FALSE /\ writing = <<>>
    /\ sent = <<>> /\ crossed = FALSE /\ encrypted = FALSE /\ conns = 0 /\ frames = 0
DotNext ==
    \/ DotConnect \/ DotClose \/ ReadHeader \/ ReadBody \/ WriteSome
    \/ \E size \in FrameSizes : PeerSends(size) \/ WriteBegins(size)

----------------------------------------------------------------------------
\* The payload of message f, and a stream of whole messages with at most a part of one behind them.
IsPayload(data) == data # <<>> /\ \E f \in 1..frames : data = SubSeq(Frame(f, data[1].size), HeaderSize + 1, HeaderSize + data[1].size)
WholeFrames(stream) ==
    \A i \in DOMAIN stream :
        IF i = 1 \/ (i > 1 /\ stream[i - 1].at = HeaderSize + stream[i - 1].size) THEN stream[i].at = 1
        ELSE stream[i] = [stream[i - 1] EXCEPT !.at = @ + 1]

(***************************************************************************)
(* Every message read on a connection is the payload of a message that was *)
(* sent on it, however its bytes were divided, and though the connection   *)
(* before it ended inside a message, unless a message longer than          *)
(* maxMsgSize came first: its length is dropped, its bytes are not, and    *)
(* from then on payload is taken for lengths.                              *)
(***************************************************************************)
ReadsWhole == outStep \/ \A k \in DOMAIN delivered : IsPayload(delivered[k])

(***************************************************************************)
(* What is written on a connection is whole messages, though the socket    *)
(* takes them in parts, unless another thread made the connection while    *)
(* this one was inside its write and goes on with the rest of it.          *)
(***************************************************************************)
WritesWhole == crossed \/ WholeFrames(sent)
=============================================================================
