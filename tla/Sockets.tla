------------------------------ MODULE Sockets -------------------------------
(***************************************************************************)
(* Sockets (core/), the streams on them, and TLS sessions over them        *)
(* (crypto/).                                                              *)
(***************************************************************************)
EXTENDS Integers, FiniteSets, Sequences

-----------------------------------------------------------------------------
(***************************************************************************)
(* Stream, datagram and listening sockets (core/socket.hpp,                *)
(* stream_socket.hpp, datagram_socket.hpp, acceptor.hpp): what an object   *)
(* believes, beside what the kernel knows of its descriptor.  Connections  *)
(* complete or fail by themselves, the peer sends and closes at any time,  *)
(* and objects are moved and reused.  A read drains what has arrived.      *)
(***************************************************************************)
CONSTANTS Objects, Fds

ASSUME FdsAssumption == Fds \subseteq Nat

VARIABLES sockKind,   \* "stream" or "datagram": BasicStreamSocket or BasicDatagramSocket objects
          object,     \* object -> [state, mode, handle, remote] (_state, _mode, _handle, _remote)
          kernel,     \* open descriptor -> what the kernel knows of it
          lastErr,    \* lastError of the thread: a temporary one, or another
          probed,     \* history: objects that asked connected() before the connection was made, or again after it failed
          emptied     \* history: datagram objects that read an empty datagram since they connected
sockVars == <<sockKind, object, kernel, lastErr, probed, emptied>>

NoFd == -1
Fresh == [state |-> "Closed", mode |-> "NonBlocking", handle |-> NoFd, remote |-> FALSE]
\* link: none, progress, made, failed (error not read yet), dead (error read); unread: input that has arrived; eof: the peer sent its end.
Created(mode) == [nonblock |-> (mode = "NonBlocking"), link |-> "none", unread |-> FALSE, eof |-> FALSE, shut |-> FALSE]
Link(o) == kernel[object[o].handle].link
Free == Fds \ DOMAIN kernel
Adds(fd, known) == [f \in DOMAIN kernel \cup {fd} |-> IF f = fd THEN known ELSE kernel[f]]
Drop(fd) == [f \in DOMAIN kernel \ {fd} |-> kernel[f]]
SetObject(o, r) == object' = [object EXCEPT ![o] = r]
Quiet == UNCHANGED <<lastErr, probed, emptied>>

\* open: the descriptor is made with the mode the object has.
SockOpen(o) ==
    /\ object[o].state = "Closed" /\ Free # {}
    /\ \E fd \in {CHOOSE f \in Free : TRUE} :
        /\ SetObject(o, [object[o] EXCEPT !.state = "Disconnected", !.handle = fd])
        /\ kernel' = Adds(fd, Created(object[o].mode))
    /\ Quiet

SockClose(o) ==
    /\ object[o].state # "Closed"
    /\ kernel' = Drop(object[o].handle)
    /\ SetObject(o, [object[o] EXCEPT !.state = "Closed", !.handle = NoFd, !.remote = FALSE])
    /\ Quiet

\* operator=: the target is closed first; the source is left closed and non blocking.
MoveAssign(o, p) ==
    /\ o # p
    /\ kernel' = IF object[o].handle = NoFd THEN kernel ELSE Drop(object[o].handle)
    /\ object' = [object EXCEPT ![o] = object[p], ![p] = [Fresh EXCEPT !.remote = object[p].remote]]
    /\ UNCHANGED lastErr
    /\ probed' = (probed \ {o, p}) \cup {x \in {o} : p \in probed}
    /\ emptied' = (emptied \ {o, p}) \cup {x \in {o} : p \in emptied}

SetMode(o, mode) ==
    /\ SetObject(o, [object[o] EXCEPT !.mode = mode])
    /\ kernel' = IF object[o].state = "Closed" THEN kernel ELSE [kernel EXCEPT ![object[o].handle].nonblock = (mode = "NonBlocking")]
    /\ Quiet

----------------------------------------------------------------------------
(* Stream sockets.                                                           *)
StreamConnect(o, link) ==
    /\ sockKind = "stream" /\ object[o].state = "Disconnected"
    /\ Link(o) = "none" \/ link = "failed"       \* the kernel refuses a descriptor that was connected before
    /\ IF link = "failed"
       THEN /\ kernel' = Drop(object[o].handle)
            /\ SetObject(o, [object[o] EXCEPT !.state = "Closed", !.handle = NoFd, !.remote = FALSE])
       ELSE /\ link = "progress" => kernel[object[o].handle].nonblock
            /\ kernel' = [kernel EXCEPT ![object[o].handle].link = link]
            /\ SetObject(o, [object[o] EXCEPT !.state = IF link = "made" THEN "Connected" ELSE "Connecting", !.remote = TRUE])
    /\ lastErr' = IF link = "made" THEN lastErr ELSE "other"     \* EINPROGRESS is not EAGAIN
    /\ probed' = probed \ {o} /\ UNCHANGED emptied

\* The kernel: a connection in progress is made or fails; the peer sends, and ends its side.
KernelSteps(fd) ==
    /\ UNCHANGED <<object, lastErr, probed, emptied>>
    /\ \/ kernel[fd].link = "progress" /\ \E link \in {"made", "failed"} : kernel' = [kernel EXCEPT ![fd].link = link]
       \/ kernel[fd].link = "made" /\ ~kernel[fd].eof /\ kernel' = [kernel EXCEPT ![fd].unread = TRUE]
       \/ kernel[fd].link = "made" /\ ~kernel[fd].eof /\ kernel' = [kernel EXCEPT ![fd].eof = TRUE]

\* connected: SO_ERROR is 0 before the connection is made, and again once its error has been read.
Connected(o) ==
    /\ sockKind = "stream" /\ object[o].state = "Connecting"
    /\ IF Link(o) = "failed"
       THEN kernel' = [kernel EXCEPT ![object[o].handle].link = "dead"] /\ UNCHANGED <<object, probed>>
       ELSE /\ SetObject(o, [object[o] EXCEPT !.state = "Connected"])
            /\ probed' = IF Link(o) = "made" THEN probed ELSE probed \cup {o}
            /\ UNCHANGED kernel
    /\ UNCHANGED <<lastErr, emptied>>
\* waitConnected asks once poll says that the connection is made, or has failed.
WaitConnected(o) == object[o].handle # NoFd /\ Link(o) \in {"made", "failed"} /\ Connected(o)

\* A read: EAGAIN, or whatever has arrived, or the end.
ReadSome(o) ==
    /\ sockKind = "stream" /\ object[o].state \in {"Connected", "Disconnecting"} /\ kernel[object[o].handle].nonblock
    /\ LET k == kernel[object[o].handle] IN
        /\ kernel' = [kernel EXCEPT ![object[o].handle].unread = FALSE]
        /\ lastErr' = IF k.unread THEN lastErr ELSE IF k.eof \/ k.link # "made" THEN "other" ELSE "temporary"
    /\ UNCHANGED <<object, probed, emptied>>

DisconnectEnds(o, drained) ==
    LET k == kernel[object[o].handle]
        waits == ~drained /\ k.nonblock /\ k.link = "made" /\ ~k.eof
    IN
    /\ sockKind = "stream" /\ object[o].state \in {"Connected", "Disconnecting"}
    /\ waits \/ k.eof \/ k.link # "made" \/ drained       \* a blocking one stays in its read otherwise
    /\ SetObject(o, [object[o] EXCEPT !.state = IF waits THEN "Disconnecting" ELSE "Disconnected"])
    /\ kernel' = [kernel EXCEPT ![object[o].handle].unread = IF drained THEN @ ELSE FALSE, ![object[o].handle].shut = TRUE]
    /\ lastErr' = IF waits THEN "temporary" ELSE "other"
    /\ UNCHANGED <<probed, emptied>>

\* Mutant: disconnect does not wait for the peer's end.
StreamDisconnectAtOnce(o) == DisconnectEnds(o, TRUE)

\* disconnect: our side ends, and the peer's data is read until its end: the lingering close.
StreamDisconnect(o) == DisconnectEnds(o, FALSE)
\* waitDisconnected goes on with it, unless lastError was changed in between.
WaitDisconnected(o) == object[o].state = "Disconnecting" /\ lastErr = "temporary" /\ StreamDisconnect(o)
OtherError == lastErr' = "other" /\ UNCHANGED <<object, kernel, probed, emptied>>

\* accept: a connected object, made non blocking.
Accept(o) ==
    /\ sockKind = "stream" /\ object[o].state = "Closed" /\ Free # {}
    /\ \E fd \in {CHOOSE f \in Free : TRUE} :
        /\ SetObject(o, [state |-> "Connected", mode |-> "NonBlocking", handle |-> fd, remote |-> TRUE])
        /\ kernel' = Adds(fd, [Created("NonBlocking") EXCEPT !.link = "made"])
    /\ UNCHANGED <<lastErr, emptied>> /\ probed' = probed \ {o}

----------------------------------------------------------------------------
(* Datagram sockets: a connection is an association of the descriptor.       *)
DatagramConnect(o, fails) ==
    /\ sockKind = "datagram" /\ object[o].state = "Disconnected"
    /\ kernel' = IF fails THEN Drop(object[o].handle) ELSE [kernel EXCEPT ![object[o].handle].link = "made"]
    /\ SetObject(o, [object[o] EXCEPT !.state = IF fails THEN "Closed" ELSE "Connected", !.handle = IF fails THEN NoFd ELSE @, !.remote = ~fails])
    /\ emptied' = emptied \ {o} /\ UNCHANGED <<lastErr, probed>>
DatagramDisconnect(o) ==
    /\ sockKind = "datagram" /\ object[o].state = "Connected"
    /\ kernel' = [kernel EXCEPT ![object[o].handle].link = "none"]
    /\ SetObject(o, [object[o] EXCEPT !.state = "Disconnected", !.remote = FALSE]) /\ Quiet
\* An empty datagram is taken for the end of the connection, which the kernel keeps.
ReadFrom(o) ==
    /\ sockKind = "datagram" /\ object[o].state \in {"Connected", "Disconnected"}
    /\ SetObject(o, [object[o] EXCEPT !.state = "Disconnected"])
    /\ emptied' = emptied \cup {o} /\ lastErr' = "other" /\ UNCHANGED <<kernel, probed>>

SockInit ==
    /\ sockKind \in {"stream", "datagram"}
    /\ object = [o \in Objects |-> Fresh] /\ kernel = <<>> /\ lastErr = "other" /\ probed = {} /\ emptied = {}
SockSteps ==
    \/ \E o \in Objects :
        \/ SockOpen(o) \/ SockClose(o) \/ Accept(o) \/ ReadSome(o)
        \/ \E p \in Objects : MoveAssign(o, p)
        \/ \E mode \in {"Blocking", "NonBlocking"} : SetMode(o, mode)
        \/ object[o].handle # NoFd /\ \E link \in {"made", "progress", "failed"} : StreamConnect(o, link)
        \/ Connected(o) \/ WaitConnected(o) \/ WaitDisconnected(o)
        \/ object[o].handle # NoFd /\ StreamDisconnect(o)
        \/ \E fails \in BOOLEAN : DatagramConnect(o, fails)
        \/ DatagramDisconnect(o) \/ ReadFrom(o)
    \/ \E fd \in DOMAIN kernel : KernelSteps(fd)
    \/ OtherError
SockNext == SockSteps /\ UNCHANGED sockKind
SockSpec == SockInit /\ [][SockNext]_sockVars

----------------------------------------------------------------------------
(***************************************************************************)
(* Through moves, failures and reuse, the open descriptors are those of    *)
(* the objects, one each: none leaks and none is closed twice; an object   *)
(* is closed exactly when it has none; and a descriptor blocks as its      *)
(* object says.                                                            *)
(***************************************************************************)
HandlesOwned ==
    /\ DOMAIN kernel = {object[o].handle : o \in Objects} \ {NoFd}
    /\ \A o, p \in Objects : (object[o].handle = object[p].handle /\ o # p) => object[o].handle = NoFd
    /\ \A o \in Objects :
        /\ (object[o].state = "Closed") = (object[o].handle = NoFd)
        /\ object[o].handle # NoFd => (object[o].mode = "NonBlocking") = kernel[object[o].handle].nonblock

(***************************************************************************)
(* A stream socket is connected once its connection was made, if connected *)
(* is only asked by waitConnected, which polls first and asks once.        *)
(***************************************************************************)
ConnectedAfterWait ==
    \A o \in Objects \ probed : (sockKind = "stream" /\ object[o].state \in {"Connected", "Disconnecting"}) => Link(o) = "made"

(***************************************************************************)
(* A stream whose disconnect ended has read the end of the peer's data and *)
(* left nothing unread, so that closing it does not reset the connection   *)
(* under the output the peer has not read yet.                             *)
(***************************************************************************)
LingersToTheEnd ==
    \A o \in Objects \ probed : (sockKind = "stream" /\ object[o].state = "Disconnected" /\ Link(o) = "made") =>
        LET k == kernel[object[o].handle] IN k.shut /\ k.eof /\ ~k.unread

(***************************************************************************)
(* A datagram socket says it is connected exactly when the kernel filters  *)
(* by its remote address, unless an empty datagram was read: the kernel    *)
(* keeps an association then that disconnect no longer removes.            *)
(***************************************************************************)
AssociationKnown ==
    \A o \in Objects \ emptied : (sockKind = "datagram" /\ object[o].state # "Closed") => ((object[o].state = "Connected") = (Link(o) = "made"))

(***************************************************************************)
(* Sockets: a descriptor belongs to one object, a state follows from what  *)
(* the kernel said, disconnect lingers to the peer's end, and a datagram   *)
(* socket knows its association.                                           *)
(***************************************************************************)
SocketsTrue == HandlesOwned /\ ConnectedAfterWait /\ LingersToTheEnd /\ AssociationKnown

-----------------------------------------------------------------------------
(***************************************************************************)
(* A std::iostream on a stream socket (core/socket_stream.hpp): characters *)
(* put are collected until the put area is full or flushed, and written in *)
(* as many parts as the socket takes; characters are read a buffer at a    *)
(* time.  The connection fails in the middle of a write, ends and is made  *)
(* again while the areas still hold what belonged to the one before.       *)
(***************************************************************************)
CONSTANTS AreaSize,     \* _bufsize
          MaxChars,     \* bound: characters each way
          MaxStreams    \* bound: connections

ASSUME AreaAssumption == AreaSize \in Nat \ {0}

VARIABLES putArea, getArea,   \* characters between pbase and pptr, and between gptr and egptr
          flushing,           \* [left, then]: what writeExactly has to write, and the character that waits for it
          conn,               \* [up, n]: _socket.connected(), and which connection it is
          wire,               \* characters written on the connection, in order
          arrived,            \* characters received and not read
          gotten,             \* characters the program read since the connection was made
          counters,           \* [put, sent]: characters made so far by the program and by the peer
          leftOver            \* history: [put, get]: an area was not empty when the connection was made
streamVars == <<putArea, getArea, flushing, conn, wire, arrived, gotten, counters, leftOver>>

Chars(n) == [c |-> n, on |-> conn.n]
NoFlush == [left |-> <<>>, then |-> <<>>]

\* connect: the areas keep what they have.
StreamConnects ==
    /\ ~conn.up /\ conn.n < MaxStreams /\ flushing = NoFlush
    /\ conn' = [up |-> TRUE, n |-> conn.n + 1]
    /\ wire' = <<>> /\ arrived' = <<>> /\ gotten' = <<>>
    /\ leftOver' = [put |-> putArea # <<>>, get |-> getArea # <<>>]
    /\ UNCHANGED <<putArea, getArea, flushing, counters>>
\* close, or the loss of the connection.
StreamCloses ==
    /\ conn.up /\ flushing = NoFlush /\ conn' = [conn EXCEPT !.up = FALSE] /\ arrived' = <<>>
    /\ UNCHANGED <<putArea, getArea, flushing, wire, gotten, counters, leftOver>>

\* sputc, and overflow when the area is full: it is written first.
StreamPutc ==
    /\ flushing = NoFlush /\ counters.put < MaxChars /\ conn.up
    /\ counters' = [counters EXCEPT !.put = @ + 1]
    /\ LET c == Chars(counters.put + 1) IN
        IF Len(putArea) < AreaSize
        THEN putArea' = Append(putArea, c) /\ UNCHANGED flushing
        ELSE flushing' = [left |-> putArea, then |-> <<c>>] /\ UNCHANGED putArea
    /\ UNCHANGED <<getArea, conn, wire, arrived, gotten, leftOver>>
\* sync and disconnect: overflow with the end of file.
StreamFlush ==
    /\ flushing = NoFlush /\ conn.up /\ putArea # <<>>
    /\ flushing' = [left |-> putArea, then |-> <<>>]
    /\ UNCHANGED <<putArea, getArea, conn, wire, arrived, gotten, counters, leftOver>>

\* Mutant: what was written stays in the put area.
WriteExactlyKeeps ==
    /\ flushing # NoFlush
    /\ \E n \in 1..Len(flushing.left) :
        /\ wire' = wire \o SubSeq(flushing.left, 1, n)
        /\ IF n = Len(flushing.left)
           THEN flushing' = NoFlush /\ putArea' = putArea \o flushing.then
           ELSE flushing' = [flushing EXCEPT !.left = SubSeq(@, n + 1, Len(@))] /\ UNCHANGED putArea
    /\ UNCHANGED <<getArea, conn, arrived, gotten, counters, leftOver>>

\* writeExactly: some at a time; then the area starts afresh, with the character that did not fit.
WriteExactly ==
    /\ flushing # NoFlush
    /\ \E n \in 1..Len(flushing.left) :
        /\ wire' = wire \o SubSeq(flushing.left, 1, n)
        /\ IF n = Len(flushing.left)
           THEN flushing' = NoFlush /\ putArea' = flushing.then
           ELSE flushing' = [flushing EXCEPT !.left = SubSeq(@, n + 1, Len(@))] /\ UNCHANGED putArea
    /\ UNCHANGED <<getArea, conn, arrived, gotten, counters, leftOver>>
\* The write fails or waits too long: the socket is closed, the area is as it was.
WriteFails ==
    /\ flushing # NoFlush /\ flushing' = NoFlush /\ conn' = [conn EXCEPT !.up = FALSE] /\ arrived' = <<>>
    /\ UNCHANGED <<putArea, getArea, wire, gotten, counters, leftOver>>

PeerWrites ==
    /\ conn.up /\ counters.sent < MaxChars
    /\ counters' = [counters EXCEPT !.sent = @ + 1] /\ arrived' = Append(arrived, Chars(counters.sent + 1))
    /\ UNCHANGED <<putArea, getArea, flushing, conn, wire, gotten, leftOver>>
\* underflow reads once the area is exhausted; without a connection there is nothing.
Underflow ==
    /\ flushing = NoFlush /\ conn.up /\ getArea = <<>> /\ arrived # <<>>
    /\ \E n \in 1..(IF Len(arrived) < AreaSize THEN Len(arrived) ELSE AreaSize) :
        getArea' = SubSeq(arrived, 1, n) /\ arrived' = SubSeq(arrived, n + 1, Len(arrived))
    /\ UNCHANGED <<putArea, flushing, conn, wire, gotten, counters, leftOver>>
StreamGetc ==
    /\ flushing = NoFlush /\ getArea # <<>>
    /\ gotten' = Append(gotten, Head(getArea)) /\ getArea' = Tail(getArea)
    /\ UNCHANGED <<putArea, flushing, conn, wire, arrived, counters, leftOver>>

StreamInit ==
    /\ putArea = <<>> /\ getArea = <<>> /\ flushing = NoFlush /\ conn = [up |-> FALSE, n |-> 0]
    /\ wire = <<>> /\ arrived = <<>> /\ gotten = <<>> /\ counters = [put |-> 0, sent |-> 0] /\ leftOver = [put |-> FALSE, get |-> FALSE]
StreamNext == StreamConnects \/ StreamCloses \/ StreamPutc \/ StreamFlush \/ WriteExactly \/ WriteFails \/ PeerWrites \/ Underflow \/ StreamGetc
StreamSpec == StreamInit /\ [][StreamNext]_streamVars

----------------------------------------------------------------------------
Consecutive(s) == \A i \in 1..(Len(s) - 1) : s[i + 1].c = s[i].c + 1
Own(s) == \A i \in DOMAIN s : s[i].on = conn.n

(***************************************************************************)
(* What is written on a connection, followed by what the area still holds, *)
(* is what was put since the connection was made, each character once and  *)
(* in order, however the area fills and the socket divides it, unless the  *)
(* one before left characters in the area: those, which it may have sent   *)
(* in part, open the new connection.                                       *)
(***************************************************************************)
WrittenAsPut ==
    leftOver.put \/ (Own(wire) /\ Consecutive(wire) /\ (conn.up => Consecutive(wire \o (IF flushing = NoFlush THEN putArea ELSE flushing.left \o flushing.then))))

(***************************************************************************)
(* What is read is what the peer sent, each character once and in order,   *)
(* and on this connection, unless characters of the one before were still  *)
(* unread: those are read first.                                           *)
(***************************************************************************)
ReadAsSent == leftOver.get \/ (Own(gotten) /\ Consecutive(gotten) /\ Consecutive(gotten \o getArea \o arrived))

-----------------------------------------------------------------------------
(***************************************************************************)
(* TLS over a stream socket (crypto/tls.hpp): the handshake, the check of  *)
(* the peer's chain of certificates, reading and writing, and shutdown,    *)
(* with a socket that makes each of them stop half way.  OpenSSL is taken  *)
(* for what it does: it calls verifyCallback from the root of the chain to *)
(* the leaf, and fails the handshake when a call says no.                  *)
(***************************************************************************)
CONSTANTS MaxCertDepth,   \* _ctx.depth()
          MaxChain,       \* bound: certificates in a chain
          MaxRecords      \* bound: what is written on the connection

ASSUME ChainAssumption == MaxChain \in Nat /\ MaxCertDepth \in Nat

VARIABLES verify,      \* _ctx.verify()
          peerChain,   \* certificates, leaf first: [trusted, matches]
          ssl,         \* "none", "started" (handshake under way), "done", "closing" (part of the alert is sent)
          linked,      \* the socket is connected
          records,     \* what was written on the connection: "clear", "hello" or "sealed"
          ended,       \* history: the TLS session ended (handshake failed, or shut down)
          tlsError     \* lastError of the last call: "none", "temporary" or "other"
tlsVars == <<verify, peerChain, ssl, linked, records, ended, tlsError>>

\* checkHostname: some alternative name matches, trailing dots aside.  verifyCert asks it of the leaf only.
CheckHostname(cert) == cert.matches

\* Mutant: the name is asked of the root, not of the leaf.
VerifyCertTop(cert, depth) == depth = Len(peerChain) - 1 => CheckHostname(cert)

VerifyCert(cert, depth) == depth = 0 => CheckHostname(cert)
VerifyCallback(depth) ==
    LET cert == peerChain[depth + 1] IN depth <= MaxCertDepth /\ cert.trusted /\ VerifyCert(cert, depth)
Accepted == verify => \A depth \in 0..(Len(peerChain) - 1) : VerifyCallback(depth)

\* handleTlsError
HandleTlsError(why) == tlsError' = why
Wire(r) == records' = IF Len(records) < MaxRecords THEN Append(records, r) ELSE records

TlsConnect ==
    /\ ~linked /\ ssl = "none" /\ linked' = TRUE /\ records' = <<>> /\ ended' = FALSE
    /\ UNCHANGED <<verify, peerChain, ssl, tlsError>>

\* deferHandshake: the session is made once, over a connected socket.
DeferHandshake == linked /\ ssl = "none"
\* handshake: the session is dropped unless it ended well or is to go on.
Handshake(step) ==
    /\ DeferHandshake \/ ssl = "started"
    /\ Wire("hello")
    /\ LET bad == step = "fails" \/ (step = "ends" /\ ~Accepted) IN
        /\ ssl' = IF step = "stops" THEN "started" ELSE IF bad THEN "none" ELSE "done"
        /\ HandleTlsError(IF step = "stops" THEN "temporary" ELSE IF bad THEN "other" ELSE "none")
        /\ ended' = (ended \/ bad)
    /\ UNCHANGED <<verify, peerChain, linked>>
\* waitHandshake repeats it while it is told to.
WaitHandshake(step) == ssl = "started" /\ tlsError = "temporary" /\ Handshake(step)

\* write: through the session while there is one, which finishes its handshake first; in clear otherwise.
TlsWrite(step) ==
    /\ linked
    /\ IF ssl = "none" THEN Wire("clear") /\ HandleTlsError("none") /\ UNCHANGED <<ssl, ended>>
       ELSE IF ssl = "started"
       THEN /\ Wire("hello") /\ ssl' = IF step = "ends" /\ Accepted THEN "done" ELSE "started"
            /\ HandleTlsError(IF step = "stops" THEN "temporary" ELSE "other") /\ UNCHANGED ended
       ELSE IF ssl = "closing" \/ step # "ends" THEN HandleTlsError(IF step = "stops" THEN "temporary" ELSE "other") /\ UNCHANGED <<records, ssl, ended>>
       ELSE Wire("sealed") /\ HandleTlsError("none") /\ UNCHANGED <<ssl, ended>>
    /\ UNCHANGED <<verify, peerChain, linked>>

\* shutdown: the alert is sent, and the session dropped without waiting for the peer's.
Shutdown(step) ==
    /\ linked /\ ssl # "none"
    /\ IF step = "ends" /\ ssl # "started" THEN ssl' = "none" /\ ended' = TRUE /\ HandleTlsError("none") /\ Wire("sealed")
       ELSE /\ ssl' = IF step = "stops" /\ ssl = "done" THEN "closing" ELSE ssl
            /\ HandleTlsError(IF step = "stops" THEN "temporary" ELSE "other") /\ UNCHANGED <<ended, records>>
    /\ UNCHANGED <<verify, peerChain, linked>>
WaitShutdown(step) == tlsError = "temporary" /\ Shutdown(step)

TlsClose ==
    /\ linked /\ linked' = FALSE /\ ssl' = "none" /\ UNCHANGED <<verify, peerChain, records, ended, tlsError>>

Certs == [trusted : BOOLEAN, matches : BOOLEAN]
TlsInit ==
    /\ verify \in BOOLEAN /\ peerChain \in UNION {[1..n -> Certs] : n \in 1..MaxChain}
    /\ ssl = "none" /\ linked = FALSE /\ records = <<>> /\ ended = FALSE /\ tlsError = "none"
TlsNext ==
    \/ TlsConnect \/ TlsClose
    \/ \E step \in {"ends", "stops", "fails"} :
        Handshake(step) \/ WaitHandshake(step) \/ TlsWrite(step) \/ Shutdown(step) \/ WaitShutdown(step)
TlsSpec == TlsInit /\ [][TlsNext]_tlsVars

----------------------------------------------------------------------------
(***************************************************************************)
(* With verification on, a session is encrypted only with a peer whose     *)
(* chain is trusted at every depth, is not deeper than allowed, and whose  *)
(* own certificate names the host, whichever of handshake, waitHandshake   *)
(* and the first write ended the handshake.                                *)
(***************************************************************************)
EncryptedIsVerified ==
    (ssl \in {"done", "closing"} /\ verify) =>
        /\ Len(peerChain) - 1 <= MaxCertDepth /\ peerChain[1].matches
        /\ \A i \in DOMAIN peerChain : peerChain[i].trusted

(***************************************************************************)
(* Once a session has begun on a connection nothing goes out in clear      *)
(* until it has ended, by shutdown or by a handshake that failed; after    *)
(* that a write goes out in clear, since there is no session any more.     *)
(***************************************************************************)
ClearOutsideSession ==
    \A i, j \in DOMAIN records : (i < j /\ records[i] # "clear" /\ records[j] = "clear") => ended

(***************************************************************************)
(* TLS: a session that is up was verified when it had to be, and nothing   *)
(* is sent in clear while there is one.                                    *)
(***************************************************************************)
SessionsGuarded == EncryptedIsVerified /\ ClearOutsideSession
=============================================================================
