--------------------------- MODULE ServicesProofs ---------------------------
(***************************************************************************)
(* Theorems about the sockets, the streams and the TLS sessions over them, *)
(* the HTTP server, and the HTTP and SMTP clients, each of its own         *)
(* specification: in Services they run side by side, with no state in      *)
(* common.                                                                 *)
(***************************************************************************)
EXTENDS Sockets, Http, Clients, FiniteSetTheorems, SequenceTheorems, TLAPS

-----------------------------------------------------------------------------
(***************************************************************************)
(* TLS.  What makes ClearOutsideSession inductive: a connection on which   *)
(* something of a session was sent, and that has no session, is one whose  *)
(* session ended, or is closed.                                            *)
(***************************************************************************)
Sent == {"clear", "hello", "sealed"}
Sealing == \E i \in 1..Len(records) : records[i] # "clear"

TlsInv ==
    /\ verify \in BOOLEAN /\ linked \in BOOLEAN /\ ended \in BOOLEAN
    /\ ssl \in {"none", "started", "done", "closing"}
    /\ peerChain \in Seq(Certs) /\ Len(peerChain) >= 1
    /\ records \in Seq(Sent)
    /\ ssl \in {"done", "closing"} => Accepted
    /\ \A i, j \in 1..Len(records) : (i < j /\ records[i] # "clear" /\ records[j] = "clear") => ended
    /\ (linked /\ ssl = "none" /\ Sealing) => ended

LEMMA TlsInitInv == TlsInit => TlsInv
<1> SUFFICES ASSUME TlsInit PROVE TlsInv
  OBVIOUS
<1>1. PICK n \in 1..MaxChain : peerChain \in [1..n -> Certs]
  BY DEF TlsInit
<1>2. n \in Nat /\ n >= 1
  BY <1>1, ChainAssumption
<1>3. peerChain \in Seq(Certs) /\ Len(peerChain) = n
  BY <1>1, <1>2
<1>4. records \in Seq(Sent) /\ 1..Len(records) = {}
  <2>1. records = <<>>
    BY DEF TlsInit
  <2> QED BY <2>1, EmptySeq
<1> QED BY <1>2, <1>3, <1>4 DEF TlsInit, TlsInv, Sealing

(* A record goes out: the relation holds again if it is not in clear, or no session began before. *)
LEMMA WireStep ==
  ASSUME TlsInv, NEW r \in Sent, Wire(r), r # "clear" \/ (linked /\ ssl = "none"), ended => ended'
  PROVE  /\ records' \in Seq(Sent)
         /\ \A i, j \in 1..Len(records') : (i < j /\ records'[i] # "clear" /\ records'[j] = "clear") => ended'
         /\ r = "clear" => (Sealing' => Sealing)
<1>1. CASE UNCHANGED records
  BY <1>1 DEF TlsInv, Sealing
<1>2. CASE records' = Append(records, r)
  <2>0. records \in Seq(Sent) /\ Len(records) \in Nat
    BY DEF TlsInv
  <2>1. records' \in Seq(Sent) /\ Len(records') = Len(records) + 1
    BY <1>2, <2>0
  <2>2. \A i \in 1..Len(records') : records'[i] = IF i <= Len(records) THEN records[i] ELSE r
    BY <1>2, <2>0
  <2>3. ASSUME NEW i \in 1..Len(records'), NEW j \in 1..Len(records'), i < j, records'[i] # "clear", records'[j] = "clear" PROVE ended'
    <3>1. i \in 1..Len(records) /\ records[i] # "clear"
      BY <2>0, <2>1, <2>2, <2>3
    <3>2. CASE j \in 1..Len(records)
      BY <2>0, <2>2, <2>3, <3>1, <3>2 DEF TlsInv
    <3>3. CASE j \notin 1..Len(records)
      <4>1. r = "clear"
        BY <2>0, <2>1, <2>2, <2>3, <3>3
      <4> QED BY <3>1, <4>1 DEF TlsInv, Sealing
    <3> QED BY <3>2, <3>3
  <2>4. r = "clear" => (Sealing' => Sealing)
    BY <2>0, <2>1, <2>2 DEF Sealing
  <2> QED BY <2>1, <2>3, <2>4
<1> QED BY <1>1, <1>2 DEF Wire

LEMMA HandshakeStep == ASSUME TlsInv, NEW s \in {"ends", "stops", "fails"}, Handshake(s) PROVE TlsInv'
<1>1. /\ Wire("hello") /\ UNCHANGED <<verify, peerChain, linked>> /\ (ended => ended')
      /\ ended' \in BOOLEAN /\ ssl' \in {"none", "started", "done"}
      /\ ssl' = "none" => ended'
      /\ ssl' = "done" => Accepted
  BY DEF Handshake, DeferHandshake, TlsInv
<1>2. /\ records' \in Seq(Sent)
      /\ \A i, j \in 1..Len(records') : (i < j /\ records'[i] # "clear" /\ records'[j] = "clear") => ended'
  <2>1. "hello" \in Sent /\ "hello" # "clear" /\ Wire("hello")
    BY DEF Sent, Handshake
  <2> QED BY <1>1, <2>1, WireStep
<1>3. Accepted => Accepted'
  BY <1>1 DEF Accepted, VerifyCallback, VerifyCert, CheckHostname
<1> QED BY <1>1, <1>2, <1>3 DEF TlsInv

LEMMA TlsWriteStep == ASSUME TlsInv, NEW s \in {"ends", "stops", "fails"}, TlsWrite(s) PROVE TlsInv'
<1>0. linked /\ UNCHANGED <<verify, peerChain, linked, ended>> /\ ("hello" \in Sent /\ "sealed" \in Sent /\ "clear" \in Sent)
  BY DEF TlsWrite, Sent
<1>1. Accepted => Accepted'
  BY <1>0 DEF Accepted, VerifyCallback, VerifyCert, CheckHostname
<1>2. CASE ssl = "none"
  <2>1. Wire("clear") /\ ssl' = ssl
    BY <1>2 DEF TlsWrite
  <2>2. /\ records' \in Seq(Sent)
        /\ \A i, j \in 1..Len(records') : (i < j /\ records'[i] # "clear" /\ records'[j] = "clear") => ended'
        /\ Sealing' => Sealing
    BY <1>0, <1>2, <2>1, WireStep
  <2> QED BY <1>0, <1>1, <1>2, <2>1, <2>2 DEF TlsInv
<1>3. CASE ssl = "started"
  <2>1. Wire("hello") /\ ssl' \in {"done", "started"} /\ (ssl' = "done" => Accepted)
    BY <1>3 DEF TlsWrite
  <2>2. /\ records' \in Seq(Sent)
        /\ \A i, j \in 1..Len(records') : (i < j /\ records'[i] # "clear" /\ records'[j] = "clear") => ended'
    BY <1>0, <2>1, WireStep
  <2> QED BY <1>0, <1>1, <2>1, <2>2 DEF TlsInv
<1>4. CASE ssl \in {"done", "closing"}
  <2>1. ssl' = ssl /\ (Wire("sealed") \/ UNCHANGED records)
    BY <1>4 DEF TlsWrite
  <2>2. /\ records' \in Seq(Sent)
        /\ \A i, j \in 1..Len(records') : (i < j /\ records'[i] # "clear" /\ records'[j] = "clear") => ended'
    <3>1. CASE Wire("sealed")
      BY <1>0, <3>1, WireStep
    <3>2. CASE UNCHANGED records
      BY <1>0, <3>2 DEF TlsInv
    <3> QED BY <2>1, <3>1, <3>2
  <2> QED BY <1>0, <1>1, <1>4, <2>1, <2>2 DEF TlsInv
<1> QED BY <1>2, <1>3, <1>4 DEF TlsInv

LEMMA ShutdownStep == ASSUME TlsInv, NEW s \in {"ends", "stops", "fails"}, Shutdown(s) PROVE TlsInv'
<1>0. /\ linked /\ UNCHANGED <<verify, peerChain, linked>> /\ ssl # "none" /\ "sealed" \in Sent
      /\ ssl' \in {"none", "started", "done", "closing"} /\ ended' \in BOOLEAN /\ (ended => ended') /\ (ssl' = "none" => ended')
      /\ ssl' \in {"done", "closing"} => ssl \in {"done", "closing"}
      /\ Wire("sealed") \/ UNCHANGED records
  BY DEF Shutdown, Sent, TlsInv
<1>1. Accepted => Accepted'
  BY <1>0 DEF Accepted, VerifyCallback, VerifyCert, CheckHostname
<1>2. /\ records' \in Seq(Sent)
      /\ \A i, j \in 1..Len(records') : (i < j /\ records'[i] # "clear" /\ records'[j] = "clear") => ended'
  <2>1. CASE Wire("sealed")
    BY <1>0, <2>1, WireStep
  <2>2. CASE UNCHANGED records
    BY <1>0, <2>2 DEF TlsInv
  <2> QED BY <1>0, <2>1, <2>2
<1> QED BY <1>0, <1>1, <1>2 DEF TlsInv

LEMMA TlsStep == TlsInv /\ [TlsNext]_tlsVars => TlsInv'
<1> SUFFICES ASSUME TlsInv, [TlsNext]_tlsVars PROVE TlsInv'
  OBVIOUS
<1>1. CASE UNCHANGED tlsVars
  BY <1>1 DEF tlsVars, TlsInv, Sealing, Accepted, VerifyCallback, VerifyCert, CheckHostname
<1>2. CASE TlsConnect
  <2>1. records' \in Seq(Sent) /\ 1..Len(records') = {}
    <3>1. records' = <<>>
      BY <1>2 DEF TlsConnect
    <3> QED BY <3>1, EmptySeq
  <2> QED BY <1>2, <2>1 DEF TlsConnect, TlsInv, Sealing
<1>3. CASE TlsClose
  BY <1>3 DEF TlsClose, TlsInv
<1>4. ASSUME NEW s \in {"ends", "stops", "fails"}, Handshake(s) \/ WaitHandshake(s) \/ TlsWrite(s) \/ Shutdown(s) \/ WaitShutdown(s)
      PROVE  TlsInv'
  BY <1>4, HandshakeStep, TlsWriteStep, ShutdownStep DEF WaitHandshake, WaitShutdown
<1> QED BY <1>1, <1>2, <1>3, <1>4 DEF TlsNext

LEMMA TlsHolds == TlsInv => SessionsGuarded
<1> SUFFICES ASSUME TlsInv PROVE EncryptedIsVerified /\ ClearOutsideSession
  BY DEF SessionsGuarded
<1>1. ClearOutsideSession
  <2>1. DOMAIN records = 1..Len(records)
    BY DEF TlsInv
  <2> QED BY <2>1 DEF TlsInv, ClearOutsideSession
<1>2. ASSUME ssl \in {"done", "closing"}, verify
      PROVE  Len(peerChain) - 1 <= MaxCertDepth /\ peerChain[1].matches /\ \A i \in DOMAIN peerChain : peerChain[i].trusted
  <2>1. Len(peerChain) \in Nat /\ Len(peerChain) >= 1 /\ DOMAIN peerChain = 1..Len(peerChain)
    BY DEF TlsInv
  <2>2. \A d \in 0..(Len(peerChain) - 1) : d <= MaxCertDepth /\ peerChain[d + 1].trusted /\ (d = 0 => peerChain[d + 1].matches)
    BY <1>2 DEF TlsInv, Accepted, VerifyCallback, VerifyCert, CheckHostname
  <2>3. Len(peerChain) - 1 \in 0..(Len(peerChain) - 1) /\ 0 \in 0..(Len(peerChain) - 1)
    BY <2>1
  <2>4. peerChain[0 + 1].matches /\ 0 + 1 = 1
    BY <2>2, <2>3
  <2>5. ASSUME NEW i \in 1..Len(peerChain) PROVE peerChain[i].trusted
    <3>1. i - 1 \in 0..(Len(peerChain) - 1) /\ (i - 1) + 1 = i
      BY <2>1
    <3> QED BY <2>2, <3>1
  <2> QED BY <2>1, <2>2, <2>3, <2>4, <2>5
<1> QED BY <1>1, <1>2 DEF EncryptedIsVerified

(***************************************************************************)
(* For chains of any length, any depth allowed and a socket that stops     *)
(* every call half way: with verification on a session is encrypted only   *)
(* with a peer whose chain is trusted at every depth and names the host,   *)
(* and once a session has begun nothing goes out in clear before it ended. *)
(***************************************************************************)
THEOREM TlsGuarded == TlsSpec => []SessionsGuarded
<1>1. TlsInit => TlsInv
  BY TlsInitInv
<1>2. TlsInv /\ [TlsNext]_tlsVars => TlsInv'
  BY TlsStep
<1>3. TlsInv => SessionsGuarded
  BY TlsHolds
<1> QED BY <1>1, <1>2, <1>3, PTL DEF TlsSpec

-----------------------------------------------------------------------------
(***************************************************************************)
(* Sockets.  SockInv is SocketsTrue with the types, descriptor by          *)
(* descriptor, and that a datagram descriptor is never half connected.     *)
(***************************************************************************)
ObjectStates == {"Closed", "Disconnected", "Connecting", "Connected", "Disconnecting"}
Objs == [state : ObjectStates, mode : {"Blocking", "NonBlocking"}, handle : Fds \cup {NoFd}, remote : BOOLEAN]
Links == {"none", "progress", "made", "failed", "dead"}
Known == [nonblock : BOOLEAN, link : Links, unread : BOOLEAN, eof : BOOLEAN, shut : BOOLEAN]

SockTypes ==
    /\ sockKind \in {"stream", "datagram"}
    /\ object \in [Objects -> Objs]
    /\ DOMAIN kernel \subseteq Fds /\ kernel \in [DOMAIN kernel -> Known]
    /\ probed \subseteq Objects /\ emptied \subseteq Objects

(* What object record r and the kernel's record k of its descriptor say of each other. *)
Agree(r, k, wasProbed, wasEmptied) ==
    /\ (r.mode = "NonBlocking") = k.nonblock
    /\ sockKind = "stream" =>
        \/ wasProbed
        \/ /\ r.state \in {"Connected", "Disconnecting"} => k.link = "made"
           /\ r.state = "Disconnected" => k.link = "none" \/ (k.link = "made" /\ k.shut /\ k.eof /\ ~k.unread)
    /\ sockKind = "datagram" => k.link \in {"none", "made"} /\ (wasEmptied \/ ((r.state = "Connected") = (k.link = "made")))

(* The descriptors of the objects are open, and those of two objects are two. *)
HandlesOpen ==
    /\ \A o \in Objects : (object[o].state = "Closed") = (object[o].handle = NoFd)
    /\ \A o \in Objects : object[o].handle # NoFd => object[o].handle \in DOMAIN kernel
    /\ \A o, p \in Objects : (object[o].handle = object[p].handle /\ o # p) => object[o].handle = NoFd
    /\ \A fd \in DOMAIN kernel : \E o \in Objects : object[o].handle = fd

AllAgree == \A o \in Objects : object[o].handle # NoFd => Agree(object[o], kernel[object[o].handle], o \in probed, o \in emptied)

SockInv == SockTypes /\ HandlesOpen /\ AllAgree

LEMMA NoFdIsNone == NoFd \notin Fds
  BY FdsAssumption DEF NoFd

LEMMA SockInitInv == SockInit => SockInv
<1> SUFFICES ASSUME SockInit PROVE SockInv
  OBVIOUS
<1>1. \A o \in Objects : object[o] = Fresh
  BY DEF SockInit
<1>2. Fresh \in Objs /\ Fresh.handle = NoFd /\ Fresh.state = "Closed"
  BY DEF Fresh, Objs, ObjectStates
<1>3. DOMAIN kernel = {} /\ kernel \in [DOMAIN kernel -> Known]
  BY DEF SockInit
<1> QED BY <1>1, <1>2, <1>3 DEF SockInit, SockInv, SockTypes, HandlesOpen, AllAgree

(* One object changes, and keeps its descriptor, of which the kernel may say something else. *)
LEMMA SameHandle ==
  ASSUME SockInv, UNCHANGED sockKind, NEW o \in Objects, NEW r \in Objs, NEW k \in Known,
         object[o].handle # NoFd, r.handle = object[o].handle, r.state # "Closed",
         object' = [object EXCEPT ![o] = r],
         DOMAIN kernel' = DOMAIN kernel, kernel' = [kernel EXCEPT ![object[o].handle] = k],
         probed' \subseteq Objects, emptied' \subseteq Objects,
         \A p \in Objects \ {o} : (p \in probed' <=> p \in probed) /\ (p \in emptied' <=> p \in emptied),
         Agree(r, k, o \in probed', o \in emptied')
  PROVE  SockInv'
<1>0. SockTypes /\ HandlesOpen /\ AllAgree /\ object[o].handle \in DOMAIN kernel
  BY DEF SockInv, HandlesOpen
<1>1. object'[o] = r /\ \A p \in Objects \ {o} : object'[p] = object[p]
  BY <1>0 DEF SockTypes
<1>2. \A p \in Objects : object'[p].handle = object[p].handle /\ ((object'[p].state = "Closed") = (object[p].state = "Closed"))
  BY <1>0, <1>1 DEF HandlesOpen
<1>3. kernel'[object[o].handle] = k /\ \A fd \in DOMAIN kernel \ {object[o].handle} : kernel'[fd] = kernel[fd]
  BY <1>0 DEF SockTypes
<1>4. SockTypes'
  BY <1>0 DEF SockTypes
<1>5. HandlesOpen'
  BY <1>0, <1>2 DEF HandlesOpen
<1>6. ASSUME NEW p \in Objects, object'[p].handle # NoFd
      PROVE  Agree(object'[p], kernel'[object'[p].handle], p \in probed', p \in emptied')
  <2>1. CASE p = o
    BY <1>1, <1>3, <2>1
  <2>2. CASE p # o
    <3>1. object'[p] = object[p] /\ object[p].handle \in DOMAIN kernel \ {object[o].handle}
      BY <1>0, <1>1, <1>2, <1>6, <2>2 DEF HandlesOpen
    <3>2. kernel'[object'[p].handle] = kernel[object[p].handle]
      BY <1>3, <3>1
    <3>3. Agree(object[p], kernel[object[p].handle], p \in probed, p \in emptied)
      BY <1>0, <1>2, <1>6 DEF AllAgree
    <3> QED BY <2>2, <3>1, <3>2, <3>3
  <2> QED BY <2>1, <2>2
<1>7. AllAgree'
  BY <1>6 DEF AllAgree, Agree
<1> QED BY <1>4, <1>5, <1>7 DEF SockInv

(* One object gives its descriptor back. *)
LEMMA HandleClosed ==
  ASSUME SockInv, UNCHANGED sockKind, NEW o \in Objects, NEW r \in Objs,
         object[o].handle # NoFd, r.handle = NoFd, r.state = "Closed",
         object' = [object EXCEPT ![o] = r], kernel' = Drop(object[o].handle),
         probed' \subseteq Objects, emptied' \subseteq Objects,
         \A p \in Objects \ {o} : (p \in probed' <=> p \in probed) /\ (p \in emptied' <=> p \in emptied)
  PROVE  SockInv'
<1>0. SockTypes /\ HandlesOpen /\ AllAgree /\ object[o].handle \in DOMAIN kernel
  BY DEF SockInv, HandlesOpen
<1>1. object'[o] = r /\ \A p \in Objects \ {o} : object'[p] = object[p]
  BY <1>0 DEF SockTypes
<1>2. DOMAIN kernel' = DOMAIN kernel \ {object[o].handle} /\ \A fd \in DOMAIN kernel' : kernel'[fd] = kernel[fd]
  BY <1>0 DEF Drop
<1>3. SockTypes'
  <2>1. kernel' \in [DOMAIN kernel' -> Known]
    BY <1>0, <1>2 DEF SockTypes, Drop
  <2> QED BY <1>0, <1>2, <2>1 DEF SockTypes
<1>4. HandlesOpen'
  <2>1. \A p \in Objects : object'[p].handle # NoFd => p # o /\ object'[p].handle \in DOMAIN kernel'
    BY <1>0, <1>1, <1>2 DEF HandlesOpen
  <2>2. \A fd \in DOMAIN kernel' : \E p \in Objects : object'[p].handle = fd
    BY <1>0, <1>1, <1>2 DEF HandlesOpen
  <2>3. \A p \in Objects : (object'[p].state = "Closed") = (object'[p].handle = NoFd)
    BY <1>0, <1>1 DEF HandlesOpen
  <2>4. \A p, q \in Objects : (object'[p].handle = object'[q].handle /\ p # q) => object'[p].handle = NoFd
    BY <1>0, <1>1 DEF HandlesOpen
  <2> QED BY <2>1, <2>2, <2>3, <2>4 DEF HandlesOpen
<1>5. ASSUME NEW p \in Objects, object'[p].handle # NoFd
      PROVE  Agree(object'[p], kernel'[object'[p].handle], p \in probed', p \in emptied')
  <2>1. p # o /\ object'[p] = object[p] /\ object'[p].handle \in DOMAIN kernel'
    BY <1>1, <1>4, <1>5 DEF HandlesOpen
  <2>2. kernel'[object'[p].handle] = kernel[object[p].handle]
    BY <1>2, <2>1
  <2>3. Agree(object[p], kernel[object[p].handle], p \in probed, p \in emptied)
    BY <1>0, <1>5, <2>1 DEF AllAgree
  <2> QED BY <2>1, <2>2, <2>3
<1>6. AllAgree'
  BY <1>5 DEF AllAgree, Agree
<1> QED BY <1>3, <1>4, <1>6 DEF SockInv

(* One object, which has none, is given a new descriptor. *)
LEMMA HandleOpened ==
  ASSUME SockInv, UNCHANGED sockKind, NEW o \in Objects, NEW r \in Objs, NEW k \in Known, NEW fd \in Free,
         object[o].handle = NoFd, r.handle = fd, r.state # "Closed",
         object' = [object EXCEPT ![o] = r], kernel' = Adds(fd, k),
         probed' \subseteq Objects, emptied' \subseteq Objects,
         \A p \in Objects \ {o} : (p \in probed' <=> p \in probed) /\ (p \in emptied' <=> p \in emptied),
         Agree(r, k, o \in probed', o \in emptied')
  PROVE  SockInv'
<1>0. SockTypes /\ HandlesOpen /\ AllAgree /\ fd \in Fds /\ fd \notin DOMAIN kernel /\ fd # NoFd
  BY NoFdIsNone DEF SockInv, Free
<1>1. object'[o] = r /\ \A p \in Objects \ {o} : object'[p] = object[p]
  BY <1>0 DEF SockTypes
<1>2. DOMAIN kernel' = DOMAIN kernel \cup {fd} /\ kernel'[fd] = k /\ \A f \in DOMAIN kernel : kernel'[f] = kernel[f]
  BY <1>0 DEF Adds
<1>3. SockTypes'
  <2>1. kernel' \in [DOMAIN kernel' -> Known]
    BY <1>0, <1>2 DEF SockTypes, Adds
  <2> QED BY <1>0, <1>2, <2>1 DEF SockTypes
<1>4. HandlesOpen'
  <2>1. \A p \in Objects : object'[p].handle # NoFd => object'[p].handle \in DOMAIN kernel'
    BY <1>0, <1>1, <1>2 DEF HandlesOpen
  <2>2. \A f \in DOMAIN kernel' : \E p \in Objects : object'[p].handle = f
    <3>1. ASSUME NEW f \in DOMAIN kernel PROVE \E p \in Objects : object'[p].handle = f
      <4>1. PICK p \in Objects : object[p].handle = f
        BY <1>0 DEF HandlesOpen
      <4>2. f # NoFd /\ p # o
        BY <1>0, <4>1, NoFdIsNone DEF SockTypes
      <4> QED BY <1>1, <4>1, <4>2
    <3> QED BY <1>1, <1>2, <3>1
  <2>3. \A p \in Objects : (object'[p].state = "Closed") = (object'[p].handle = NoFd)
    BY <1>0, <1>1 DEF HandlesOpen
  <2>4. \A p, q \in Objects : (object'[p].handle = object'[q].handle /\ p # q) => object'[p].handle = NoFd
    BY <1>0, <1>1 DEF HandlesOpen
  <2> QED BY <2>1, <2>2, <2>3, <2>4 DEF HandlesOpen
<1>5. ASSUME NEW p \in Objects, object'[p].handle # NoFd
      PROVE  Agree(object'[p], kernel'[object'[p].handle], p \in probed', p \in emptied')
  <2>1. CASE p = o
    BY <1>1, <1>2, <2>1
  <2>2. CASE p # o
    <3>1. object'[p] = object[p] /\ object[p].handle \in DOMAIN kernel
      BY <1>0, <1>1, <1>5, <2>2 DEF HandlesOpen
    <3>2. kernel'[object'[p].handle] = kernel[object[p].handle]
      BY <1>2, <3>1
    <3>3. Agree(object[p], kernel[object[p].handle], p \in probed, p \in emptied)
      BY <1>0, <1>5, <3>1 DEF AllAgree
    <3> QED BY <2>2, <3>1, <3>2, <3>3
  <2> QED BY <2>1, <2>2
<1>6. AllAgree'
  BY <1>5 DEF AllAgree, Agree
<1> QED BY <1>3, <1>4, <1>6 DEF SockInv

(* What an open object and its descriptor are. *)
LEMMA OpenObject ==
  ASSUME SockInv, NEW o \in Objects, object[o].state # "Closed"
  PROVE  /\ object[o] \in Objs /\ object[o].handle # NoFd /\ object[o].handle \in DOMAIN kernel
         /\ kernel[object[o].handle] \in Known
         /\ Agree(object[o], kernel[object[o].handle], o \in probed, o \in emptied)
  BY DEF SockInv, SockTypes, HandlesOpen, AllAgree

LEMMA CreatedKnown ==
  ASSUME NEW mode \in {"Blocking", "NonBlocking"}
  PROVE  Created(mode) \in Known /\ Created(mode).link = "none" /\ Created(mode).nonblock = (mode = "NonBlocking")
  BY DEF Created, Known, Links

LEMMA SockOpenStep == ASSUME SockInv, UNCHANGED sockKind, NEW o \in Objects, SockOpen(o) PROVE SockInv'
<1>1. PICK fd \in Free :
        /\ object' = [object EXCEPT ![o] = [object[o] EXCEPT !.state = "Disconnected", !.handle = fd]]
        /\ kernel' = Adds(fd, Created(object[o].mode))
  BY DEF SockOpen, SetObject
<1> DEFINE r == [object[o] EXCEPT !.state = "Disconnected", !.handle = fd]
           k == Created(object[o].mode)
<1>2. object[o] \in Objs /\ object[o].handle = NoFd /\ fd \in Fds /\ UNCHANGED <<probed, emptied>> /\ probed \subseteq Objects /\ emptied \subseteq Objects
  BY <1>1 DEF SockOpen, Quiet, SockInv, SockTypes, HandlesOpen, Free
<1>3. r \in Objs /\ r.handle = fd /\ r.state = "Disconnected" /\ r.mode = object[o].mode /\ object[o].mode \in {"Blocking", "NonBlocking"}
  BY <1>2 DEF Objs, ObjectStates
<1>4. k \in Known /\ k.link = "none" /\ k.nonblock = (r.mode = "NonBlocking")
  BY <1>3, CreatedKnown
<1>5. object' = [object EXCEPT ![o] = r] /\ kernel' = Adds(fd, k)
  BY <1>1
<1> HIDE DEF r, k
<1>6. Agree(r, k, o \in probed', o \in emptied')
  BY <1>3, <1>4 DEF Agree
<1> QED BY <1>2, <1>3, <1>4, <1>5, <1>6, HandleOpened

LEMMA AcceptStep == ASSUME SockInv, UNCHANGED sockKind, NEW o \in Objects, Accept(o) PROVE SockInv'
<1> DEFINE k == [Created("NonBlocking") EXCEPT !.link = "made"]
<1>1. PICK fd \in Free :
        /\ object' = [object EXCEPT ![o] = [state |-> "Connected", mode |-> "NonBlocking", handle |-> fd, remote |-> TRUE]]
        /\ kernel' = Adds(fd, k)
  BY DEF Accept, SetObject
<1> DEFINE r == [state |-> "Connected", mode |-> "NonBlocking", handle |-> fd, remote |-> TRUE]
<1>2. /\ object[o].handle = NoFd /\ fd \in Fds /\ sockKind = "stream"
      /\ probed' = probed \ {o} /\ emptied' = emptied /\ probed \subseteq Objects /\ emptied \subseteq Objects
  BY <1>1 DEF Accept, SockInv, SockTypes, HandlesOpen, Free
<1>3. r \in Objs /\ r.handle = fd /\ r.state = "Connected" /\ r.mode = "NonBlocking"
  BY <1>2 DEF Objs, ObjectStates
<1>4. k \in Known /\ k.link = "made" /\ k.nonblock
  BY DEF Created, Known, Links
<1>5. object' = [object EXCEPT ![o] = r] /\ kernel' = Adds(fd, k)
  BY <1>1
<1> HIDE DEF r, k
<1>6. Agree(r, k, o \in probed', o \in emptied')
  BY <1>2, <1>3, <1>4 DEF Agree
<1> QED BY <1>2, <1>3, <1>4, <1>5, <1>6, HandleOpened

LEMMA SockCloseStep == ASSUME SockInv, UNCHANGED sockKind, NEW o \in Objects, SockClose(o) PROVE SockInv'
<1> DEFINE r == [object[o] EXCEPT !.state = "Closed", !.handle = NoFd, !.remote = FALSE]
<1>1. /\ object' = [object EXCEPT ![o] = r] /\ kernel' = Drop(object[o].handle) /\ UNCHANGED <<probed, emptied>>
      /\ probed \subseteq Objects /\ emptied \subseteq Objects /\ object[o].handle # NoFd /\ object[o] \in Objs
  BY OpenObject DEF SockClose, SetObject, Quiet, SockInv, SockTypes
<1>2. r \in Objs /\ r.handle = NoFd /\ r.state = "Closed"
  BY <1>1 DEF Objs, ObjectStates
<1> HIDE DEF r
<1> QED BY <1>1, <1>2, HandleClosed

(* The source of a move that is not open leaves the target without a descriptor; one that is gives its own. *)
LEMMA MoveAssignStep == ASSUME SockInv, UNCHANGED sockKind, NEW o \in Objects, NEW p \in Objects, MoveAssign(o, p) PROVE SockInv'
<1> DEFINE r == [Fresh EXCEPT !.remote = object[p].remote]
<1>0. SockTypes /\ HandlesOpen /\ AllAgree /\ o # p
  BY DEF SockInv, MoveAssign
<1>1. /\ object'[o] = object[p] /\ object'[p] = r /\ \A q \in Objects \ {o, p} : object'[q] = object[q]
      /\ object' \in [Objects -> Objs]
  <2>1. object' = [object EXCEPT ![o] = object[p], ![p] = r]
    BY DEF MoveAssign
  <2>2. r \in Objs
    BY <1>0 DEF SockTypes, Objs, Fresh, ObjectStates
  <2> QED BY <1>0, <2>1, <2>2 DEF SockTypes
<1>2. r.handle = NoFd /\ r.state = "Closed"
  BY DEF Fresh
<1> HIDE DEF r
<1>3. DOMAIN kernel' = DOMAIN kernel \ {object[o].handle} /\ \A fd \in DOMAIN kernel' : kernel'[fd] = kernel[fd]
  <2>1. CASE object[o].handle = NoFd
    BY <1>0, <2>1, NoFdIsNone DEF MoveAssign, SockTypes
  <2>2. CASE object[o].handle # NoFd
    BY <2>2 DEF MoveAssign, Drop
  <2> QED BY <2>1, <2>2
<1>4. kernel' \in [DOMAIN kernel' -> Known]
  BY <1>0, <1>3 DEF SockTypes, MoveAssign, Drop
<1>5. /\ (o \in probed' <=> p \in probed) /\ (o \in emptied' <=> p \in emptied)
      /\ \A q \in Objects \ {o, p} : (q \in probed' <=> q \in probed) /\ (q \in emptied' <=> q \in emptied)
      /\ probed' \subseteq Objects /\ emptied' \subseteq Objects
  BY <1>0 DEF MoveAssign, SockTypes
<1>6. SockTypes'
  BY <1>0, <1>1, <1>3, <1>4, <1>5 DEF SockTypes
<1>7. HandlesOpen'
  <2>1. \A q \in Objects : (object'[q].state = "Closed") = (object'[q].handle = NoFd)
    BY <1>0, <1>1, <1>2 DEF HandlesOpen
  <2>2. ASSUME NEW q \in Objects, object'[q].handle # NoFd PROVE object'[q].handle \in DOMAIN kernel'
    <3>1. CASE q = o
      BY <1>0, <1>1, <1>3, <2>2, <3>1 DEF HandlesOpen
    <3>2. CASE q # o
      BY <1>0, <1>1, <1>2, <1>3, <2>2, <3>2 DEF HandlesOpen
    <3> QED BY <3>1, <3>2
  <2>3. \A q, x \in Objects : (object'[q].handle = object'[x].handle /\ q # x) => object'[q].handle = NoFd
    BY <1>0, <1>1, <1>2 DEF HandlesOpen
  <2>4. ASSUME NEW fd \in DOMAIN kernel' PROVE \E q \in Objects : object'[q].handle = fd
    <3>1. PICK q \in Objects : object[q].handle = fd
      BY <1>0, <1>3 DEF HandlesOpen
    <3>2. q # o
      BY <1>3, <3>1
    <3>3. CASE q = p
      BY <1>1, <3>1, <3>3
    <3>4. CASE q # p
      BY <1>1, <3>1, <3>2, <3>4
    <3> QED BY <3>3, <3>4
  <2> QED BY <2>1, <2>2, <2>3, <2>4 DEF HandlesOpen
<1>8. ASSUME NEW q \in Objects, object'[q].handle # NoFd
      PROVE  Agree(object'[q], kernel'[object'[q].handle], q \in probed', q \in emptied')
  <2>1. q # p /\ object'[q].handle \in DOMAIN kernel'
    BY <1>1, <1>2, <1>7, <1>8 DEF HandlesOpen
  <2>2. PICK x \in Objects : object'[q] = object[x] /\ (q \in probed' <=> x \in probed) /\ (q \in emptied' <=> x \in emptied)
    BY <1>1, <1>5, <2>1
  <2>3. kernel'[object'[q].handle] = kernel[object[x].handle]
    BY <1>3, <2>1, <2>2
  <2>4. Agree(object[x], kernel[object[x].handle], x \in probed, x \in emptied)
    BY <1>0, <1>8, <2>2 DEF AllAgree
  <2> QED BY <2>2, <2>3, <2>4 DEF Agree
<1>9. AllAgree'
  BY <1>8 DEF AllAgree, Agree
<1> QED BY <1>6, <1>7, <1>9 DEF SockInv

LEMMA SetModeStep == ASSUME SockInv, UNCHANGED sockKind, NEW o \in Objects, NEW mode \in {"Blocking", "NonBlocking"}, SetMode(o, mode) PROVE SockInv'
<1> DEFINE r == [object[o] EXCEPT !.mode = mode]
           h == object[o].handle
           k == [kernel[h] EXCEPT !.nonblock = (mode = "NonBlocking")]
<1>0. /\ SockTypes /\ object' = [object EXCEPT ![o] = r] /\ UNCHANGED <<probed, emptied>> /\ object[o] \in Objs
      /\ probed \subseteq Objects /\ emptied \subseteq Objects
  BY DEF SetMode, SetObject, Quiet, SockInv, SockTypes
<1>1. r \in Objs /\ r.handle = h /\ r.state = object[o].state /\ r.mode = mode
  BY <1>0 DEF Objs
<1>2. CASE object[o].state = "Closed"
  <2>1. object[o].handle = NoFd /\ kernel' = kernel
    BY <1>2 DEF SetMode, SockInv, HandlesOpen
  <2>2. object'[o] = r /\ \A q \in Objects \ {o} : object'[q] = object[q]
    BY <1>0 DEF SockTypes
  <2>3. \A q \in Objects : object'[q].handle = object[q].handle /\ object'[q].state = object[q].state
    BY <1>1, <2>2
  <2>4. \A q \in Objects : object'[q].handle # NoFd => object'[q] = object[q]
    BY <2>1, <2>2, <2>3
  <2>5. SockTypes'
    BY <1>0, <1>1, <2>1 DEF SockTypes
  <2>6. HandlesOpen'
    BY <2>1, <2>3 DEF SockInv, HandlesOpen
  <2>7. AllAgree'
    BY <1>0, <2>1, <2>4 DEF SockInv, AllAgree, Agree
  <2> QED BY <2>5, <2>6, <2>7 DEF SockInv
<1>3. CASE object[o].state # "Closed"
  <2>1. h # NoFd /\ h \in DOMAIN kernel /\ kernel[h] \in Known /\ Agree(object[o], kernel[h], o \in probed, o \in emptied)
    BY <1>3, OpenObject
  <2>2. k \in Known /\ k.nonblock = (mode = "NonBlocking") /\ k.link = kernel[h].link /\ k.shut = kernel[h].shut /\ k.eof = kernel[h].eof /\ k.unread = kernel[h].unread
    BY <2>1 DEF Known
  <2>3. kernel' = [kernel EXCEPT ![h] = k] /\ DOMAIN kernel' = DOMAIN kernel
    BY <1>3 DEF SetMode
  <2> HIDE DEF k, r
  <2>4. Agree(r, k, o \in probed', o \in emptied')
    BY <1>0, <1>1, <2>1, <2>2 DEF Agree
  <2> QED BY <1>0, <1>1, <1>3, <2>1, <2>2, <2>3, <2>4, SameHandle
<1> QED BY <1>2, <1>3

LEMMA StreamConnectStep ==
  ASSUME SockInv, UNCHANGED sockKind, NEW o \in Objects, NEW link \in {"made", "progress", "failed"}, StreamConnect(o, link) PROVE SockInv'
<1> DEFINE h == object[o].handle
           k == [kernel[h] EXCEPT !.link = link]
           r == [object[o] EXCEPT !.state = IF link = "made" THEN "Connected" ELSE "Connecting", !.remote = TRUE]
           c == [object[o] EXCEPT !.state = "Closed", !.handle = NoFd, !.remote = FALSE]
<1>0. /\ sockKind = "stream" /\ object[o].state = "Disconnected" /\ probed' = probed \ {o} /\ emptied' = emptied
      /\ probed \subseteq Objects /\ emptied \subseteq Objects
  BY DEF StreamConnect, SockInv, SockTypes
<1>1. object[o] \in Objs /\ h # NoFd /\ h \in DOMAIN kernel /\ kernel[h] \in Known /\ Agree(object[o], kernel[h], o \in probed, o \in emptied)
  BY <1>0, OpenObject
<1>2. CASE link = "failed"
  <2>1. object' = [object EXCEPT ![o] = c] /\ kernel' = Drop(h)
    BY <1>2 DEF StreamConnect, SetObject
  <2>2. c \in Objs /\ c.handle = NoFd /\ c.state = "Closed"
    BY <1>1 DEF Objs, ObjectStates
  <2> HIDE DEF c
  <2> QED BY <1>0, <1>1, <2>1, <2>2, HandleClosed
<1>3. CASE link # "failed"
  <2>1. object' = [object EXCEPT ![o] = r] /\ kernel' = [kernel EXCEPT ![h] = k] /\ DOMAIN kernel' = DOMAIN kernel
    BY <1>3 DEF StreamConnect, SetObject
  <2>2. r \in Objs /\ r.handle = h /\ r.mode = object[o].mode /\ r.state = (IF link = "made" THEN "Connected" ELSE "Connecting")
    BY <1>1 DEF Objs, ObjectStates
  <2>3. k \in Known /\ k.link = link /\ k.nonblock = kernel[h].nonblock
    BY <1>1 DEF Known, Links
  <2> HIDE DEF r, k
  <2>4. Agree(r, k, o \in probed', o \in emptied')
    BY <1>0, <1>1, <2>2, <2>3 DEF Agree
  <2>5. r.state # "Closed"
    BY <2>2
  <2> QED BY <1>0, <1>1, <2>1, <2>2, <2>3, <2>4, <2>5, SameHandle
<1> QED BY <1>2, <1>3

LEMMA ConnectedStep == ASSUME SockInv, UNCHANGED sockKind, NEW o \in Objects, Connected(o) PROVE SockInv'
<1> DEFINE h == object[o].handle
           k == [kernel[h] EXCEPT !.link = "dead"]
           r == [object[o] EXCEPT !.state = "Connected"]
<1>0. sockKind = "stream" /\ object[o].state = "Connecting" /\ emptied' = emptied /\ probed \subseteq Objects /\ emptied \subseteq Objects /\ object \in [Objects -> Objs]
  BY DEF Connected, SockInv, SockTypes
<1>1. object[o] \in Objs /\ h # NoFd /\ h \in DOMAIN kernel /\ kernel[h] \in Known /\ Agree(object[o], kernel[h], o \in probed, o \in emptied)
  BY <1>0, OpenObject
<1>2. CASE kernel[h].link = "failed"
  <2>1. kernel' = [kernel EXCEPT ![h] = k] /\ DOMAIN kernel' = DOMAIN kernel /\ UNCHANGED <<object, probed>>
    BY <1>2 DEF Connected, Link
  <2>2. k \in Known /\ k.link = "dead" /\ k.nonblock = kernel[h].nonblock
    BY <1>1 DEF Known, Links
  <2> HIDE DEF k
  <2>3. Agree(object[o], k, o \in probed', o \in emptied')
    BY <1>0, <1>1, <2>1, <2>2 DEF Agree
  <2>4. object' = [object EXCEPT ![o] = object[o]]
    BY <1>0, <2>1
  <2> QED BY <1>0, <1>1, <2>1, <2>2, <2>3, <2>4, SameHandle
<1>3. CASE kernel[h].link # "failed"
  <2>1. /\ object' = [object EXCEPT ![o] = r] /\ kernel' = kernel
        /\ probed' = IF kernel[h].link = "made" THEN probed ELSE probed \cup {o}
    BY <1>3 DEF Connected, Link, SetObject
  <2>2. r \in Objs /\ r.handle = h /\ r.mode = object[o].mode /\ r.state = "Connected"
    BY <1>1 DEF Objs, ObjectStates
  <2> HIDE DEF r
  <2>3. Agree(r, kernel[h], o \in probed', o \in emptied')
    BY <1>0, <1>1, <2>1, <2>2 DEF Agree
  <2>4. kernel' = [kernel EXCEPT ![h] = kernel[h]] /\ DOMAIN kernel' = DOMAIN kernel
    BY <1>1, <2>1 DEF SockInv, SockTypes
  <2> QED BY <1>0, <1>1, <2>1, <2>2, <2>3, <2>4, SameHandle
<1> QED BY <1>2, <1>3

LEMMA ReadSomeStep == ASSUME SockInv, UNCHANGED sockKind, NEW o \in Objects, ReadSome(o) PROVE SockInv'
<1> DEFINE h == object[o].handle
           k == [kernel[h] EXCEPT !.unread = FALSE]
<1>0. /\ sockKind = "stream" /\ object[o].state \in {"Connected", "Disconnecting"} /\ UNCHANGED <<object, probed, emptied>>
      /\ probed \subseteq Objects /\ emptied \subseteq Objects /\ object \in [Objects -> Objs]
  BY DEF ReadSome, SockInv, SockTypes
<1>1. object[o] \in Objs /\ h # NoFd /\ h \in DOMAIN kernel /\ kernel[h] \in Known /\ Agree(object[o], kernel[h], o \in probed, o \in emptied)
  BY <1>0, OpenObject
<1>2. kernel' = [kernel EXCEPT ![h] = k] /\ DOMAIN kernel' = DOMAIN kernel
  BY DEF ReadSome
<1>3. k \in Known /\ k.link = kernel[h].link /\ k.nonblock = kernel[h].nonblock
  BY <1>1 DEF Known
<1> HIDE DEF k
<1>4. Agree(object[o], k, o \in probed', o \in emptied')
  BY <1>0, <1>1, <1>3 DEF Agree
<1>5. object' = [object EXCEPT ![o] = object[o]]
  BY <1>0
<1> QED BY <1>0, <1>1, <1>2, <1>3, <1>4, <1>5, SameHandle

LEMMA StreamDisconnectStep == ASSUME SockInv, UNCHANGED sockKind, NEW o \in Objects, StreamDisconnect(o) PROVE SockInv'
<1> DEFINE h == object[o].handle
           k == [kernel[h] EXCEPT !.unread = FALSE, !.shut = TRUE]
           waits == kernel[h].nonblock /\ kernel[h].link = "made" /\ ~kernel[h].eof
           r == [object[o] EXCEPT !.state = IF waits THEN "Disconnecting" ELSE "Disconnected"]
<1>0. /\ sockKind = "stream" /\ object[o].state \in {"Connected", "Disconnecting"} /\ UNCHANGED <<probed, emptied>>
      /\ probed \subseteq Objects /\ emptied \subseteq Objects
  BY DEF StreamDisconnect, DisconnectEnds, SockInv, SockTypes
<1>1. object[o] \in Objs /\ h # NoFd /\ h \in DOMAIN kernel /\ kernel[h] \in Known /\ Agree(object[o], kernel[h], o \in probed, o \in emptied)
  BY <1>0, OpenObject
<1>2. object' = [object EXCEPT ![o] = r] /\ (waits \/ kernel[h].eof \/ kernel[h].link # "made")
  BY DEF StreamDisconnect, DisconnectEnds, SetObject
<1>3. kernel' = [kernel EXCEPT ![h].unread = FALSE, ![h].shut = TRUE]
  BY DEF StreamDisconnect, DisconnectEnds
<1>4. kernel' = [kernel EXCEPT ![h] = k] /\ DOMAIN kernel' = DOMAIN kernel
  BY <1>1, <1>3 DEF SockInv, SockTypes
<1>5. r \in Objs /\ r.handle = h /\ r.mode = object[o].mode /\ r.state = (IF waits THEN "Disconnecting" ELSE "Disconnected")
  BY <1>1 DEF Objs, ObjectStates
<1>6. k \in Known /\ k.link = kernel[h].link /\ k.nonblock = kernel[h].nonblock /\ k.eof = kernel[h].eof /\ k.shut /\ ~k.unread
  BY <1>1 DEF Known
<1> HIDE DEF k, r
<1>7. Agree(r, k, o \in probed', o \in emptied')
  BY <1>0, <1>1, <1>2, <1>5, <1>6 DEF Agree
<1>8. r.state # "Closed"
  BY <1>5
<1> QED BY <1>0, <1>1, <1>2, <1>4, <1>5, <1>6, <1>7, <1>8, SameHandle

LEMMA KernelStep == ASSUME SockInv, UNCHANGED sockKind, NEW fd \in DOMAIN kernel, KernelSteps(fd) PROVE SockInv'
<1>0. UNCHANGED <<object, probed, emptied>> /\ probed \subseteq Objects /\ emptied \subseteq Objects /\ object \in [Objects -> Objs] /\ kernel[fd] \in Known
  BY DEF KernelSteps, SockInv, SockTypes
<1>1. PICK o \in Objects : object[o].handle = fd
  BY DEF SockInv, HandlesOpen
<1>2. object[o].handle # NoFd /\ object[o].state # "Closed" /\ object[o] \in Objs /\ Agree(object[o], kernel[fd], o \in probed, o \in emptied)
  BY <1>1, NoFdIsNone DEF SockInv, SockTypes, HandlesOpen, AllAgree
<1>3. PICK k \in Known :
        /\ kernel' = [kernel EXCEPT ![fd] = k] /\ k.nonblock = kernel[fd].nonblock /\ k.shut = kernel[fd].shut
        /\ \/ kernel[fd].link = "progress" /\ k.link \in {"made", "failed"}
           \/ kernel[fd].link = "made" /\ k.link = "made" /\ ~kernel[fd].eof
        /\ k.link = "made" => kernel[fd].link \in {"progress", "made"}
  <2>1. CASE kernel[fd].link = "progress" /\ \E link \in {"made", "failed"} : kernel' = [kernel EXCEPT ![fd].link = link]
    <3>1. PICK link \in {"made", "failed"} : kernel' = [kernel EXCEPT ![fd].link = link]
      BY <2>1
    <3>2. LET k == [kernel[fd] EXCEPT !.link = link] IN k \in Known /\ k.link = link /\ k.nonblock = kernel[fd].nonblock /\ k.shut = kernel[fd].shut
      BY <1>0 DEF Known, Links
    <3> QED BY <2>1, <3>1, <3>2
  <2>2. CASE kernel[fd].link = "made" /\ ~kernel[fd].eof /\ kernel' = [kernel EXCEPT ![fd].unread = TRUE]
    <3>1. LET k == [kernel[fd] EXCEPT !.unread = TRUE] IN k \in Known /\ k.link = kernel[fd].link /\ k.nonblock = kernel[fd].nonblock /\ k.shut = kernel[fd].shut
      BY <1>0 DEF Known
    <3> QED BY <2>2, <3>1
  <2>3. CASE kernel[fd].link = "made" /\ ~kernel[fd].eof /\ kernel' = [kernel EXCEPT ![fd].eof = TRUE]
    <3>1. LET k == [kernel[fd] EXCEPT !.eof = TRUE] IN k \in Known /\ k.link = kernel[fd].link /\ k.nonblock = kernel[fd].nonblock /\ k.shut = kernel[fd].shut
      BY <1>0 DEF Known
    <3> QED BY <2>3, <3>1
  <2> QED BY <2>1, <2>2, <2>3 DEF KernelSteps
<1>4. object' = [object EXCEPT ![o] = object[o]] /\ DOMAIN kernel' = DOMAIN kernel
  BY <1>0, <1>3
<1>5. Agree(object[o], k, o \in probed', o \in emptied')
  BY <1>0, <1>2, <1>3 DEF Agree
<1> QED BY <1>0, <1>1, <1>2, <1>3, <1>4, <1>5, SameHandle

LEMMA DatagramConnectStep == ASSUME SockInv, UNCHANGED sockKind, NEW o \in Objects, NEW fails \in BOOLEAN, DatagramConnect(o, fails) PROVE SockInv'
<1> DEFINE h == object[o].handle
           k == [kernel[h] EXCEPT !.link = "made"]
           r == [object[o] EXCEPT !.state = "Connected", !.remote = TRUE]
           c == [object[o] EXCEPT !.state = "Closed", !.handle = NoFd, !.remote = FALSE]
<1>0. /\ sockKind = "datagram" /\ object[o].state = "Disconnected" /\ probed' = probed /\ emptied' = emptied \ {o}
      /\ probed \subseteq Objects /\ emptied \subseteq Objects
  BY DEF DatagramConnect, SockInv, SockTypes
<1>1. object[o] \in Objs /\ h # NoFd /\ h \in DOMAIN kernel /\ kernel[h] \in Known /\ Agree(object[o], kernel[h], o \in probed, o \in emptied)
  BY <1>0, OpenObject
<1>2. CASE fails
  <2>1. object' = [object EXCEPT ![o] = c] /\ kernel' = Drop(h)
    BY <1>1, <1>2 DEF DatagramConnect, SetObject, Objs
  <2>2. c \in Objs /\ c.handle = NoFd /\ c.state = "Closed"
    BY <1>1 DEF Objs, ObjectStates
  <2> HIDE DEF c
  <2> QED BY <1>0, <1>1, <2>1, <2>2, HandleClosed
<1>3. CASE ~fails
  <2>1. object' = [object EXCEPT ![o] = r] /\ kernel' = [kernel EXCEPT ![h] = k] /\ DOMAIN kernel' = DOMAIN kernel
    BY <1>1, <1>3 DEF DatagramConnect, SetObject, Objs
  <2>2. r \in Objs /\ r.handle = h /\ r.mode = object[o].mode /\ r.state = "Connected"
    BY <1>1 DEF Objs, ObjectStates
  <2>3. k \in Known /\ k.link = "made" /\ k.nonblock = kernel[h].nonblock
    BY <1>1 DEF Known, Links
  <2> HIDE DEF r, k
  <2>4. Agree(r, k, o \in probed', o \in emptied')
    BY <1>0, <1>1, <2>2, <2>3 DEF Agree
  <2> QED BY <1>0, <1>1, <2>1, <2>2, <2>3, <2>4, SameHandle
<1> QED BY <1>2, <1>3

LEMMA DatagramDisconnectStep == ASSUME SockInv, UNCHANGED sockKind, NEW o \in Objects, DatagramDisconnect(o) PROVE SockInv'
<1> DEFINE h == object[o].handle
           k == [kernel[h] EXCEPT !.link = "none"]
           r == [object[o] EXCEPT !.state = "Disconnected", !.remote = FALSE]
<1>0. /\ sockKind = "datagram" /\ object[o].state = "Connected" /\ UNCHANGED <<probed, emptied>>
      /\ probed \subseteq Objects /\ emptied \subseteq Objects
  BY DEF DatagramDisconnect, Quiet, SockInv, SockTypes
<1>1. object[o] \in Objs /\ h # NoFd /\ h \in DOMAIN kernel /\ kernel[h] \in Known /\ Agree(object[o], kernel[h], o \in probed, o \in emptied)
  BY <1>0, OpenObject
<1>2. object' = [object EXCEPT ![o] = r] /\ kernel' = [kernel EXCEPT ![h] = k] /\ DOMAIN kernel' = DOMAIN kernel
  BY DEF DatagramDisconnect, SetObject
<1>3. r \in Objs /\ r.handle = h /\ r.mode = object[o].mode /\ r.state = "Disconnected"
  BY <1>1 DEF Objs, ObjectStates
<1>4. k \in Known /\ k.link = "none" /\ k.nonblock = kernel[h].nonblock
  BY <1>1 DEF Known, Links
<1> HIDE DEF r, k
<1>5. Agree(r, k, o \in probed', o \in emptied')
  BY <1>0, <1>1, <1>3, <1>4 DEF Agree
<1> QED BY <1>0, <1>1, <1>2, <1>3, <1>4, <1>5, SameHandle

LEMMA ReadFromStep == ASSUME SockInv, UNCHANGED sockKind, NEW o \in Objects, ReadFrom(o) PROVE SockInv'
<1> DEFINE h == object[o].handle
           r == [object[o] EXCEPT !.state = "Disconnected"]
<1>0. /\ sockKind = "datagram" /\ object[o].state \in {"Connected", "Disconnected"} /\ probed' = probed /\ emptied' = emptied \cup {o}
      /\ probed \subseteq Objects /\ emptied \subseteq Objects /\ kernel' = kernel
  BY DEF ReadFrom, SockInv, SockTypes
<1>1. object[o] \in Objs /\ h # NoFd /\ h \in DOMAIN kernel /\ kernel[h] \in Known /\ Agree(object[o], kernel[h], o \in probed, o \in emptied)
  BY <1>0, OpenObject
<1>2. object' = [object EXCEPT ![o] = r]
  BY DEF ReadFrom, SetObject
<1>3. kernel' = [kernel EXCEPT ![h] = kernel[h]] /\ DOMAIN kernel' = DOMAIN kernel
  BY <1>0 DEF SockInv, SockTypes
<1>4. r \in Objs /\ r.handle = h /\ r.mode = object[o].mode /\ r.state = "Disconnected"
  BY <1>1 DEF Objs, ObjectStates
<1> HIDE DEF r
<1>5. Agree(r, kernel[h], o \in probed', o \in emptied')
  BY <1>0, <1>1, <1>4 DEF Agree
<1> QED BY <1>0, <1>1, <1>2, <1>3, <1>4, <1>5, SameHandle

LEMMA SockStep == SockInv /\ [SockNext]_sockVars => SockInv'
<1> SUFFICES ASSUME SockInv, [SockNext]_sockVars PROVE SockInv'
  OBVIOUS
<1>1. CASE UNCHANGED sockVars
  BY <1>1 DEF sockVars, SockInv, SockTypes, HandlesOpen, AllAgree, Agree
<1>2. CASE SockNext
  <2>0. UNCHANGED sockKind
    BY <1>2 DEF SockNext
  <2>1. ASSUME NEW o \in Objects,
               \/ SockOpen(o) \/ SockClose(o) \/ Accept(o) \/ ReadSome(o)
               \/ \E p \in Objects : MoveAssign(o, p)
               \/ \E mode \in {"Blocking", "NonBlocking"} : SetMode(o, mode)
               \/ \E link \in {"made", "progress", "failed"} : StreamConnect(o, link)
               \/ Connected(o) \/ StreamDisconnect(o)
               \/ \E fails \in BOOLEAN : DatagramConnect(o, fails)
               \/ DatagramDisconnect(o) \/ ReadFrom(o)
        PROVE  SockInv'
    BY <2>0, <2>1, SockOpenStep, SockCloseStep, AcceptStep, ReadSomeStep, MoveAssignStep, SetModeStep, StreamConnectStep,
       ConnectedStep, StreamDisconnectStep, DatagramConnectStep, DatagramDisconnectStep, ReadFromStep
  <2>2. ASSUME NEW fd \in DOMAIN kernel, KernelSteps(fd) PROVE SockInv'
    BY <2>0, <2>2, KernelStep
  <2>3. CASE OtherError
    BY <2>0, <2>3 DEF OtherError, SockInv, SockTypes, HandlesOpen, AllAgree, Agree
  <2> QED BY <1>2, <2>1, <2>2, <2>3 DEF SockNext, SockSteps, WaitConnected, WaitDisconnected
<1> QED BY <1>1, <1>2

LEMMA SockHolds == SockInv => SocketsTrue
<1> SUFFICES ASSUME SockInv PROVE HandlesOwned /\ ConnectedAfterWait /\ LingersToTheEnd /\ AssociationKnown
  BY DEF SocketsTrue
<1>0. SockTypes /\ HandlesOpen /\ AllAgree
  BY DEF SockInv
<1>1. HandlesOwned
  <2>1. DOMAIN kernel = {object[o].handle : o \in Objects} \ {NoFd}
    <3>1. ASSUME NEW fd \in DOMAIN kernel PROVE fd \in {object[o].handle : o \in Objects} \ {NoFd}
      <4>1. PICK o \in Objects : object[o].handle = fd
        BY <1>0 DEF HandlesOpen
      <4>2. fd # NoFd
        BY <1>0, NoFdIsNone DEF SockTypes
      <4> QED BY <4>1, <4>2
    <3>2. ASSUME NEW o \in Objects, object[o].handle # NoFd PROVE object[o].handle \in DOMAIN kernel
      BY <1>0, <3>2 DEF HandlesOpen
    <3> QED BY <3>1, <3>2
  <2>2. \A o \in Objects : object[o].handle # NoFd => (object[o].mode = "NonBlocking") = kernel[object[o].handle].nonblock
    BY <1>0 DEF AllAgree, Agree
  <2> QED BY <1>0, <2>1, <2>2 DEF HandlesOwned, HandlesOpen
<1>2. \A o \in Objects : object[o].state # "Closed" => Agree(object[o], kernel[object[o].handle], o \in probed, o \in emptied)
  BY <1>0 DEF AllAgree, HandlesOpen
<1>3. ConnectedAfterWait
  BY <1>2 DEF ConnectedAfterWait, Agree, Link
<1>4. LingersToTheEnd
  BY <1>2 DEF LingersToTheEnd, Agree, Link
<1>5. AssociationKnown
  BY <1>2 DEF AssociationKnown, Agree, Link
<1> QED BY <1>1, <1>3, <1>4, <1>5

(***************************************************************************)
(* For any number of objects and descriptors, through moves, failures and  *)
(* reuse: every open descriptor belongs to one object and none leaks, an   *)
(* object that says connected is, a stream that says disconnected has read *)
(* to the end, and a datagram socket knows its association, with the       *)
(* exceptions SocketsTrue names.                                           *)
(***************************************************************************)
THEOREM SocketsStayTrue == SockSpec => []SocketsTrue
<1>1. SockInit => SockInv
  BY SockInitInv
<1>2. SockInv /\ [SockNext]_sockVars => SockInv'
  BY SockStep
<1>3. SockInv => SocketsTrue
  BY SockHolds
<1> QED BY <1>1, <1>2, <1>3, PTL DEF SockSpec


-----------------------------------------------------------------------------
(***************************************************************************)
(* Socket streams.  What a connection carries is one row: on the way out   *)
(* what was written and what is still to be, on the way in what was read,  *)
(* what is in the area and what has arrived.  Filling an area, flushing it *)
(* in parts and reading move characters along the row and change nothing   *)
(* in it; a row ends with the last character made.                         *)
(***************************************************************************)
CharRecs == [c : Nat, on : Nat]
Texts == Seq(CharRecs)
Row(s, n) == (\A i \in 1..Len(s) : s[i].on = n) /\ Consecutive(s)
Ends(s, k) == Len(s) > 0 => s[Len(s)].c = k
Pending == IF flushing = NoFlush THEN putArea ELSE flushing.left \o flushing.then
Outgoing == wire \o Pending
Ingoing == (gotten \o getArea) \o arrived

StreamTypes ==
    /\ putArea \in Texts /\ getArea \in Texts /\ wire \in Texts /\ arrived \in Texts /\ gotten \in Texts
    /\ flushing \in [left : Texts, then : Texts] /\ conn \in [up : BOOLEAN, n : Nat]
    /\ counters \in [put : Nat, sent : Nat] /\ leftOver \in [put : BOOLEAN, get : BOOLEAN]
    /\ flushing # NoFlush => conn.up

PutInv == leftOver.put \/ (Row(wire, conn.n) /\ (conn.up => Row(Outgoing, conn.n) /\ Ends(Outgoing, counters.put)))
GetInv == leftOver.get \/ (Row(Ingoing, conn.n) /\ (conn.up => Ends(Ingoing, counters.sent)))
StreamInv == StreamTypes /\ PutInv /\ GetInv

LEMMA TextsJoin ==
  ASSUME NEW a \in Texts, NEW b \in Texts
  PROVE  /\ a \o b \in Texts /\ Len(a \o b) = Len(a) + Len(b) /\ Len(a) \in Nat /\ Len(b) \in Nat
         /\ \A i \in 1..Len(a) : (a \o b)[i] = a[i]
<1>1. Len(a) \in Nat /\ Len(b) \in Nat
  BY DEF Texts
<1>2. /\ a \o b \in Texts /\ Len(a \o b) = Len(a) + Len(b)
      /\ \A i \in 1..Len(a) + Len(b) : (a \o b)[i] = IF i <= Len(a) THEN a[i] ELSE b[i - Len(a)]
  BY ConcatProperties DEF Texts
<1> QED BY <1>1, <1>2

LEMMA RowPrefix == ASSUME NEW a \in Texts, NEW b \in Texts, NEW n, Row(a \o b, n) PROVE Row(a, n)
<1>1. /\ a \o b \in Texts /\ Len(a \o b) = Len(a) + Len(b) /\ Len(a) \in Nat /\ Len(b) \in Nat
      /\ \A i \in 1..Len(a) : (a \o b)[i] = a[i]
  BY TextsJoin
<1> QED BY <1>1 DEF Row, Consecutive

LEMMA RowEmpty == \A n, k : Row(<<>>, n) /\ Ends(<<>>, k)
<1>1. Len(<<>>) = 0 /\ 1..0 = {} /\ 1..(0 - 1) = {}
  OBVIOUS
<1> QED BY <1>1 DEF Row, Ends, Consecutive

LEMMA RowGrows ==
  ASSUME NEW s \in Texts, NEW n, NEW k \in Nat, NEW x \in CharRecs, x.c = k + 1, x.on = n, Row(s, n), Ends(s, k)
  PROVE  Row(Append(s, x), n) /\ Ends(Append(s, x), k + 1)
<1>1. /\ Len(s) \in Nat /\ Len(Append(s, x)) = Len(s) + 1 /\ \A i \in 1..Len(s) : Append(s, x)[i] = s[i]
      /\ Append(s, x)[Len(s) + 1] = x
  BY AppendProperties DEF Texts
<1>2. PICK m \in Nat : m = Len(s)
  BY <1>1
<1>3. \A i \in 1..(m + 1) : Append(s, x)[i].on = n
  BY <1>1, <1>2 DEF Row
<1>4. ASSUME NEW i \in 1..((m + 1) - 1) PROVE Append(s, x)[i + 1].c = Append(s, x)[i].c + 1
  <2>1. CASE i = m
    BY <1>1, <1>2, <2>1 DEF Ends
  <2>2. CASE i # m
    <3>1. i \in 1..(m - 1) /\ i \in 1..m /\ i + 1 \in 1..m
      BY <2>2
    <3> QED BY <1>1, <1>2, <3>1 DEF Row, Consecutive
  <2> QED BY <2>1, <2>2
<1> QED BY <1>1, <1>2, <1>3, <1>4 DEF Row, Ends, Consecutive

LEMMA JoinAppend == ASSUME NEW a \in Texts, NEW b \in Texts, NEW x \in CharRecs PROVE a \o Append(b, x) = Append(a \o b, x) /\ <<x>> \in Texts
<1>1. <<x>> \in Texts
  BY DEF Texts
<1>2. Append(b, x) = b \o <<x>> /\ Append(a \o b, x) = (a \o b) \o <<x>>
  BY TextsJoin, AppendIsConcat DEF Texts
<1>3. (a \o b) \o <<x>> = a \o (b \o <<x>>)
  BY <1>1, ConcatAssociative DEF Texts
<1> QED BY <1>1, <1>2, <1>3

LEMMA JoinAssoc == ASSUME NEW a \in Texts, NEW b \in Texts, NEW c \in Texts PROVE (a \o b) \o c = a \o (b \o c)
  BY ConcatAssociative DEF Texts

LEMMA JoinEmpty == ASSUME NEW a \in Texts PROVE a \o <<>> = a /\ <<>> \o a = a /\ <<>> \in Texts
  BY ConcatEmptySeq, EmptySeq DEF Texts

LEMMA Halves ==
  ASSUME NEW s \in Texts, NEW n \in 1..Len(s)
  PROVE  /\ SubSeq(s, 1, n) \in Texts /\ SubSeq(s, n + 1, Len(s)) \in Texts
         /\ SubSeq(s, 1, n) \o SubSeq(s, n + 1, Len(s)) = s
         /\ n # Len(s) => SubSeq(s, n + 1, Len(s)) # <<>>
<1>1. Len(s) \in Nat /\ n \in 1..Len(s) /\ \A i \in 1..Len(s) : s[i] \in CharRecs
  BY DEF Texts
<1>2. SubSeq(s, 1, n) \in Texts
  BY <1>1, SubSeqProperties DEF Texts
<1>3. SubSeq(s, n + 1, Len(s)) \in Texts /\ Len(SubSeq(s, n + 1, Len(s))) = IF n + 1 <= Len(s) THEN Len(s) - (n + 1) + 1 ELSE 0
  <2>1. \A i \in n + 1 .. Len(s) : s[i] \in CharRecs
    BY <1>1
  <2>2. n + 1 \in Int /\ Len(s) \in Int
    BY <1>1
  <2> QED BY <2>1, <2>2, SubSeqProperties DEF Texts
<1>4. SubSeq(s, 1, n) \o SubSeq(s, n + 1, Len(s)) = SubSeq(s, 1, Len(s))
  <2>1. 1 \in 1..Len(s) + 1 /\ n \in 1 - 1 .. Len(s) /\ Len(s) \in n .. Len(s)
    BY <1>1
  <2> QED BY <2>1, ConcatAdjacentSubSeq DEF Texts
<1>5. SubSeq(s, 1, Len(s)) = s
  BY SubSeqFull DEF Texts
<1>6. n # Len(s) => Len(SubSeq(s, n + 1, Len(s))) # 0
  BY <1>1, <1>3
<1> QED BY <1>2, <1>3, <1>4, <1>5, <1>6

LEMMA HeadFirst == ASSUME NEW s \in Texts, s # <<>> PROVE Head(s) \in CharRecs /\ Tail(s) \in Texts /\ <<Head(s)>> \o Tail(s) = s
<1>1. Len(s) \in Nat /\ Len(s) >= 1
  BY DEF Texts
<1>2. Head(s) \in CharRecs /\ Tail(s) \in Texts /\ Tail(s) = SubSeq(s, 2, Len(s))
  BY HeadTailProperties, TailIsSubSeq DEF Texts
<1>3. SubSeq(s, 1, Len(s)) = <<s[1]>> \o SubSeq(s, 1 + 1, Len(s)) /\ SubSeq(s, 1, Len(s)) = s
  BY <1>1, SubSeqRecursiveFirst, SubSeqFull DEF Texts
<1>4. Head(s) = s[1]
  BY DEF Texts
<1> QED BY <1>2, <1>3, <1>4

-----------------------------------------------------------------------------
LEMMA StreamInitInv == StreamInit => StreamInv
<1> SUFFICES ASSUME StreamInit PROVE StreamInv
  OBVIOUS
<1>1. <<>> \in Texts
  BY EmptySeq DEF Texts
<1>2. <<>> \o <<>> = <<>>
  BY <1>1, JoinEmpty
<1>3. Outgoing = <<>> /\ Ingoing = <<>>
  BY <1>2 DEF StreamInit, Outgoing, Ingoing, Pending
<1>4. StreamTypes
  BY <1>1 DEF StreamInit, StreamTypes, NoFlush
<1>5. PutInv /\ GetInv
  BY <1>3, RowEmpty DEF StreamInit, PutInv, GetInv
<1> QED BY <1>4, <1>5 DEF StreamInv

LEMMA PendingTyped == StreamTypes => Pending \in Texts /\ Outgoing \in Texts /\ Ingoing \in Texts
<1> SUFFICES ASSUME StreamTypes PROVE Pending \in Texts /\ Outgoing \in Texts /\ Ingoing \in Texts
  OBVIOUS
<1>1. flushing.left \in Texts /\ flushing.then \in Texts
  BY DEF StreamTypes
<1>2. flushing.left \o flushing.then \in Texts /\ gotten \o getArea \in Texts
  BY <1>1, TextsJoin DEF StreamTypes
<1>3. Pending \in Texts
  BY <1>2 DEF Pending, StreamTypes
<1>4. wire \o Pending \in Texts /\ (gotten \o getArea) \o arrived \in Texts
  BY <1>2, <1>3, TextsJoin DEF StreamTypes
<1> QED BY <1>3, <1>4 DEF Outgoing, Ingoing

(* A step of one direction leaves the row of the other alone. *)
LEMMA PutKept ==
  ASSUME PutInv, UNCHANGED <<wire, conn>>, Outgoing' = Outgoing, counters'.put = counters.put, leftOver'.put = leftOver.put
  PROVE  PutInv'
  BY DEF PutInv
LEMMA GetKept ==
  ASSUME GetInv, UNCHANGED conn, Ingoing' = Ingoing, counters'.sent = counters.sent, leftOver'.get = leftOver.get
  PROVE  GetInv'
  BY DEF GetInv

LEMMA StreamConnectsStep == ASSUME StreamInv, StreamConnects PROVE StreamInv'
<1>0. /\ StreamTypes /\ flushing = NoFlush /\ conn' = [up |-> TRUE, n |-> conn.n + 1] /\ wire' = <<>> /\ arrived' = <<>> /\ gotten' = <<>>
      /\ leftOver' = [put |-> putArea # <<>>, get |-> getArea # <<>>] /\ UNCHANGED <<putArea, getArea, flushing, counters>>
      /\ <<>> \in Texts /\ conn.n \in Nat
  BY EmptySeq DEF StreamInv, StreamConnects, StreamTypes, Texts
<1>1. StreamTypes'
  BY <1>0 DEF StreamTypes
<1>2. PutInv'
  <2>1. CASE putArea # <<>>
    BY <1>0, <2>1 DEF PutInv
  <2>2. CASE putArea = <<>>
    <3>1. Outgoing' = <<>>
      BY <1>0, <2>2, JoinEmpty DEF Outgoing, Pending
    <3> QED BY <1>0, <3>1, RowEmpty DEF PutInv
  <2> QED BY <2>1, <2>2
<1>3. GetInv'
  <2>1. CASE getArea # <<>>
    BY <1>0, <2>1 DEF GetInv
  <2>2. CASE getArea = <<>>
    <3>1. Ingoing' = <<>>
      BY <1>0, <2>2, JoinEmpty DEF Ingoing
    <3> QED BY <1>0, <3>1, RowEmpty DEF GetInv
  <2> QED BY <2>1, <2>2
<1> QED BY <1>1, <1>2, <1>3 DEF StreamInv

(* The connection is over: what had arrived is gone, what was written stays written. *)
LEMMA StreamEndsStep == ASSUME StreamInv, StreamCloses \/ WriteFails PROVE StreamInv'
<1>0. /\ StreamTypes /\ PutInv /\ GetInv /\ flushing' = NoFlush /\ conn' = [conn EXCEPT !.up = FALSE] /\ arrived' = <<>>
      /\ UNCHANGED <<putArea, getArea, wire, gotten, counters, leftOver>> /\ <<>> \in Texts
  BY EmptySeq DEF StreamInv, StreamCloses, WriteFails, Texts
<1>1. conn'.n = conn.n /\ conn'.up = FALSE /\ conn' \in [up : BOOLEAN, n : Nat]
  BY <1>0 DEF StreamTypes
<1>2. StreamTypes'
  BY <1>0, <1>1 DEF StreamTypes, NoFlush
<1>3. PutInv'
  BY <1>0, <1>1 DEF PutInv
<1>4. GetInv'
  <2>1. gotten \o getArea \in Texts /\ Ingoing' = gotten \o getArea
    <3>1. gotten \o getArea \in Texts
      BY <1>0, TextsJoin DEF StreamTypes
    <3>2. Ingoing' = (gotten \o getArea) \o <<>>
      BY <1>0 DEF Ingoing
    <3> QED BY <3>1, <3>2, JoinEmpty
  <2>2. Row(Ingoing, conn.n) => Row(gotten \o getArea, conn.n)
    BY <1>0, <2>1, RowPrefix DEF Ingoing, StreamTypes
  <2> QED BY <1>0, <1>1, <2>1, <2>2 DEF GetInv
<1> QED BY <1>2, <1>3, <1>4 DEF StreamInv

LEMMA StreamPutcStep == ASSUME StreamInv, StreamPutc PROVE StreamInv'
<1>0. /\ StreamTypes /\ PutInv /\ GetInv /\ flushing = NoFlush /\ conn.up /\ counters' = [counters EXCEPT !.put = counters.put + 1]
      /\ UNCHANGED <<getArea, conn, wire, arrived, gotten, leftOver>>
  BY DEF StreamInv, StreamPutc
<1>1. PICK k \in Nat : k = counters.put
  BY <1>0 DEF StreamTypes
<1>2. PICK x \in CharRecs : x = Chars(k + 1) /\ x.c = k + 1 /\ x.on = conn.n
  <2>1. PICK n \in Nat : n = conn.n
    BY <1>0 DEF StreamTypes
  <2>2. PICK j \in Nat : j = k + 1
    BY <1>1
  <2>3. Chars(k + 1) = [c |-> j, on |-> n]
    BY <2>1, <2>2 DEF Chars
  <2> QED BY <2>1, <2>2, <2>3 DEF CharRecs
<1>3. counters' \in [put : Nat, sent : Nat] /\ counters'.put = k + 1 /\ counters'.sent = counters.sent
  BY <1>0, <1>1 DEF StreamTypes
<1>4. \/ putArea' = Append(putArea, x) /\ UNCHANGED flushing
      \/ flushing' = [left |-> putArea, then |-> <<x>>] /\ UNCHANGED putArea
  BY <1>1, <1>2 DEF StreamPutc
<1>5. <<x>> \in Texts /\ Append(putArea, x) \in Texts /\ Append(putArea, x) = putArea \o <<x>>
  BY <1>0, AppendIsConcat, AppendProperties DEF StreamTypes, Texts
<1>6. Pending' = Append(Pending, x) /\ StreamTypes'
  <2>0. Pending = putArea
    BY <1>0 DEF Pending
  <2>1. CASE putArea' = Append(putArea, x) /\ UNCHANGED flushing
    BY <1>0, <1>3, <1>5, <2>0, <2>1 DEF Pending, StreamTypes
  <2>2. CASE flushing' = [left |-> putArea, then |-> <<x>>] /\ UNCHANGED putArea
    <3>1. flushing' # NoFlush /\ flushing'.left = putArea /\ flushing'.then = <<x>>
      <4>1. NoFlush.then = <<>> /\ <<x>> # <<>>
        BY DEF NoFlush
      <4> QED BY <2>2, <4>1
    <3>2. Pending' = Append(Pending, x)
      BY <1>5, <2>0, <3>1 DEF Pending
    <3>3. flushing' \in [left : Texts, then : Texts]
      BY <1>0, <1>5, <2>2 DEF StreamTypes
    <3> QED BY <1>0, <1>3, <2>2, <3>2, <3>3 DEF StreamTypes
  <2> QED BY <1>4, <2>1, <2>2
<1>7. Outgoing' = Append(Outgoing, x) /\ Outgoing \in Texts
  <2>1. Pending \in Texts /\ Outgoing \in Texts
    BY <1>0, PendingTyped
  <2>2. Outgoing' = wire \o Append(Pending, x)
    BY <1>0, <1>6 DEF Outgoing
  <2> QED BY <1>0, <2>1, <2>2, JoinAppend DEF Outgoing, StreamTypes
<1>8. PutInv'
  <2>1. CASE leftOver.put
    BY <1>0, <2>1 DEF PutInv
  <2>2. CASE ~leftOver.put
    <3>1. Row(wire, conn.n) /\ Row(Outgoing, conn.n) /\ Ends(Outgoing, k)
      BY <1>0, <1>1, <2>2 DEF PutInv
    <3>2. Row(Append(Outgoing, x), conn.n) /\ Ends(Append(Outgoing, x), k + 1)
      BY <1>2, <1>7, <3>1, RowGrows
    <3> QED BY <1>0, <1>3, <1>7, <3>1, <3>2 DEF PutInv
  <2> QED BY <2>1, <2>2
<1>9. GetInv'
  BY <1>0, <1>3, GetKept DEF Ingoing
<1> QED BY <1>6, <1>8, <1>9 DEF StreamInv

LEMMA StreamFlushStep == ASSUME StreamInv, StreamFlush PROVE StreamInv'
<1>0. /\ StreamTypes /\ PutInv /\ GetInv /\ flushing = NoFlush /\ conn.up /\ putArea # <<>> /\ flushing' = [left |-> putArea, then |-> <<>>]
      /\ UNCHANGED <<putArea, getArea, conn, wire, arrived, gotten, counters, leftOver>> /\ <<>> \in Texts
  BY EmptySeq DEF StreamInv, StreamFlush, Texts
<1>1. flushing' # NoFlush /\ flushing'.left = putArea /\ flushing'.then = <<>> /\ flushing' \in [left : Texts, then : Texts]
  <2>1. NoFlush.left = <<>>
    BY DEF NoFlush
  <2> QED BY <1>0, <2>1 DEF StreamTypes
<1>2. StreamTypes'
  BY <1>0, <1>1 DEF StreamTypes
<1>3. Outgoing' = Outgoing
  <2>1. putArea \o <<>> = putArea
    BY <1>0, JoinEmpty DEF StreamTypes
  <2> QED BY <1>0, <1>1, <2>1 DEF Outgoing, Pending
<1>4. PutInv'
  BY <1>0, <1>3, PutKept
<1>5. GetInv'
  BY <1>0, GetKept DEF Ingoing
<1> QED BY <1>2, <1>4, <1>5 DEF StreamInv

LEMMA WriteExactlyStep == ASSUME StreamInv, WriteExactly PROVE StreamInv'
<1>0. /\ StreamTypes /\ PutInv /\ GetInv /\ flushing # NoFlush /\ UNCHANGED <<getArea, conn, arrived, gotten, counters, leftOver>>
      /\ conn.up /\ flushing \in [left : Texts, then : Texts] /\ wire \in Texts
  BY DEF StreamInv, WriteExactly, StreamTypes
<1>1. PICK left \in Texts, then \in Texts : left = flushing.left /\ then = flushing.then
  BY <1>0
<1>2. PICK n \in 1..Len(left) :
        /\ wire' = wire \o SubSeq(left, 1, n)
        /\ IF n = Len(left) THEN flushing' = NoFlush /\ putArea' = then
           ELSE flushing' = [flushing EXCEPT !.left = SubSeq(left, n + 1, Len(left))] /\ UNCHANGED putArea
  BY <1>1 DEF WriteExactly
<1>3. PICK a \in Texts, b \in Texts : a = SubSeq(left, 1, n) /\ b = SubSeq(left, n + 1, Len(left)) /\ a \o b = left /\ (n # Len(left) => b # <<>>)
  <2>1. /\ SubSeq(left, 1, n) \in Texts /\ SubSeq(left, n + 1, Len(left)) \in Texts
        /\ SubSeq(left, 1, n) \o SubSeq(left, n + 1, Len(left)) = left
        /\ n # Len(left) => SubSeq(left, n + 1, Len(left)) # <<>>
    BY <1>1, <1>2, Halves
  <2> QED BY <2>1, Zenon
<1>4. Pending = left \o then
  BY <1>0, <1>1 DEF Pending
<1>5. /\ wire' = wire \o a /\ wire' \in Texts
      /\ StreamTypes' /\ Outgoing' = Outgoing /\ Pending' \in Texts
  <2>1. wire' = wire \o a /\ wire' \in Texts
    BY <1>0, <1>2, <1>3, TextsJoin
  <2>2. CASE n = Len(left)
    <3>1. flushing' = NoFlush /\ putArea' = then /\ a = left
      BY <1>1, <1>2, <1>3, <2>2, SubSeqFull DEF Texts
    <3>2. StreamTypes'
      BY <1>0, <1>1, <2>1, <3>1, EmptySeq DEF StreamTypes, NoFlush, Texts
    <3>3. Outgoing' = (wire \o left) \o then
      BY <2>1, <3>1 DEF Outgoing, Pending
    <3>4. Outgoing' = wire \o (left \o then)
      <4>1. PICK w \in Texts : w = wire
        BY <1>0
      <4>2. (w \o left) \o then = w \o (left \o then)
        BY JoinAssoc
      <4> QED BY <3>3, <4>1, <4>2
    <3>5. Pending' \in Texts
      BY <1>1, <3>1 DEF Pending
    <3> QED BY <1>4, <2>1, <3>2, <3>4, <3>5 DEF Outgoing
  <2>3. CASE n # Len(left)
    <3>1. flushing' = [flushing EXCEPT !.left = b] /\ putArea' = putArea /\ b # <<>>
      BY <1>2, <1>3, <2>3
    <3>2. flushing'.left = b /\ flushing'.then = then /\ flushing' \in [left : Texts, then : Texts]
      BY <1>0, <1>1, <1>3, <3>1
    <3>3. flushing' # NoFlush
      <4>1. NoFlush.left = <<>>
        BY DEF NoFlush
      <4> QED BY <3>1, <3>2, <4>1
    <3>4. StreamTypes'
      BY <1>0, <2>1, <3>1, <3>2 DEF StreamTypes
    <3>5. Outgoing' = (wire \o a) \o (b \o then)
      BY <2>1, <3>2, <3>3 DEF Outgoing, Pending
    <3>6. (wire \o a) \o (b \o then) = wire \o (a \o (b \o then)) /\ a \o (b \o then) = (a \o b) \o then
      <4>1. PICK w \in Texts, c \in Texts : w = wire /\ c = b \o then
        BY <1>0, TextsJoin
      <4>2. (w \o a) \o c = w \o (a \o c)
        BY JoinAssoc
      <4>3. (a \o b) \o then = a \o (b \o then)
        BY JoinAssoc
      <4> QED BY <4>1, <4>2, <4>3
    <3>7. Pending' \in Texts
      BY <1>1, <1>3, <3>2, <3>3, TextsJoin DEF Pending
    <3> QED BY <1>3, <1>4, <2>1, <3>4, <3>5, <3>6, <3>7 DEF Outgoing
  <2> QED BY <2>2, <2>3
<1>6. PutInv'
  <2>1. CASE leftOver.put
    BY <1>0, <2>1 DEF PutInv
  <2>2. CASE ~leftOver.put
    <3>1. Row(Outgoing, conn.n) /\ Ends(Outgoing, counters.put)
      BY <1>0, <2>2 DEF PutInv
    <3>2. Pending' \in Texts
      BY <1>5
    <3>3. Outgoing' = wire' \o Pending'
      BY DEF Outgoing
    <3>4. Row(wire', conn.n)
      BY <1>5, <3>1, <3>2, <3>3, RowPrefix
    <3> QED BY <1>0, <1>5, <3>1, <3>4 DEF PutInv
  <2> QED BY <2>1, <2>2
<1>7. GetInv'
  BY <1>0, GetKept DEF Ingoing
<1> QED BY <1>5, <1>6, <1>7 DEF StreamInv

LEMMA PeerWritesStep == ASSUME StreamInv, PeerWrites PROVE StreamInv'
<1>0. /\ StreamTypes /\ PutInv /\ GetInv /\ conn.up /\ counters' = [counters EXCEPT !.sent = counters.sent + 1]
      /\ arrived' = Append(arrived, Chars(counters.sent + 1))
      /\ UNCHANGED <<putArea, getArea, flushing, conn, wire, gotten, leftOver>>
  BY DEF StreamInv, PeerWrites
<1>1. PICK k \in Nat : k = counters.sent
  BY <1>0 DEF StreamTypes
<1>2. PICK x \in CharRecs : x = Chars(k + 1) /\ x.c = k + 1 /\ x.on = conn.n
  <2>1. PICK n \in Nat : n = conn.n
    BY <1>0 DEF StreamTypes
  <2>2. PICK j \in Nat : j = k + 1
    BY <1>1
  <2>3. Chars(k + 1) = [c |-> j, on |-> n]
    BY <2>1, <2>2 DEF Chars
  <2> QED BY <2>1, <2>2, <2>3 DEF CharRecs
<1>3. counters' \in [put : Nat, sent : Nat] /\ counters'.sent = k + 1 /\ counters'.put = counters.put
  BY <1>0, <1>1 DEF StreamTypes
<1>4. arrived' = Append(arrived, x) /\ arrived' \in Texts
  BY <1>0, <1>1, <1>2, AppendProperties DEF StreamTypes, Texts
<1>5. StreamTypes'
  BY <1>0, <1>3, <1>4 DEF StreamTypes
<1>6. Ingoing' = Append(Ingoing, x) /\ Ingoing \in Texts
  <2>1. gotten \o getArea \in Texts /\ Ingoing \in Texts
    BY <1>0, TextsJoin, PendingTyped DEF StreamTypes
  <2>2. Ingoing' = (gotten \o getArea) \o Append(arrived, x)
    BY <1>0, <1>4 DEF Ingoing
  <2> QED BY <1>0, <2>1, <2>2, JoinAppend DEF Ingoing, StreamTypes
<1>7. GetInv'
  <2>1. CASE leftOver.get
    BY <1>0, <2>1 DEF GetInv
  <2>2. CASE ~leftOver.get
    <3>1. Row(Ingoing, conn.n) /\ Ends(Ingoing, k)
      BY <1>0, <1>1, <2>2 DEF GetInv
    <3>2. Row(Append(Ingoing, x), conn.n) /\ Ends(Append(Ingoing, x), k + 1)
      BY <1>2, <1>6, <3>1, RowGrows
    <3> QED BY <1>0, <1>3, <1>6, <3>2 DEF GetInv
  <2> QED BY <2>1, <2>2
<1>8. PutInv'
  BY <1>0, <1>3, PutKept DEF Outgoing, Pending
<1> QED BY <1>5, <1>7, <1>8 DEF StreamInv

LEMMA UnderflowStep == ASSUME StreamInv, Underflow PROVE StreamInv'
<1>0. /\ StreamTypes /\ PutInv /\ GetInv /\ getArea = <<>> /\ UNCHANGED <<putArea, flushing, conn, wire, gotten, counters, leftOver>>
      /\ arrived \in Texts /\ gotten \in Texts /\ Len(arrived) \in Nat
  BY DEF StreamInv, Underflow, StreamTypes, Texts
<1>1. PICK n \in 1..Len(arrived) : getArea' = SubSeq(arrived, 1, n) /\ arrived' = SubSeq(arrived, n + 1, Len(arrived))
  BY <1>0, AreaAssumption DEF Underflow
<1>2. getArea' \in Texts /\ arrived' \in Texts /\ getArea' \o arrived' = arrived
  BY <1>0, <1>1, Halves
<1>3. StreamTypes'
  BY <1>0, <1>2 DEF StreamTypes
<1>4. Ingoing' = Ingoing
  <2>1. Ingoing' = (gotten \o getArea') \o arrived'
    BY <1>0 DEF Ingoing
  <2>2. Ingoing' = gotten \o arrived
    <3>1. PICK g \in Texts, x \in Texts, y \in Texts : g = gotten /\ x = getArea' /\ y = arrived'
      BY <1>0, <1>2
    <3>2. (g \o x) \o y = g \o (x \o y)
      BY JoinAssoc
    <3> QED BY <1>2, <2>1, <3>1, <3>2
  <2>3. gotten \o getArea = gotten
    BY <1>0, JoinEmpty
  <2> QED BY <2>2, <2>3 DEF Ingoing
<1>5. GetInv'
  BY <1>0, <1>4, GetKept
<1>6. PutInv'
  BY <1>0, PutKept DEF Outgoing, Pending
<1> QED BY <1>3, <1>5, <1>6 DEF StreamInv

LEMMA StreamGetcStep == ASSUME StreamInv, StreamGetc PROVE StreamInv'
<1>0. /\ StreamTypes /\ PutInv /\ GetInv /\ getArea # <<>> /\ gotten' = Append(gotten, Head(getArea)) /\ getArea' = Tail(getArea)
      /\ UNCHANGED <<putArea, flushing, conn, wire, arrived, counters, leftOver>> /\ getArea \in Texts /\ gotten \in Texts
  BY DEF StreamInv, StreamGetc, StreamTypes
<1>1. PICK x \in CharRecs, t \in Texts : x = Head(getArea) /\ t = Tail(getArea) /\ <<x>> \o t = getArea
  BY <1>0, HeadFirst
<1>2. gotten' = gotten \o <<x>> /\ gotten' \in Texts /\ <<x>> \in Texts
  BY <1>0, <1>1, AppendIsConcat, AppendProperties DEF Texts
<1>3. StreamTypes'
  BY <1>0, <1>1, <1>2 DEF StreamTypes
<1>4. Ingoing' = Ingoing
  <2>1. gotten' \o getArea' = gotten \o getArea
    <3>1. PICK g \in Texts, e \in Texts : g = gotten /\ e = <<x>>
      BY <1>0, <1>2
    <3>2. (g \o e) \o t = g \o (e \o t)
      BY JoinAssoc
    <3> QED BY <1>0, <1>1, <1>2, <3>1, <3>2
  <2> QED BY <1>0, <2>1 DEF Ingoing
<1>5. GetInv'
  BY <1>0, <1>4, GetKept
<1>6. PutInv'
  BY <1>0, PutKept DEF Outgoing, Pending
<1> QED BY <1>3, <1>5, <1>6 DEF StreamInv

LEMMA StreamStep == StreamInv /\ [StreamNext]_streamVars => StreamInv'
<1> SUFFICES ASSUME StreamInv, [StreamNext]_streamVars PROVE StreamInv'
  OBVIOUS
<1>1. CASE UNCHANGED streamVars
  BY <1>1 DEF StreamInv, StreamTypes, PutInv, GetInv, Outgoing, Ingoing, Pending, streamVars
<1>2. CASE StreamNext
  BY <1>2, StreamConnectsStep, StreamEndsStep, StreamPutcStep, StreamFlushStep, WriteExactlyStep, PeerWritesStep, UnderflowStep,
     StreamGetcStep DEF StreamNext
<1> QED BY <1>1, <1>2

LEMMA StreamHolds == StreamInv => WrittenAsPut /\ ReadAsSent
<1> SUFFICES ASSUME StreamInv PROVE WrittenAsPut /\ ReadAsSent
  OBVIOUS
<1>0. StreamTypes /\ PutInv /\ GetInv /\ \A s \in Texts : DOMAIN s = 1..Len(s)
  BY DEF StreamInv, Texts
<1>1. WrittenAsPut
  <2>1. wire \in Texts
    BY <1>0 DEF StreamTypes
  <2>2. CASE leftOver.put
    BY <2>2 DEF WrittenAsPut
  <2>3. CASE ~leftOver.put
    <3>1. Own(wire) /\ Consecutive(wire)
      BY <1>0, <2>1, <2>3 DEF PutInv, Row, Own
    <3>2. conn.up => Consecutive(Outgoing)
      BY <1>0, <2>3 DEF PutInv, Row
    <3> QED BY <3>1, <3>2 DEF WrittenAsPut, Outgoing, Pending
  <2> QED BY <2>2, <2>3
<1>2. ReadAsSent
  <2>1. gotten \in Texts /\ getArea \in Texts /\ arrived \in Texts /\ gotten \o getArea \in Texts
    BY <1>0, TextsJoin DEF StreamTypes
  <2>2. CASE leftOver.get
    BY <2>2 DEF ReadAsSent
  <2>3. CASE ~leftOver.get
    <3>1. Row(Ingoing, conn.n)
      BY <1>0, <2>3 DEF GetInv
    <3>2. Row(gotten \o getArea, conn.n)
      BY <2>1, <3>1, RowPrefix DEF Ingoing
    <3>3. Row(gotten, conn.n)
      BY <2>1, <3>2, RowPrefix
    <3>4. Own(gotten) /\ Consecutive(gotten) /\ Consecutive(Ingoing)
      BY <1>0, <2>1, <3>1, <3>3 DEF Row, Own
    <3> QED BY <3>4 DEF ReadAsSent, Ingoing
  <2> QED BY <2>2, <2>3
<1> QED BY <1>1, <1>2

(***************************************************************************)
(* For areas of any size, however the socket divides what it takes and     *)
(* gives, and wherever it fails: what BasicSocketStreambuf writes on a     *)
(* connection is what was put since it was made, and what is read is what  *)
(* the peer sent on it, each character once and in order, unless an area   *)
(* kept characters of the connection before.                               *)
(***************************************************************************)
THEOREM StreamsInOrder == StreamSpec => [](WrittenAsPut /\ ReadAsSent)
<1>1. StreamSpec => []StreamInv
  BY StreamInitInv, StreamStep, PTL DEF StreamSpec
<1> QED BY <1>1, StreamHolds, PTL
-----------------------------------------------------------------------------
(***************************************************************************)
(* The HTTP server.  HttpInv has three parts that hardly touch: who serves *)
(* whom and how many requests are left to it, the tokens against the       *)
(* workers that still run, and the mapping against what is being sent.     *)
(***************************************************************************)
WorkerRecs == [at : {"none", "lock", "select", "read", "answer", "get", "send", "end"}, conn : Conns \cup {NoConn}, max : Int,
               failed : BOOLEAN, ask : Asks \cup {NoAsk}, seen : Nat, map : {"none", "held", "lost"}]
ClientRecs == [at : {"new", "queued", "taken", "left", "ended"}, ask : Asks \cup {NoAsk}, served : Nat, said : BOOLEAN]
Histories == [stray : BOOLEAN, closes : Nat, asked : Nat, unfit : SUBSET Conns, dropped : SUBSET Conns, changed : BOOLEAN]

HttpTypes ==
    /\ listening \in {"down", "up", "closing"} /\ tokens \in Nat
    /\ worker \in [HttpWorkers -> WorkerRecs] /\ client \in [Conns -> ClientRecs]
    /\ file \in Nat /\ mapped \in Nat /\ httpHistory \in Histories

(* Worker x and the client y it serves: what is left of _max counts the answers that were given. *)
Serves(x, y, unfit) ==
    /\ y.at \in {"taken", "left"} /\ x.at \in {"read", "answer", "get", "send", "end"}
    /\ \/ y.said
       \/ x.at = "read" /\ x.max = KeepMax - y.served /\ x.max >= 1
       \/ x.at \in {"answer", "get", "send"} /\ x.max = KeepMax - y.served + 1 /\ x.max >= 1
       \/ x.at = "end" /\ y.served = KeepMax
    /\ (x.failed /\ y.at = "taken") => unfit

(* A client: it had no more than its share, and was dropped for a reason. *)
ClientOk(y, unfit, dropped) ==
    /\ y.said \/ y.served <= KeepMax
    /\ y.at \in {"new", "queued"} => y.served = 0 /\ ~y.said
    /\ dropped => y.at = "ended" /\ (unfit \/ y.said \/ y.served = KeepMax)

ServingInv ==
    /\ \A w \in HttpWorkers : IF worker[w].conn = NoConn THEN worker[w].at \in {"none", "lock", "select", "read"}
                              ELSE Serves(worker[w], client[worker[w].conn], worker[w].conn \in httpHistory.unfit)
    /\ \A v, w \in HttpWorkers : (v # w /\ worker[v].conn = worker[w].conn) => worker[v].conn = NoConn
    /\ \A c \in Conns : ClientOk(client[c], c \in httpHistory.unfit, c \in httpHistory.dropped)

(* The workers that run. *)
Alive == {w \in HttpWorkers : worker[w].at # "none"}

TokensInv ==
    /\ listening = "down" => Alive = {}
    /\ \/ httpHistory.stray
       \/ /\ tokens = IF listening = "closing" THEN Cardinality(Alive) ELSE 0
          /\ listening = "up" => Alive = HttpWorkers

(* While nothing changed under a worker, all have seen the same file, and it is the one mapped. *)
MapsInv ==
    \A w \in HttpWorkers :
        /\ worker[w].map # "none" => worker[w].at = "send"
        /\ worker[w].map = "lost" => httpHistory.changed
        /\ ~httpHistory.changed => /\ worker[w].at \in {"get", "send"} => worker[w].seen = file
                                   /\ worker[w].map = "held" => mapped = file

HttpInv == HttpTypes /\ ServingInv /\ TokensInv /\ MapsInv

LEMMA GoneTyped ==
  /\ Gone \in WorkerRecs /\ Gone.at = "none" /\ Gone.conn = NoConn /\ Gone.map = "none"
  /\ Newborn \in WorkerRecs /\ Newborn.at = "lock" /\ Newborn.conn = NoConn /\ Newborn.map = "none"
<1>1. Gone \in WorkerRecs /\ Gone.at = "none" /\ Gone.conn = NoConn /\ Gone.map = "none"
  BY DEF Gone, WorkerRecs
<1>2. Newborn \in WorkerRecs /\ Newborn.at = "lock" /\ Newborn.conn = Gone.conn /\ Newborn.map = Gone.map
  BY <1>1 DEF Newborn, WorkerRecs
<1> QED BY <1>1, <1>2

LEMMA HttpInitInv == HttpInit => HttpInv
<1> SUFFICES ASSUME HttpInit PROVE HttpInv
  OBVIOUS
<1>1. \A w \in HttpWorkers : worker[w] = Gone
  BY DEF HttpInit
<1>2. \A c \in Conns : client[c].at = "new" /\ client[c].served = 0 /\ client[c].said = FALSE
  BY DEF HttpInit
<1>3. HttpTypes
  <2>1. worker \in [HttpWorkers -> WorkerRecs]
    BY GoneTyped DEF HttpInit
  <2>2. client \in [Conns -> ClientRecs]
    BY DEF HttpInit, ClientRecs
  <2>3. httpHistory \in Histories
    BY DEF HttpInit, Histories
  <2> QED BY <2>1, <2>2, <2>3 DEF HttpInit, HttpTypes
<1>4. httpHistory.unfit = {} /\ httpHistory.dropped = {}
  BY DEF HttpInit
<1>5. ServingInv
  <2>1. \A c \in Conns : ClientOk(client[c], FALSE, FALSE)
    BY <1>2, HttpAssumption DEF ClientOk
  <2> QED BY <1>1, <1>4, <2>1, GoneTyped DEF ServingInv, ClientOk
<1>6. Alive = {}
  BY <1>1, GoneTyped DEF Alive
<1>7. TokensInv
  BY <1>6 DEF TokensInv, HttpInit
<1>8. MapsInv
  BY <1>1, GoneTyped DEF MapsInv
<1> QED BY <1>3, <1>5, <1>7, <1>8 DEF HttpInv

-----------------------------------------------------------------------------
(* Tokens: nobody begins or ends. *)
LEMMA TokensKept ==
  ASSUME TokensInv, UNCHANGED <<listening, tokens>>, httpHistory'.stray = httpHistory.stray, Alive' = Alive
  PROVE  TokensInv'
  BY DEF TokensInv

LEMMA AliveKept ==
  ASSUME HttpTypes, NEW w \in HttpWorkers, NEW x, worker' = [worker EXCEPT ![w] = x], (x.at = "none") <=> (worker[w].at = "none")
  PROVE  Alive' = Alive
  BY DEF HttpTypes, Alive

(* The mapping: a worker that is not at the file, before or after. *)
LEMMA MapsKept ==
  ASSUME HttpTypes, MapsInv, UNCHANGED <<file, mapped>>, httpHistory'.changed = httpHistory.changed,
         NEW w \in HttpWorkers, NEW x, worker' = [worker EXCEPT ![w] = x], x.at \notin {"get", "send"}, x.map = "none"
  PROVE  MapsInv'
<1>1. worker'[w] = x /\ \A v \in HttpWorkers \ {w} : worker'[v] = worker[v]
  BY DEF HttpTypes
<1> QED BY <1>1 DEF MapsInv

LEMMA MapsSame ==
  ASSUME MapsInv, UNCHANGED <<file, mapped, worker>>, httpHistory'.changed = httpHistory.changed
  PROVE  MapsInv'
  BY DEF MapsInv

LEMMA NoMapOutside == ASSUME HttpTypes, MapsInv, NEW w \in HttpWorkers, worker[w].at # "send" PROVE worker[w].map = "none"
  BY DEF MapsInv

-----------------------------------------------------------------------------
(* A client changes alone. *)
LEMMA ClientMoves ==
  ASSUME HttpTypes, ServingInv, UNCHANGED worker, httpHistory'.unfit = httpHistory.unfit, httpHistory'.dropped = httpHistory.dropped,
         NEW c \in Conns, NEW y \in ClientRecs, client' = [client EXCEPT ![c] = y],
         y.served = client[c].served, y.said = client[c].said,
         client[c].at # "ended", (y.at = client[c].at) \/ (client[c].at = "new" /\ y.at = "queued") \/ (client[c].at = "taken" /\ y.at = "left")
  PROVE  ServingInv'
<1>1. client'[c] = y /\ \A d \in Conns \ {c} : client'[d] = client[d]
  BY DEF HttpTypes
<1>2. ClientOk(y, c \in httpHistory'.unfit, c \in httpHistory'.dropped)
  BY DEF ServingInv, ClientOk
<1>3. ASSUME NEW w \in HttpWorkers, worker[w].conn # NoConn
      PROVE  Serves(worker[w], client'[worker[w].conn], worker[w].conn \in httpHistory'.unfit)
  <2>1. Serves(worker[w], client[worker[w].conn], worker[w].conn \in httpHistory.unfit) /\ worker[w].conn \in Conns
    BY <1>3 DEF ServingInv, HttpTypes, WorkerRecs
  <2>2. CASE worker[w].conn = c
    BY <1>1, <2>1, <2>2 DEF Serves
  <2>3. CASE worker[w].conn # c
    BY <1>1, <2>1, <2>3
  <2> QED BY <2>2, <2>3
<1>4. \A d \in Conns : ClientOk(client'[d], d \in httpHistory'.unfit, d \in httpHistory'.dropped)
  BY <1>1, <1>2 DEF ServingInv
<1> QED BY <1>3, <1>4 DEF ServingInv, Serves, ClientOk

(* A worker goes on with the connection it has. *)
LEMMA WorkerServes ==
  ASSUME HttpTypes, ServingInv, httpHistory'.unfit = httpHistory.unfit, httpHistory'.dropped = httpHistory.dropped,
         NEW w \in HttpWorkers, NEW x \in WorkerRecs, NEW y \in ClientRecs, worker[w].conn # NoConn, x.conn = worker[w].conn,
         worker' = [worker EXCEPT ![w] = x], client' = [client EXCEPT ![x.conn] = y],
         Serves(x, y, x.conn \in httpHistory.unfit), y.said \/ y.served <= KeepMax
  PROVE  ServingInv'
<1>0. x.conn \in Conns
  BY DEF WorkerRecs
<1>1. client'[x.conn] = y /\ \A d \in Conns \ {x.conn} : client'[d] = client[d]
  BY <1>0 DEF HttpTypes
<1>2. worker'[w] = x /\ \A v \in HttpWorkers \ {w} : worker'[v] = worker[v]
  BY DEF HttpTypes
<1>3. Serves(worker[w], client[x.conn], x.conn \in httpHistory.unfit)
  BY DEF ServingInv
<1>4. ClientOk(y, x.conn \in httpHistory'.unfit, x.conn \in httpHistory'.dropped)
  BY <1>0, <1>3 DEF ServingInv, ClientOk, Serves
<1>5. \A d \in Conns : ClientOk(client'[d], d \in httpHistory'.unfit, d \in httpHistory'.dropped)
  BY <1>1, <1>4 DEF ServingInv
<1>6. ASSUME NEW v \in HttpWorkers
      PROVE  IF worker'[v].conn = NoConn THEN worker'[v].at \in {"none", "lock", "select", "read"}
             ELSE Serves(worker'[v], client'[worker'[v].conn], worker'[v].conn \in httpHistory'.unfit)
  <2>1. CASE v = w
    BY <1>1, <1>2, <2>1
  <2>2. CASE v # w
    <3>1. worker'[v] = worker[v] /\ worker[v].conn # x.conn /\ worker[v].conn \in Conns \cup {NoConn}
      BY <1>2, <2>2 DEF ServingInv, HttpTypes, WorkerRecs
    <3> QED BY <1>1, <3>1 DEF ServingInv
  <2> QED BY <2>1, <2>2
<1>7. \A u, v \in HttpWorkers : (u # v /\ worker'[u].conn = worker'[v].conn) => worker'[u].conn = NoConn
  BY <1>2 DEF ServingInv
<1> QED BY <1>5, <1>6, <1>7 DEF ServingInv, Serves, ClientOk

(* A worker without a connection afterwards; a client that it or nobody served ends. *)
LEMMA WorkerIdles ==
  ASSUME HttpTypes, ServingInv, httpHistory'.unfit = httpHistory.unfit,
         NEW w \in HttpWorkers, NEW x \in WorkerRecs, x.conn = NoConn, x.at \in {"none", "lock", "select", "read"},
         worker' = [worker EXCEPT ![w] = x],
         \/ worker[w].conn = NoConn /\ client' = client /\ httpHistory'.dropped = httpHistory.dropped
         \/ \E c \in Conns :
              /\ client' = [client EXCEPT ![c].at = "ended"]
              /\ \/ worker[w].conn = NoConn /\ client[c].at = "queued" /\ httpHistory'.dropped = httpHistory.dropped
                 \/ /\ worker[w].conn = c
                    /\ \/ httpHistory'.dropped = httpHistory.dropped
                       \/ /\ httpHistory'.dropped = httpHistory.dropped \cup {c}
                          /\ c \in httpHistory.unfit \/ client[c].said \/ client[c].served = KeepMax
  PROVE  ServingInv'
<1>2. worker'[w] = x /\ \A v \in HttpWorkers \ {w} : worker'[v] = worker[v]
  BY DEF HttpTypes
<1>3. \A u, v \in HttpWorkers : (u # v /\ worker'[u].conn = worker'[v].conn) => worker'[u].conn = NoConn
  BY <1>2 DEF ServingInv
<1>4. CASE worker[w].conn = NoConn /\ client' = client /\ httpHistory'.dropped = httpHistory.dropped
  BY <1>2, <1>3, <1>4 DEF ServingInv, Serves, ClientOk
<1>5. ASSUME NEW c \in Conns, client' = [client EXCEPT ![c].at = "ended"],
             \/ worker[w].conn = NoConn /\ client[c].at = "queued" /\ httpHistory'.dropped = httpHistory.dropped
             \/ /\ worker[w].conn = c
                /\ \/ httpHistory'.dropped = httpHistory.dropped
                   \/ /\ httpHistory'.dropped = httpHistory.dropped \cup {c}
                      /\ c \in httpHistory.unfit \/ client[c].said \/ client[c].served = KeepMax
      PROVE  ServingInv'
  <2>1. client'[c] = [client[c] EXCEPT !.at = "ended"] /\ \A d \in Conns \ {c} : client'[d] = client[d]
    BY <1>5 DEF HttpTypes
  <2>2. client'[c].at = "ended" /\ client'[c].served = client[c].served /\ client'[c].said = client[c].said
    BY <2>1 DEF HttpTypes, ClientRecs
  <2>3. ClientOk(client'[c], c \in httpHistory'.unfit, c \in httpHistory'.dropped)
    <3>1. ClientOk(client[c], c \in httpHistory.unfit, c \in httpHistory.dropped)
      BY DEF ServingInv
    <3> QED BY <1>5, <2>2, <3>1 DEF ClientOk
  <2>4. ASSUME NEW d \in Conns \ {c} PROVE ClientOk(client'[d], d \in httpHistory'.unfit, d \in httpHistory'.dropped)
    BY <1>5, <2>1 DEF ServingInv
  <2>5. ASSUME NEW v \in HttpWorkers \ {w}, worker[v].conn # NoConn
        PROVE  Serves(worker[v], client'[worker[v].conn], worker[v].conn \in httpHistory'.unfit)
    <3>1. Serves(worker[v], client[worker[v].conn], worker[v].conn \in httpHistory.unfit) /\ worker[v].conn \in Conns
      BY <2>5 DEF ServingInv, HttpTypes, WorkerRecs
    <3>2. worker[v].conn # c
      BY <1>5, <2>5, <3>1 DEF ServingInv, Serves
    <3> QED BY <2>1, <3>1, <3>2
  <2> QED BY <1>2, <1>3, <2>3, <2>4, <2>5 DEF ServingInv, Serves, ClientOk
<1> QED BY <1>4, <1>5

LEMMA HttpCreateStep == ASSUME HttpInv, HttpCreate PROVE HttpInv'
<1>0. /\ HttpTypes /\ ServingInv /\ TokensInv /\ MapsInv /\ listening = "down" /\ listening' = "up"
      /\ worker' = [w \in HttpWorkers |-> Newborn] /\ UNCHANGED <<tokens, client, file, mapped, httpHistory>>
  BY DEF HttpInv, HttpCreate
<1>1. \A w \in HttpWorkers : worker'[w] = Newborn
  BY <1>0
<1>2. HttpTypes'
  BY <1>0, GoneTyped DEF HttpTypes
<1>3. ServingInv'
  BY <1>0, <1>1, GoneTyped DEF ServingInv, ClientOk
<1>4. TokensInv'
  <2>1. Alive' = HttpWorkers
    BY <1>1, GoneTyped DEF Alive
  <2> QED BY <1>0, <2>1 DEF TokensInv
<1>5. MapsInv'
  BY <1>1, GoneTyped DEF MapsInv
<1> QED BY <1>2, <1>3, <1>4, <1>5 DEF HttpInv

LEMMA HttpCloseStep == ASSUME HttpInv, HttpClose PROVE HttpInv'
<1>0. /\ HttpTypes /\ ServingInv /\ TokensInv /\ MapsInv /\ listening # "closing" /\ listening' = "closing"
      /\ tokens' = tokens + Cardinality(HttpWorkers) /\ UNCHANGED <<worker, client, file, mapped>>
      /\ httpHistory' = [httpHistory EXCEPT !.closes = @ + 1, !.stray = @ \/ listening = "down"]
  BY DEF HttpInv, HttpClose
<1>1. /\ httpHistory' \in Histories /\ (httpHistory'.stray <=> (httpHistory.stray \/ listening = "down")) /\ httpHistory'.unfit = httpHistory.unfit
      /\ httpHistory'.dropped = httpHistory.dropped /\ httpHistory'.changed = httpHistory.changed
  <2> DEFINE s == httpHistory.stray \/ listening = "down"
  <2>1. httpHistory \in Histories /\ s \in BOOLEAN /\ httpHistory' = [httpHistory EXCEPT !.closes = httpHistory.closes + 1, !.stray = s]
    BY <1>0 DEF HttpTypes, Histories
  <2> HIDE DEF s
  <2>2. httpHistory' \in Histories
    <3>1. PICK n \in Nat : n = httpHistory.closes + 1
      BY <2>1 DEF Histories
    <3>2. httpHistory' = [httpHistory EXCEPT !.closes = n, !.stray = s]
      BY <2>1, <3>1
    <3> QED BY <2>1, <3>2 DEF Histories
  <2>3. httpHistory'.stray = s /\ httpHistory'.unfit = httpHistory.unfit
        /\ httpHistory'.dropped = httpHistory.dropped /\ httpHistory'.changed = httpHistory.changed
    BY <2>1 DEF Histories
  <2> QED BY <2>2, <2>3 DEF s
<1>2. Cardinality(HttpWorkers) \in Nat
  BY HttpAssumption, FS_CardinalityType
<1>3. HttpTypes'
  BY <1>0, <1>1, <1>2 DEF HttpTypes
<1>4. ServingInv'
  BY <1>0, <1>1 DEF ServingInv, Serves, ClientOk
<1>5. TokensInv'
  <2>1. Alive' = Alive
    BY <1>0 DEF Alive
  <2>2. CASE listening = "down"
    BY <1>0, <1>1, <2>2 DEF TokensInv
  <2>3. CASE listening = "up"
    <3>1. CASE httpHistory.stray
      BY <1>0, <1>1, <3>1 DEF TokensInv
    <3>2. CASE ~httpHistory.stray
      <4>1. tokens = 0 /\ Alive = HttpWorkers
        BY <1>0, <2>3, <3>2 DEF TokensInv
      <4>2. tokens' = Cardinality(Alive')
        BY <1>0, <1>2, <2>1, <4>1
      <4> QED BY <1>0, <4>2 DEF TokensInv
    <3> QED BY <3>1, <3>2
  <2> QED BY <1>0, <2>2, <2>3 DEF HttpTypes
<1>6. MapsInv'
  BY <1>0, <1>1, MapsSame
<1> QED BY <1>3, <1>4, <1>5, <1>6 DEF HttpInv

LEMMA HttpClosedStep == ASSUME HttpInv, HttpClosed PROVE HttpInv'
<1>0. /\ HttpTypes /\ ServingInv /\ TokensInv /\ MapsInv /\ listening = "closing" /\ listening' = "down"
      /\ \A w \in HttpWorkers : worker[w].at = "none"
      /\ client' = [c \in Conns |-> IF client[c].at = "queued" THEN [client[c] EXCEPT !.at = "ended"] ELSE client[c]]
      /\ UNCHANGED <<tokens, worker, file, mapped, httpHistory>>
  BY DEF HttpInv, HttpClosed
<1>1. ASSUME NEW c \in Conns
      PROVE  client'[c] \in ClientRecs /\ ClientOk(client'[c], c \in httpHistory.unfit, c \in httpHistory.dropped)
  <2>1. ClientOk(client[c], c \in httpHistory.unfit, c \in httpHistory.dropped) /\ client[c] \in ClientRecs
    BY <1>0 DEF ServingInv, HttpTypes
  <2>2. CASE client[c].at = "queued"
    <3>1. client'[c] = [client[c] EXCEPT !.at = "ended"]
      BY <1>0, <2>2
    <3>2. client'[c] \in ClientRecs /\ client'[c].at = "ended" /\ client'[c].served = client[c].served /\ client'[c].said = client[c].said
      BY <2>1, <3>1 DEF ClientRecs
    <3> QED BY <2>1, <3>2 DEF ClientOk
  <2>3. CASE client[c].at # "queued"
    BY <1>0, <2>1, <2>3
  <2> QED BY <2>2, <2>3
<1>2. HttpTypes'
  BY <1>0, <1>1 DEF HttpTypes
<1>3. \A w \in HttpWorkers : worker[w].conn = NoConn
  BY <1>0 DEF ServingInv, Serves
<1>4. ServingInv'
  BY <1>0, <1>1, <1>3 DEF ServingInv, Serves, ClientOk
<1>5. Alive = {} /\ Alive' = {}
  BY <1>0 DEF Alive
<1>6. TokensInv'
  <2>1. Cardinality({}) = 0
    BY FS_EmptySet
  <2> QED BY <1>0, <1>5, <2>1 DEF TokensInv
<1>7. MapsInv'
  BY <1>0, MapsSame
<1> QED BY <1>2, <1>4, <1>6, <1>7 DEF HttpInv

LEMMA ClientStep ==
  ASSUME HttpInv, NEW c \in Conns, ClientConnects(c) \/ ClientAsks(c) \/ ClientLeaves(c) PROVE HttpInv'
<1>0. HttpTypes /\ ServingInv /\ TokensInv /\ MapsInv /\ UNCHANGED <<listening, tokens, worker, file, mapped>>
  BY DEF HttpInv, ClientConnects, ClientAsks, ClientLeaves
<1>1. /\ httpHistory' \in Histories /\ httpHistory'.stray = httpHistory.stray /\ httpHistory'.unfit = httpHistory.unfit
      /\ httpHistory'.dropped = httpHistory.dropped /\ httpHistory'.changed = httpHistory.changed
  <2>1. CASE httpHistory' = httpHistory
    BY <1>0, <2>1 DEF HttpTypes
  <2>2. CASE httpHistory' = [httpHistory EXCEPT !.asked = @ + 1]
    BY <1>0, <2>2 DEF HttpTypes, Histories
  <2> QED BY <2>1, <2>2 DEF ClientConnects, ClientAsks, ClientLeaves
<1>2. PICK y \in ClientRecs :
        /\ client' = [client EXCEPT ![c] = y] /\ y.served = client[c].served /\ y.said = client[c].said /\ client[c].at # "ended"
        /\ (y.at = client[c].at) \/ (client[c].at = "new" /\ y.at = "queued") \/ (client[c].at = "taken" /\ y.at = "left")
  <2>0. client[c] \in ClientRecs
    BY <1>0 DEF HttpTypes
  <2>1. CASE ClientConnects(c)
    <3>1. client' = [client EXCEPT ![c] = [client[c] EXCEPT !.at = "queued"]] /\ client[c].at = "new"
      BY <2>1 DEF ClientConnects
    <3>2. LET y == [client[c] EXCEPT !.at = "queued"] IN y \in ClientRecs /\ y.at = "queued" /\ y.served = client[c].served /\ y.said = client[c].said
      BY <2>0 DEF ClientRecs
    <3> QED BY <3>1, <3>2
  <2>2. CASE ClientAsks(c)
    <3>1. PICK a \in Asks : client' = [client EXCEPT ![c] = [client[c] EXCEPT !.ask = a]]
      BY <2>2 DEF ClientAsks
    <3>2. LET y == [client[c] EXCEPT !.ask = a] IN y \in ClientRecs /\ y.at = client[c].at /\ y.served = client[c].served /\ y.said = client[c].said
      BY <2>0 DEF ClientRecs
    <3>3. client[c].at # "ended"
      BY <2>2 DEF ClientAsks
    <3> QED BY <3>1, <3>2, <3>3
  <2>3. CASE ClientLeaves(c)
    <3>1. client' = [client EXCEPT ![c] = [client[c] EXCEPT !.at = "left"]] /\ client[c].at = "taken"
      BY <2>3 DEF ClientLeaves
    <3>2. LET y == [client[c] EXCEPT !.at = "left"] IN y \in ClientRecs /\ y.at = "left" /\ y.served = client[c].served /\ y.said = client[c].said
      BY <2>0 DEF ClientRecs
    <3> QED BY <3>1, <3>2
  <2> QED BY <2>1, <2>2, <2>3
<1>3. HttpTypes'
  BY <1>0, <1>1, <1>2 DEF HttpTypes
<1>4. ServingInv'
  BY <1>0, <1>1, <1>2, ClientMoves
<1>5. TokensInv'
  <2>1. Alive' = Alive
    BY <1>0 DEF Alive
  <2> QED BY <1>0, <1>1, <2>1, TokensKept
<1>6. MapsInv'
  BY <1>0, <1>1, MapsSame
<1> QED BY <1>3, <1>4, <1>5, <1>6 DEF HttpInv

LEMMA FileChangesStep == ASSUME HttpInv, FileChanges PROVE HttpInv'
<1> DEFINE busy == \E w \in HttpWorkers : worker[w].at \in {"get", "send"}
<1>0. /\ HttpTypes /\ ServingInv /\ TokensInv /\ MapsInv /\ UNCHANGED <<listening, tokens, worker, client, mapped>> /\ file' = file + 1
      /\ httpHistory' = [httpHistory EXCEPT !.changed = @ \/ busy]
  BY DEF HttpInv, FileChanges
<1>1. /\ httpHistory' \in Histories /\ httpHistory'.stray = httpHistory.stray /\ httpHistory'.unfit = httpHistory.unfit
      /\ httpHistory'.dropped = httpHistory.dropped /\ httpHistory'.changed = (httpHistory.changed \/ busy)
  BY <1>0 DEF HttpTypes, Histories
<1>2. HttpTypes'
  BY <1>0, <1>1 DEF HttpTypes
<1>3. ServingInv'
  BY <1>0, <1>1 DEF ServingInv, Serves, ClientOk
<1>4. TokensInv'
  <2>1. Alive' = Alive
    BY <1>0 DEF Alive
  <2> QED BY <1>0, <1>1, <2>1, TokensKept
<1>5. MapsInv'
  BY <1>0, <1>1 DEF MapsInv
<1> QED BY <1>2, <1>3, <1>4, <1>5 DEF HttpInv

(* A step of one worker that neither begins nor ends it and is not at the file afterwards. *)
LEMMA WorkerMoves ==
  ASSUME HttpInv, UNCHANGED <<listening, tokens, file, mapped>>, httpHistory' \in Histories, httpHistory'.stray = httpHistory.stray,
         httpHistory'.changed = httpHistory.changed, NEW w \in HttpWorkers, NEW x \in WorkerRecs, worker' = [worker EXCEPT ![w] = x],
         worker[w].at # "none", x.at \notin {"none", "get", "send"}, x.map = "none", client' \in [Conns -> ClientRecs], ServingInv'
  PROVE  HttpInv'
<1>0. HttpTypes /\ TokensInv /\ MapsInv
  BY DEF HttpInv
<1>1. HttpTypes'
  BY <1>0 DEF HttpTypes
<1>2. TokensInv'
  BY <1>0, AliveKept, TokensKept
<1>3. MapsInv'
  BY <1>0, MapsKept
<1> QED BY <1>1, <1>2, <1>3 DEF HttpInv

(* A worker that keeps its connection, or has none, and nothing else. *)
LEMMA WorkLocksStep == ASSUME HttpInv, NEW w \in HttpWorkers, WorkLocks(w) PROVE HttpInv'
<1> DEFINE x == [worker[w] EXCEPT !.at = "select"]
<1>0. /\ HttpTypes /\ ServingInv /\ MapsInv /\ UNCHANGED <<listening, tokens, client, file, mapped, httpHistory>> /\ worker[w].at = "lock"
      /\ worker' = [worker EXCEPT ![w] = x] /\ worker[w] \in WorkerRecs /\ client \in [Conns -> ClientRecs] /\ httpHistory \in Histories
  BY DEF HttpInv, WorkLocks, HttpTypes
<1>1. worker[w].conn = NoConn /\ worker[w].map = "none"
  BY <1>0, NoMapOutside DEF ServingInv, Serves
<1>2. x \in WorkerRecs /\ x.at = "select" /\ x.conn = NoConn /\ x.map = "none"
  BY <1>0, <1>1 DEF WorkerRecs
<1> HIDE DEF x
<1>3. ServingInv'
  BY <1>0, <1>1, <1>2, WorkerIdles
<1> QED BY <1>0, <1>2, <1>3, WorkerMoves

LEMMA WorkInterruptedStep == ASSUME HttpInv, NEW w \in HttpWorkers, WorkInterrupted(w) \/ WorkAcceptFails(w) PROVE HttpInv'
<1> DEFINE x == [worker[w] EXCEPT !.at = "read", !.max = KeepMax]
<1>0. /\ HttpTypes /\ ServingInv /\ MapsInv /\ UNCHANGED <<listening, tokens, file, mapped, httpHistory>> /\ worker[w].at = "select"
      /\ worker[w] \in WorkerRecs /\ client \in [Conns -> ClientRecs] /\ httpHistory \in Histories
  BY DEF HttpInv, WorkInterrupted, WorkAcceptFails, HttpTypes
<1>1. worker' = [worker EXCEPT ![w] = x]
  BY <1>0 DEF WorkInterrupted, WorkAcceptFails, HttpTypes
<1>2. worker[w].conn = NoConn /\ worker[w].map = "none"
  BY <1>0, NoMapOutside DEF ServingInv, Serves
<1>3. x \in WorkerRecs /\ x.at = "read" /\ x.conn = NoConn /\ x.map = "none"
  <2>1. KeepMax \in Int
    BY HttpAssumption
  <2> QED BY <1>0, <1>2, <2>1 DEF WorkerRecs
<1> HIDE DEF x
<1>4. client' = client \/ \E c \in Conns : client' = [client EXCEPT ![c].at = "ended"] /\ client[c].at = "queued"
  BY DEF WorkInterrupted, WorkAcceptFails
<1>5. client' \in [Conns -> ClientRecs]
  BY <1>0, <1>4 DEF ClientRecs
<1>6. ServingInv'
  BY <1>0, <1>1, <1>2, <1>3, <1>4, WorkerIdles
<1> QED BY <1>0, <1>1, <1>3, <1>5, <1>6, WorkerMoves

LEMMA WorkTokenStep == ASSUME HttpInv, NEW w \in HttpWorkers, WorkToken(w) PROVE HttpInv'
<1>0. /\ HttpTypes /\ ServingInv /\ TokensInv /\ MapsInv /\ UNCHANGED <<listening, client, file, mapped, httpHistory>>
      /\ worker[w].at = "select" /\ tokens > 0 /\ tokens' = tokens - 1 /\ worker' = [worker EXCEPT ![w] = Gone]
  BY DEF HttpInv, WorkToken
<1>1. worker[w].conn = NoConn
  BY <1>0 DEF ServingInv, Serves
<1>2. HttpTypes'
  BY <1>0, GoneTyped DEF HttpTypes
<1>3. ServingInv'
  BY <1>0, <1>1, GoneTyped, WorkerIdles
<1>4. MapsInv'
  BY <1>0, GoneTyped, MapsKept
<1>5. TokensInv'
  <2>1. Alive' = Alive \ {w} /\ w \in Alive
    BY <1>0, GoneTyped DEF Alive, HttpTypes
  <2>2. IsFiniteSet(Alive)
    BY HttpAssumption, FS_Subset DEF Alive
  <2>3. Cardinality(Alive') = Cardinality(Alive) - 1 /\ Cardinality(Alive) \in Nat
    BY <2>1, <2>2, FS_RemoveElement, FS_CardinalityType
  <2>4. listening # "down"
    BY <1>0, <2>1 DEF TokensInv
  <2>5. CASE httpHistory.stray
    BY <1>0, <2>4, <2>5 DEF TokensInv
  <2>6. CASE ~httpHistory.stray
    <3>1. listening = "closing" /\ tokens = Cardinality(Alive)
      BY <1>0, <2>6 DEF TokensInv
    <3> QED BY <1>0, <2>3, <3>1 DEF TokensInv
  <2> QED BY <2>5, <2>6
<1> QED BY <1>2, <1>3, <1>4, <1>5 DEF HttpInv

LEMMA WorkAcceptsStep == ASSUME HttpInv, NEW w \in HttpWorkers, WorkAccepts(w) PROVE HttpInv'
<1>0. HttpTypes /\ ServingInv /\ MapsInv /\ UNCHANGED <<listening, tokens, file, mapped>> /\ worker[w].at = "select" /\ worker[w] \in WorkerRecs
  BY DEF HttpInv, WorkAccepts, HttpTypes
<1>1. PICK c \in Conns :
        /\ client[c].at = "queued" /\ client' = [client EXCEPT ![c].at = "taken"]
        /\ worker' = [worker EXCEPT ![w].at = "read", ![w].conn = c, ![w].max = KeepMax]
        /\ httpHistory' = [httpHistory EXCEPT !.unfit = IF worker[w].failed THEN @ \cup {c} ELSE @]
  BY DEF WorkAccepts
<1> DEFINE x == [worker[w] EXCEPT !.at = "read", !.conn = c, !.max = KeepMax]
           y == [client[c] EXCEPT !.at = "taken"]
<1>2. worker[w].conn = NoConn /\ worker[w].map = "none" /\ c # NoConn
  BY <1>0, NoMapOutside, HttpAssumption DEF ServingInv, Serves
<1>3. worker' = [worker EXCEPT ![w] = x] /\ client' = [client EXCEPT ![c] = y]
  BY <1>0, <1>1 DEF HttpTypes
<1>4. x \in WorkerRecs /\ x.at = "read" /\ x.conn = c /\ x.max = KeepMax /\ x.map = "none" /\ x.failed = worker[w].failed
  <2>1. KeepMax \in Int
    BY HttpAssumption
  <2> QED BY <1>0, <1>2, <2>1 DEF WorkerRecs
<1>5. y \in ClientRecs /\ y.at = "taken" /\ y.served = client[c].served /\ y.said = client[c].said /\ client[c] \in ClientRecs
  BY <1>0 DEF HttpTypes, ClientRecs
<1> HIDE DEF x, y
<1>6. /\ httpHistory' \in Histories /\ httpHistory'.stray = httpHistory.stray /\ httpHistory'.dropped = httpHistory.dropped
      /\ httpHistory'.changed = httpHistory.changed
      /\ httpHistory'.unfit = IF worker[w].failed THEN httpHistory.unfit \cup {c} ELSE httpHistory.unfit
  BY <1>0, <1>1 DEF HttpTypes, Histories
<1>7. ClientOk(client[c], c \in httpHistory.unfit, c \in httpHistory.dropped)
  BY <1>0 DEF ServingInv
<1>8. y.served = 0 /\ ~y.said /\ c \notin httpHistory.dropped
  BY <1>1, <1>5, <1>7 DEF ClientOk
<1>9. ClientOk(y, c \in httpHistory'.unfit, c \in httpHistory'.dropped)
  BY <1>5, <1>6, <1>8, HttpAssumption DEF ClientOk
<1>10. Serves(x, y, c \in httpHistory'.unfit)
  BY <1>4, <1>5, <1>6, <1>8, HttpAssumption DEF Serves
<1>11. /\ worker'[w] = x /\ \A v \in HttpWorkers \ {w} : worker'[v] = worker[v]
       /\ client'[c] = y /\ \A d \in Conns \ {c} : client'[d] = client[d]
  BY <1>0, <1>3 DEF HttpTypes
<1>12. ASSUME NEW v \in HttpWorkers \ {w}, worker[v].conn # NoConn
       PROVE  worker[v].conn # c /\ Serves(worker[v], client'[worker[v].conn], worker[v].conn \in httpHistory'.unfit)
  <2>1. Serves(worker[v], client[worker[v].conn], worker[v].conn \in httpHistory.unfit) /\ worker[v].conn \in Conns
    BY <1>0, <1>12 DEF ServingInv, HttpTypes, WorkerRecs
  <2>2. worker[v].conn # c
    BY <1>1, <2>1 DEF Serves
  <2> QED BY <1>6, <1>11, <2>1, <2>2
<1>13. \A d \in Conns : ClientOk(client'[d], d \in httpHistory'.unfit, d \in httpHistory'.dropped)
  BY <1>0, <1>6, <1>9, <1>11 DEF ServingInv
<1>14. ServingInv'
  <2>1. \A u, v \in HttpWorkers : (u # v /\ worker'[u].conn = worker'[v].conn) => worker'[u].conn = NoConn
    BY <1>0, <1>2, <1>4, <1>11, <1>12 DEF ServingInv
  <2>2. ASSUME NEW v \in HttpWorkers
        PROVE  IF worker'[v].conn = NoConn THEN worker'[v].at \in {"none", "lock", "select", "read"}
               ELSE Serves(worker'[v], client'[worker'[v].conn], worker'[v].conn \in httpHistory'.unfit)
    BY <1>0, <1>2, <1>4, <1>10, <1>11, <1>12 DEF ServingInv
  <2> QED BY <1>13, <2>1, <2>2 DEF ServingInv, Serves, ClientOk
<1>15. client' \in [Conns -> ClientRecs]
  BY <1>0, <1>3, <1>5 DEF HttpTypes
<1> QED BY <1>0, <1>3, <1>4, <1>6, <1>14, <1>15, WorkerMoves


-----------------------------------------------------------------------------
(* endRequest: whoever is dropped with a request had its share, was told, or fell to an unfit worker. *)
LEMMA EndRequestStep ==
  ASSUME HttpInv, NEW w \in HttpWorkers, NEW failed \in BOOLEAN, worker[w].at \in {"read", "end"}, EndRequest(w, failed),
         UNCHANGED <<listening, tokens, file, mapped>>,
         (worker[w].conn # NoConn /\ Here(w) /\ Ask(w) # NoAsk) =>
            \/ worker[w].conn \in httpHistory.unfit
            \/ client[worker[w].conn].said
            \/ client[worker[w].conn].served = KeepMax
  PROVE  HttpInv'
<1> DEFINE x == [Newborn EXCEPT !.failed = failed]
<1>0. /\ HttpTypes /\ ServingInv /\ MapsInv /\ worker[w] \in WorkerRecs /\ worker' = [worker EXCEPT ![w] = x]
      /\ client \in [Conns -> ClientRecs] /\ httpHistory \in Histories
  BY DEF HttpInv, EndRequest, HttpTypes
<1>1. x \in WorkerRecs /\ x.at = "lock" /\ x.conn = NoConn /\ x.map = "none"
  BY GoneTyped DEF WorkerRecs
<1> HIDE DEF x
<1>2. CASE worker[w].conn = NoConn
  <2>1. UNCHANGED <<client, httpHistory>>
    BY <1>2 DEF EndRequest
  <2>2. ServingInv'
    BY <1>0, <1>1, <1>2, <2>1, WorkerIdles
  <2> QED BY <1>0, <1>1, <2>1, <2>2, WorkerMoves
<1>3. CASE worker[w].conn # NoConn
  <2>1. PICK c \in Conns : c = worker[w].conn
    BY <1>0, <1>3 DEF WorkerRecs
  <2> DEFINE turned == Here(w) /\ Ask(w) # NoAsk
  <2>2. /\ client' = [client EXCEPT ![c].at = "ended"]
        /\ httpHistory' = [httpHistory EXCEPT !.dropped = IF turned THEN httpHistory.dropped \cup {c} ELSE httpHistory.dropped]
    BY <1>3, <2>1 DEF EndRequest
  <2>3. turned => c \in httpHistory.unfit \/ client[c].said \/ client[c].served = KeepMax
    BY <1>3, <2>1
  <2> HIDE DEF turned
  <2>4. /\ httpHistory' \in Histories /\ httpHistory'.stray = httpHistory.stray /\ httpHistory'.unfit = httpHistory.unfit
        /\ httpHistory'.changed = httpHistory.changed
        /\ httpHistory'.dropped = IF turned THEN httpHistory.dropped \cup {c} ELSE httpHistory.dropped
    BY <1>0, <2>2 DEF Histories
  <2>5. client' \in [Conns -> ClientRecs]
    BY <1>0, <2>2 DEF ClientRecs
  <2>6. ServingInv'
    BY <1>0, <1>1, <2>1, <2>2, <2>3, <2>4, WorkerIdles
  <2> QED BY <1>0, <1>1, <2>4, <2>5, <2>6, WorkerMoves
<1> QED BY <1>2, <1>3

LEMMA ReadsNothingStep == ASSUME HttpInv, NEW w \in HttpWorkers, ReadsNothing(w) PROVE HttpInv'
<1>0. /\ HttpTypes /\ ServingInv /\ worker[w].at = "read" /\ EndRequest(w, TRUE) /\ UNCHANGED <<listening, tokens, file, mapped>>
      /\ worker[w].failed \/ ~Here(w) \/ Ask(w) = NoAsk
  BY DEF HttpInv, ReadsNothing
<1>1. (worker[w].conn # NoConn /\ Here(w) /\ Ask(w) # NoAsk) => worker[w].conn \in httpHistory.unfit
  BY <1>0 DEF ServingInv, Serves, Here
<1> QED BY <1>0, <1>1, EndRequestStep

LEMMA WorkEndsStep == ASSUME HttpInv, NEW w \in HttpWorkers, WorkEnds(w) PROVE HttpInv'
<1>0. /\ HttpTypes /\ ServingInv /\ worker[w].at = "end" /\ UNCHANGED <<listening, tokens, file, mapped>>
  BY DEF HttpInv, WorkEnds
<1>1. PICK failed \in BOOLEAN : EndRequest(w, failed)
  <2>1. worker[w].failed \in BOOLEAN /\ (Here(w) \/ worker[w].failed) \in BOOLEAN
    BY <1>0 DEF HttpTypes, WorkerRecs
  <2> QED BY <2>1 DEF WorkEnds
<1>2. worker[w].conn # NoConn => client[worker[w].conn].said \/ client[worker[w].conn].served = KeepMax
  BY <1>0 DEF ServingInv, Serves
<1> QED BY <1>0, <1>1, <1>2, EndRequestStep

LEMMA ReadsRequestStep == ASSUME HttpInv, NEW w \in HttpWorkers, ReadsRequest(w) PROVE HttpInv'
<1>0. /\ HttpTypes /\ ServingInv /\ MapsInv /\ worker[w].at = "read" /\ ~worker[w].failed /\ Here(w) /\ worker[w] \in WorkerRecs
      /\ UNCHANGED <<listening, tokens, file, mapped, httpHistory>> /\ httpHistory \in Histories /\ client \in [Conns -> ClientRecs]
  BY DEF HttpInv, ReadsRequest, HttpTypes
<1>1. PICK c \in Conns : c = worker[w].conn /\ client[c].at = "taken" /\ c # NoConn /\ client[c] \in ClientRecs
  BY <1>0 DEF Here, WorkerRecs
<1>2. PICK a \in Asks \cup {NoAsk} : a = Ask(w)
  BY <1>1 DEF Ask, ClientRecs
<1>3. PICK bad \in BOOLEAN : bad <=> (Ask(w).for = "malformed")
  OBVIOUS
<1> DEFINE at == IF bad THEN "end" ELSE "answer"
           said == client[c].said \/ bad
           x == [worker[w] EXCEPT !.at = at, !.ask = a]
           y == [client[c] EXCEPT !.ask = NoAsk, !.served = client[c].served + 1, !.said = said]
<1>4. worker' = [worker EXCEPT ![w] = x] /\ client' = [client EXCEPT ![c] = y]
  <2>1. worker' = [worker EXCEPT ![w].at = at, ![w].ask = a]
    BY <1>2, <1>3 DEF ReadsRequest
  <2>2. client' = [client EXCEPT ![c].ask = NoAsk, ![c].served = client[c].served + 1, ![c].said = said]
    BY <1>0, <1>1, <1>3 DEF ReadsRequest
  <2> QED BY <1>0, <2>1, <2>2 DEF HttpTypes
<1>5. x \in WorkerRecs /\ x.at = at /\ x.conn = c /\ x.max = worker[w].max /\ x.failed = worker[w].failed /\ x.map = worker[w].map
  BY <1>0, <1>1, <1>2 DEF WorkerRecs
<1>6. said \in BOOLEAN
  BY <1>1 DEF ClientRecs
<1> HIDE DEF x, said
<1>7. y \in ClientRecs /\ y.at = "taken" /\ y.served = client[c].served + 1 /\ y.said = said
  <2>1. PICK n \in Nat : n = client[c].served + 1
    BY <1>1 DEF ClientRecs
  <2> QED BY <1>1, <1>6, <2>1 DEF ClientRecs
<1> HIDE DEF y
<1>8. Serves(x, y, c \in httpHistory.unfit) /\ (y.said \/ y.served <= KeepMax)
  <2>1. Serves(worker[w], client[c], c \in httpHistory.unfit)
    BY <1>0, <1>1 DEF ServingInv
  <2>2. CASE said
    BY <1>0, <1>5, <1>7, <2>2 DEF Serves
  <2>3. CASE ~said
    <3>1. ~client[c].said /\ ~bad
      BY <2>3 DEF said
    <3>2. worker[w].max = KeepMax - client[c].served /\ worker[w].max >= 1
      BY <1>0, <2>1, <3>1 DEF Serves
    <3>3. PICK k \in Nat, n \in Nat : k = KeepMax /\ n = client[c].served
      BY <1>1, HttpAssumption DEF ClientRecs
    <3> QED BY <1>0, <1>5, <1>7, <3>1, <3>2, <3>3 DEF Serves
  <2> QED BY <2>2, <2>3
<1>9. ServingInv'
  BY <1>0, <1>1, <1>4, <1>5, <1>7, <1>8, WorkerServes
<1>10. worker[w].map = "none"
  BY <1>0, NoMapOutside
<1>11. client' \in [Conns -> ClientRecs]
  BY <1>0, <1>4, <1>7
<1> QED BY <1>0, <1>4, <1>5, <1>9, <1>10, <1>11, WorkerMoves

-----------------------------------------------------------------------------
(* The loop of processRequest: _max counted down, and whether another request is read. *)
LEMMA LoopCounts ==
  ASSUME NEW m \in Int
  PROVE  /\ After(m) \in Int /\ Loops(m) \in BOOLEAN
         /\ m >= 1 => After(m) = m - 1 /\ (Loops(m) <=> m - 1 >= 1)
  BY DEF After, Loops

LEMMA LastOne == ASSUME NEW m \in Int, NEW k \in Nat, NEW n \in Nat, m = k - n + 1, m >= 1, ~(m - 1 >= 1) PROVE n = k
  OBVIOUS

(* A worker that answered: it reads again, or ends because the share is used up or close was said. *)
LEMMA Answered ==
  ASSUME HttpTypes, ServingInv, NEW w \in HttpWorkers, worker[w].at \in {"answer", "get", "send"},
         NEW x \in WorkerRecs, NEW y \in ClientRecs, NEW m \in Int,
         x.at = IF Loops(m) THEN "read" ELSE "end", x.max = After(m), x.conn = worker[w].conn,
         x.failed => worker[w].failed \/ client[worker[w].conn].at # "taken",
         y.at = client[worker[w].conn].at, y.served = client[worker[w].conn].served,
         y.said \/ (y.said = client[worker[w].conn].said /\ m = worker[w].max),
         worker' = [worker EXCEPT ![w] = x], client' = [client EXCEPT ![worker[w].conn] = y],
         httpHistory'.unfit = httpHistory.unfit, httpHistory'.dropped = httpHistory.dropped
  PROVE  ServingInv' /\ client' \in [Conns -> ClientRecs]
<1>1. worker[w].conn # NoConn /\ worker[w] \in WorkerRecs
  BY DEF ServingInv, HttpTypes
<1>2. PICK c \in Conns : c = worker[w].conn
  BY <1>1 DEF WorkerRecs
<1>3. Serves(worker[w], client[c], c \in httpHistory.unfit) /\ ClientOk(client[c], c \in httpHistory.unfit, c \in httpHistory.dropped)
  BY <1>1, <1>2 DEF ServingInv
<1>4. Serves(x, y, c \in httpHistory.unfit) /\ (y.said \/ y.served <= KeepMax)
  <2>1. CASE y.said
    BY <1>2, <1>3, <2>1 DEF Serves
  <2>2. CASE ~y.said
    <3>1. worker[w].max = KeepMax - client[c].served + 1 /\ worker[w].max >= 1
      BY <1>2, <1>3, <2>2 DEF Serves
    <3>2. After(m) = m - 1 /\ (Loops(m) <=> m - 1 >= 1)
      BY <1>2, <2>2, <3>1, LoopCounts
    <3>3. PICK k \in Nat, n \in Nat : k = KeepMax /\ n = y.served
      BY HttpAssumption DEF ClientRecs
    <3>4. m = k - n + 1 /\ m >= 1
      BY <1>2, <2>2, <3>1, <3>3
    <3>5. n <= k
      BY <3>4
    <3>6. CASE Loops(m)
      <4>1. x.at = "read" /\ x.max = k - n /\ x.max >= 1
        BY <3>2, <3>3, <3>4, <3>6
      <4> QED BY <1>2, <1>3, <3>3, <3>5, <4>1 DEF Serves
    <3>7. CASE ~Loops(m)
      <4>0. ~(m - 1 >= 1)
        BY <3>2, <3>7
      <4>1. x.at = "end" /\ n = k
        <5>1. n = k
          BY <3>3, <3>4, <4>0, LastOne
        <5> QED BY <3>7, <5>1
      <4> QED BY <1>2, <1>3, <3>3, <3>5, <4>1 DEF Serves
    <3> QED BY <3>6, <3>7
  <2> QED BY <2>1, <2>2
<1>5. ServingInv'
  BY <1>1, <1>2, <1>4, WorkerServes
<1>6. client' \in [Conns -> ClientRecs]
  BY DEF HttpTypes
<1> QED BY <1>5, <1>6

LEMMA AnswersMove ==
  ASSUME HttpTypes, ServingInv, NEW w \in HttpWorkers, worker[w].at \in {"answer", "get", "send"}, NEW close \in BOOLEAN, Answers(w, close),
         httpHistory'.unfit = httpHistory.unfit, httpHistory'.dropped = httpHistory.dropped
  PROVE  /\ ServingInv' /\ client' \in [Conns -> ClientRecs]
         /\ \E x \in WorkerRecs : worker' = [worker EXCEPT ![w] = x] /\ x.at \in {"read", "end"} /\ x.map = "none"
<1>1. worker[w].conn # NoConn /\ worker[w] \in WorkerRecs
  BY DEF ServingInv, HttpTypes
<1>2. PICK c \in Conns : c = worker[w].conn /\ client[c] \in ClientRecs
  BY <1>1 DEF WorkerRecs, HttpTypes
<1>3. PICK m \in Int : m = IF close THEN 0 ELSE worker[w].max
  BY <1>1 DEF WorkerRecs
<1>4. PICK failed \in {worker[w].failed, worker[w].failed \/ ~Here(w)} :
        worker' = [worker EXCEPT ![w].at = IF Loops(m) THEN "read" ELSE "end", ![w].max = After(m),
                                 ![w].failed = failed, ![w].ask = NoAsk, ![w].seen = 0, ![w].map = "none"]
  BY <1>3 DEF Answers
<1>5. failed \in BOOLEAN /\ (failed => worker[w].failed \/ client[worker[w].conn].at # "taken")
  BY <1>1, <1>4 DEF Here, WorkerRecs
<1> DEFINE at == IF Loops(m) THEN "read" ELSE "end"
           x == [worker[w] EXCEPT !.at = at, !.max = After(m), !.failed = failed, !.ask = NoAsk, !.seen = 0, !.map = "none"]
           said == client[c].said \/ close
           y == [client[c] EXCEPT !.said = said]
<1>6. worker' = [worker EXCEPT ![w] = x] /\ client' = [client EXCEPT ![c] = y]
  <2>1. client' = [client EXCEPT ![c].said = said]
    BY <1>2 DEF Answers
  <2> QED BY <1>4, <2>1 DEF HttpTypes
<1>7. at \in {"read", "end"} /\ After(m) \in Int
  BY LoopCounts
<1>8. said \in BOOLEAN /\ (close => said = TRUE) /\ (~close => said = client[c].said)
  BY <1>2 DEF ClientRecs
<1> HIDE DEF at, said
<1>9. x \in WorkerRecs
  BY <1>1, <1>5, <1>7 DEF WorkerRecs
<1>10. x.at = at /\ x.max = After(m) /\ x.failed = failed /\ x.map = "none" /\ x.conn = worker[w].conn
  BY <1>1 DEF WorkerRecs
<1>11. y \in ClientRecs /\ y.at = client[c].at /\ y.served = client[c].served /\ y.said = said
  BY <1>2, <1>8 DEF ClientRecs
<1> HIDE DEF x, y
<1>12. y.said \/ (y.said = client[worker[w].conn].said /\ m = worker[w].max)
  BY <1>2, <1>3, <1>8, <1>11
<1>13. ServingInv' /\ client' \in [Conns -> ClientRecs]
  <2>1. x.at = IF Loops(m) THEN "read" ELSE "end"
    BY <1>10 DEF at
  <2> QED BY <1>2, <1>5, <1>6, <1>9, <1>10, <1>11, <1>12, <2>1, Answered
<1> QED BY <1>6, <1>7, <1>9, <1>10, <1>13

LEMMA WriteResponseStep == ASSUME HttpInv, NEW w \in HttpWorkers, WriteResponse(w) PROVE HttpInv'
<1>0. /\ HttpTypes /\ ServingInv /\ MapsInv /\ worker[w].at = "answer" /\ worker[w] \in WorkerRecs
      /\ UNCHANGED <<listening, tokens, file, mapped, httpHistory>> /\ httpHistory \in Histories /\ client \in [Conns -> ClientRecs]
  BY DEF HttpInv, WriteResponse, HttpTypes
<1>1. CASE \E close \in BOOLEAN : Answers(w, close)
  <2>1. /\ ServingInv' /\ client' \in [Conns -> ClientRecs]
        /\ \E x \in WorkerRecs : worker' = [worker EXCEPT ![w] = x] /\ x.at \in {"read", "end"} /\ x.map = "none"
    BY <1>0, <1>1, AnswersMove
  <2> QED BY <1>0, <2>1, WorkerMoves
<1>2. CASE /\ worker' = [worker EXCEPT ![w].at = IF Loops(worker[w].max) THEN "read" ELSE "end", ![w].max = After(@), ![w].ask = NoAsk]
           /\ UNCHANGED client
  <2>1. PICK m \in Int : m = worker[w].max
    BY <1>0 DEF WorkerRecs
  <2> DEFINE at == IF Loops(m) THEN "read" ELSE "end"
             x == [worker[w] EXCEPT !.at = at, !.max = After(m), !.ask = NoAsk]
  <2>2. worker' = [worker EXCEPT ![w] = x]
    BY <1>0, <1>2, <2>1 DEF HttpTypes
  <2>3. at \in {"read", "end"} /\ After(m) \in Int
    BY LoopCounts
  <2>4. PICK c \in Conns : c = worker[w].conn /\ client[c] \in ClientRecs
    BY <1>0 DEF WorkerRecs, HttpTypes, ServingInv
  <2>5. client' = [client EXCEPT ![c] = client[c]]
    BY <1>0, <1>2
  <2>6. x.at = IF Loops(m) THEN "read" ELSE "end"
    BY <1>0 DEF WorkerRecs
  <2> HIDE DEF at
  <2>7. x \in WorkerRecs
    BY <1>0, <2>3 DEF WorkerRecs
  <2>8. x.at = at /\ x.max = After(m) /\ x.failed = worker[w].failed /\ x.map = worker[w].map /\ x.conn = worker[w].conn
    BY <1>0 DEF WorkerRecs
  <2> HIDE DEF x
  <2>9. ServingInv' /\ client' \in [Conns -> ClientRecs]
    BY <1>0, <2>1, <2>2, <2>4, <2>5, <2>6, <2>7, <2>8, Answered
  <2>10. x.map = "none"
    BY <1>0, <2>8, NoMapOutside
  <2> QED BY <1>0, <2>2, <2>3, <2>7, <2>8, <2>9, <2>10, WorkerMoves
<1>3. SendHeaders(w) => \E close \in BOOLEAN : Answers(w, close)
  BY DEF SendHeaders
<1>4. SendError(w) => \E close \in BOOLEAN : Answers(w, close)
  BY DEF SendError
<1> QED BY <1>1, <1>2, <1>3, <1>4 DEF WriteResponse, SendRedirect

-----------------------------------------------------------------------------
LEMMA CacheStatStep == ASSUME HttpInv, NEW w \in HttpWorkers, CacheStat(w) PROVE HttpInv'
<1> DEFINE x == [worker[w] EXCEPT !.at = "get", !.seen = file]
<1>0. /\ HttpTypes /\ ServingInv /\ TokensInv /\ MapsInv /\ UNCHANGED <<listening, tokens, client, file, mapped, httpHistory>>
      /\ worker[w].at = "answer" /\ worker' = [worker EXCEPT ![w] = x] /\ worker[w] \in WorkerRecs
  BY DEF HttpInv, CacheStat, HttpTypes
<1>1. x \in WorkerRecs
  BY <1>0 DEF WorkerRecs, HttpTypes
<1>2. /\ x.at = "get" /\ x.seen = file /\ x.conn = worker[w].conn /\ x.max = worker[w].max /\ x.failed = worker[w].failed
      /\ x.map = worker[w].map
  BY <1>0 DEF WorkerRecs
<1> HIDE DEF x
<1>3. x.map = "none"
  BY <1>0, <1>2, NoMapOutside
<1>4. PICK c \in Conns : c = worker[w].conn /\ client[c] \in ClientRecs /\ c # NoConn
  BY <1>0 DEF WorkerRecs, HttpTypes, ServingInv
<1>5. ServingInv'
  <2>1. client' = [client EXCEPT ![x.conn] = client[c]]
    BY <1>0, <1>2, <1>4 DEF HttpTypes
  <2>2. Serves(worker[w], client[c], c \in httpHistory.unfit) /\ ClientOk(client[c], c \in httpHistory.unfit, c \in httpHistory.dropped)
    BY <1>0, <1>4 DEF ServingInv
  <2>3. Serves(x, client[c], c \in httpHistory.unfit) /\ (client[c].said \/ client[c].served <= KeepMax)
    BY <1>0, <1>2, <2>2 DEF Serves, ClientOk
  <2> QED BY <1>0, <1>1, <1>2, <1>4, <2>1, <2>3, WorkerServes
<1>6. HttpTypes'
  BY <1>0, <1>1 DEF HttpTypes
<1>7. TokensInv'
  BY <1>0, <1>2, AliveKept, TokensKept
<1>8. MapsInv'
  <2>1. worker'[w] = x /\ \A v \in HttpWorkers \ {w} : worker'[v] = worker[v]
    BY <1>0 DEF HttpTypes
  <2> QED BY <1>0, <1>2, <1>3, <2>1 DEF MapsInv
<1> QED BY <1>5, <1>6, <1>7, <1>8 DEF HttpInv

LEMMA CacheGetStep == ASSUME HttpInv, NEW w \in HttpWorkers, CacheGet(w) PROVE HttpInv'
<1> DEFINE lost == mapped \notin {0, worker[w].seen}
<1>0. /\ HttpTypes /\ ServingInv /\ TokensInv /\ MapsInv /\ UNCHANGED <<listening, tokens, client, file, httpHistory>>
      /\ worker[w].at = "get" /\ mapped' = worker[w].seen /\ worker' = Unmapping(w, lost)
  BY DEF HttpInv, CacheGet
<1>1. \A v \in HttpWorkers : worker[v] \in WorkerRecs
  BY <1>0 DEF HttpTypes
<1>2. ASSUME NEW v \in HttpWorkers
      PROVE  /\ worker'[v] \in WorkerRecs /\ worker'[v].conn = worker[v].conn /\ worker'[v].max = worker[v].max
             /\ worker'[v].failed = worker[v].failed /\ worker'[v].seen = worker[v].seen
             /\ worker'[v].at = (IF v = w THEN "send" ELSE worker[v].at)
             /\ worker'[v].map = (IF v = w THEN "held" ELSE IF lost /\ worker[v].map = "held" THEN "lost" ELSE worker[v].map)
  <2>1. worker'[v] = IF v = w THEN [worker[v] EXCEPT !.at = "send", !.map = "held"]
                     ELSE IF lost /\ worker[v].map = "held" THEN [worker[v] EXCEPT !.map = "lost"] ELSE worker[v]
    BY <1>0 DEF Unmapping
  <2> HIDE DEF lost
  <2>2. CASE v = w
    BY <1>1, <2>1, <2>2 DEF WorkerRecs
  <2>3. CASE v # w /\ lost /\ worker[v].map = "held"
    BY <1>1, <2>1, <2>3 DEF WorkerRecs
  <2>4. CASE v # w /\ ~(lost /\ worker[v].map = "held")
    BY <1>1, <2>1, <2>4
  <2> QED BY <2>2, <2>3, <2>4
<1>3. HttpTypes'
  <2>1. worker' \in [HttpWorkers -> WorkerRecs]
    BY <1>0, <1>2 DEF Unmapping
  <2>2. mapped' \in Nat
    BY <1>0, <1>1 DEF WorkerRecs
  <2> QED BY <1>0, <2>1, <2>2 DEF HttpTypes
<1>4. ServingInv'
  <2>1. \A u, v \in HttpWorkers : (u # v /\ worker'[u].conn = worker'[v].conn) => worker'[u].conn = NoConn
    BY <1>0, <1>2 DEF ServingInv
  <2>2. ASSUME NEW v \in HttpWorkers
        PROVE  IF worker'[v].conn = NoConn THEN worker'[v].at \in {"none", "lock", "select", "read"}
               ELSE Serves(worker'[v], client'[worker'[v].conn], worker'[v].conn \in httpHistory'.unfit)
    <3>1. CASE worker[v].conn = NoConn
      BY <1>0, <1>2, <3>1 DEF ServingInv
    <3>2. CASE worker[v].conn # NoConn
      <4>1. Serves(worker[v], client[worker[v].conn], worker[v].conn \in httpHistory.unfit)
        BY <1>0, <3>2 DEF ServingInv
      <4> QED BY <1>0, <1>2, <3>2, <4>1 DEF Serves
    <3> QED BY <3>1, <3>2
  <2> QED BY <1>0, <2>1, <2>2 DEF ServingInv, Serves, ClientOk
<1>5. TokensInv'
  <2>1. Alive' = Alive
    BY <1>0, <1>2 DEF Alive
  <2> QED BY <1>0, <2>1, TokensKept
<1>6. MapsInv'
  <2>1. ASSUME NEW v \in HttpWorkers
        PROVE  /\ worker'[v].map # "none" => worker'[v].at = "send"
               /\ worker'[v].map = "lost" => httpHistory.changed
               /\ ~httpHistory.changed => /\ worker'[v].at \in {"get", "send"} => worker'[v].seen = file
                                          /\ worker'[v].map = "held" => mapped' = file
    <3>1. CASE v = w
      BY <1>0, <1>2, <3>1 DEF MapsInv
    <3>2. CASE v # w /\ lost /\ worker[v].map = "held"
      <4>1. httpHistory.changed
        BY <1>0, <3>2 DEF MapsInv
      <4> QED BY <1>0, <1>2, <3>2, <4>1 DEF MapsInv
    <3>3. CASE v # w /\ ~(lost /\ worker[v].map = "held")
      <4> HIDE DEF lost
      <4>1. worker'[v].map = worker[v].map /\ worker'[v].at = worker[v].at /\ worker'[v].seen = worker[v].seen
        BY <1>2, <3>3
      <4>2. ~httpHistory.changed => mapped' = file
        BY <1>0 DEF MapsInv
      <4> QED BY <1>0, <4>1, <4>2 DEF MapsInv
    <3> QED BY <3>1, <3>2, <3>3
  <2> QED BY <1>0, <2>1 DEF MapsInv
<1> QED BY <1>3, <1>4, <1>5, <1>6 DEF HttpInv

LEMMA FileSentStep == ASSUME HttpInv, NEW w \in HttpWorkers, FileSent(w) PROVE HttpInv'
<1> DEFINE busy == \E v \in HttpWorkers \ {w} : worker[v].at \in {"get", "send"}
<1>0. /\ HttpTypes /\ ServingInv /\ TokensInv /\ MapsInv /\ UNCHANGED <<listening, tokens, file, mapped>>
      /\ worker[w].at = "send" /\ httpHistory' = [httpHistory EXCEPT !.changed = @ /\ busy]
  BY DEF HttpInv, FileSent
<1>1. PICK close \in BOOLEAN : Answers(w, close)
  BY DEF FileSent, SendHeaders
<1>2. /\ httpHistory' \in Histories /\ httpHistory'.stray = httpHistory.stray /\ httpHistory'.unfit = httpHistory.unfit
      /\ httpHistory'.dropped = httpHistory.dropped /\ (httpHistory'.changed <=> (httpHistory.changed /\ busy))
  <2> DEFINE c == httpHistory.changed /\ busy
  <2>1. httpHistory \in Histories /\ c \in BOOLEAN /\ httpHistory' = [httpHistory EXCEPT !.changed = c]
    BY <1>0 DEF HttpTypes, Histories
  <2> HIDE DEF c
  <2>2. /\ httpHistory' \in Histories /\ httpHistory'.stray = httpHistory.stray /\ httpHistory'.unfit = httpHistory.unfit
        /\ httpHistory'.dropped = httpHistory.dropped /\ httpHistory'.changed = c
    BY <2>1 DEF Histories
  <2> QED BY <2>2 DEF c
<1> HIDE DEF busy
<1>3. /\ ServingInv' /\ client' \in [Conns -> ClientRecs]
      /\ \E x \in WorkerRecs : worker' = [worker EXCEPT ![w] = x] /\ x.at \in {"read", "end"} /\ x.map = "none"
  BY <1>0, <1>1, <1>2, AnswersMove
<1>4. PICK x \in WorkerRecs : worker' = [worker EXCEPT ![w] = x] /\ x.at \in {"read", "end"} /\ x.map = "none"
  BY <1>3
<1>5. HttpTypes'
  BY <1>0, <1>2, <1>3, <1>4 DEF HttpTypes
<1>6. TokensInv'
  BY <1>0, <1>2, <1>4, AliveKept, TokensKept
<1>7. MapsInv'
  <2>1. worker'[w] = x /\ \A v \in HttpWorkers \ {w} : worker'[v] = worker[v]
    BY <1>0, <1>4 DEF HttpTypes
  <2>2. ASSUME NEW v \in HttpWorkers \ {w}
        PROVE  /\ worker[v].map # "none" => worker[v].at = "send"
               /\ worker[v].map = "lost" => httpHistory'.changed
               /\ ~httpHistory'.changed => /\ worker[v].at \in {"get", "send"} => worker[v].seen = file
                                           /\ worker[v].map = "held" => mapped = file
    <3>1. worker[v].at \in {"get", "send"} => busy
      BY DEF busy
    <3> QED BY <1>0, <1>2, <3>1 DEF MapsInv
  <2> QED BY <1>0, <1>4, <2>1, <2>2 DEF MapsInv
<1> QED BY <1>3, <1>5, <1>6, <1>7 DEF HttpInv

-----------------------------------------------------------------------------
LEMMA HttpStep == HttpInv /\ [HttpNext]_httpVars => HttpInv'
<1> SUFFICES ASSUME HttpInv, [HttpNext]_httpVars PROVE HttpInv'
  OBVIOUS
<1>1. CASE UNCHANGED httpVars
  BY <1>1 DEF HttpInv, HttpTypes, ServingInv, TokensInv, MapsInv, Alive, Serves, ClientOk, httpVars
<1>2. CASE HttpCreate \/ HttpClose \/ HttpClosed \/ FileChanges
  BY <1>2, HttpCreateStep, HttpCloseStep, HttpClosedStep, FileChangesStep
<1>3. CASE \E c \in Conns : ClientConnects(c) \/ ClientAsks(c) \/ ClientLeaves(c)
  BY <1>3, ClientStep
<1>4. ASSUME NEW w \in HttpWorkers, HttpWork(w) \/ WorkAcceptFails(w) \/ WorkInterrupted(w) PROVE HttpInv'
  BY <1>4, WorkLocksStep, WorkInterruptedStep, WorkTokenStep, WorkAcceptsStep, ReadsRequestStep, ReadsNothingStep, WorkEndsStep,
     WriteResponseStep, CacheStatStep, CacheGetStep, FileSentStep DEF HttpWork
<1> QED BY <1>1, <1>2, <1>3, <1>4 DEF HttpNext

LEMMA HttpHolds == HttpInv => ServerKeepsWord
<1> SUFFICES ASSUME HttpInv PROVE ServerKeepsWord
  OBVIOUS
<1>0. HttpTypes /\ ServingInv /\ TokensInv /\ MapsInv
  BY DEF HttpInv
<1>1. KeptWithinMax
  BY <1>0 DEF ServingInv, ClientOk, KeptWithinMax
<1>2. TokensMatchWorkers
  BY <1>0 DEF TokensInv, Alive, TokensMatchWorkers
<1>3. TurnedAwayByUnfit
  <2>1. httpHistory.dropped \subseteq Conns
    BY <1>0 DEF HttpTypes, Histories
  <2> QED BY <1>0, <2>1 DEF ServingInv, ClientOk, TurnedAwayByUnfit
<1>4. SentIsMapped
  BY <1>0 DEF MapsInv, SentIsMapped
<1> QED BY <1>1, <1>2, <1>3, <1>4 DEF ServerKeepsWord

(***************************************************************************)
(* The HTTP server of any number of workers, connections and requests      *)
(* keeps its word: no connection is given more than _keepMax answers       *)
(* before one said close, close() leaves a token for every worker that     *)
(* runs and none for the next create, nobody who asked is turned away but  *)
(* with its share used, told so, or by a worker whose stream an earlier    *)
(* connection left failed, and a worker sends from memory the cache still  *)
(* maps unless the file changed meanwhile.                                 *)
(***************************************************************************)
THEOREM HttpServerKeepsWord == HttpSpec => []ServerKeepsWord
<1>1. HttpSpec => []HttpInv
  BY HttpInitInv, HttpStep, PTL DEF HttpSpec
<1> QED BY <1>1, HttpHolds, PTL
-----------------------------------------------------------------------------
(***************************************************************************)
(* The HTTP client.  While a connection is up and no earlier one left an   *)
(* answer, the answers under way and the requests the server has are in    *)
(* the order they were sent, and are what the client waits for; and what   *)
(* the server announced last is on its way, or in keeps.                   *)
(***************************************************************************)
Piece == [n : Nat, part : {"head", "body"}, says : {"keep-alive", "close", "none"}]
FarType == [up : BOOLEAN, queue : Seq(Nat), told : BOOLEAN, answers : Nat, idle : 0..MaxAge, late : 0..MaxAge, wire : Seq(Piece)]
ClientTypes ==
    /\ stream \in [up : BOOLEAN, failed : BOOLEAN, area : Seq(Piece)]
    /\ keeps \in {NotKept, [timeout |-> AliveTime, max |-> AliveMax], [timeout |-> 0, max |-> 0]}
    /\ age \in 0..MaxAge /\ far \in FarType /\ requests \in Nat /\ waiting \in SUBSET Nat
    /\ outcome.mixed \in BOOLEAN /\ outcome.left \in BOOLEAN
    /\ DOMAIN outcome = {"dead", "mixed", "left"}

\* The places of the heads among the parts s of answers.
Heads(s) == {i \in 1..Len(s) : s[i].part = "head"}
Ordered(s, q) ==
    /\ \A i, j \in Heads(s) : i < j => s[i].n < s[j].n
    /\ \A i \in Heads(s) : \A j \in 1..Len(q) : s[i].n < q[j]
    /\ \A i, j \in 1..Len(q) : i < j => q[i] < q[j]
WaitedFor(s, q) == {s[i].n : i \in Heads(s)} \cup {q[i] : i \in 1..Len(q)}
LastSays(s) == \E i \in Heads(s) : s[i].says = "close" /\ \A j \in Heads(s) : j <= i
Announced(s, max) == LastSays(s) \/ (Heads(s) = {} /\ max = 0)
Closable == far.told \/ far.answers = AliveMax \/ (far.answers > 0 /\ far.idle >= AliveTime)

InTurn ==
    /\ Ordered(Incoming, far.queue)
    /\ waiting = WaitedFor(Incoming, far.queue) /\ \A m \in waiting : m <= requests
    /\ far.wire # <<>> => far.wire[1].part = "head"
    /\ far.told => Announced(Incoming, keeps.max)
    /\ far.answers > 0 /\ Heads(Incoming) = {} => far.idle <= age + far.late
    /\ ~far.up => Closable
ClientInv ==
    /\ ClientTypes /\ ReusedWhileKept /\ AnswersInOrder
    /\ stream.up /\ ~outcome.left => InTurn

\* The first part of the answers is taken.
LEMMA TakePiece ==
    ASSUME NEW s \in Seq(Piece), s # <<>>
    PROVE  /\ Tail(s) \in Seq(Piece) /\ Len(Tail(s)) = Len(s) - 1 /\ Len(s) \in Nat \ {0} /\ Head(s) \in Piece /\ Head(s) = s[1]
           /\ \A i \in 1..Len(Tail(s)) : Tail(s)[i] = s[i + 1]
           /\ \A i \in 1..Len(s) : s[i] \in Piece
  OBVIOUS

LEMMA TakeBody ==
    ASSUME NEW s \in Seq(Piece), s # <<>>, s[1].part # "head", NEW q \in Seq(Nat)
    PROVE  /\ Ordered(s, q) => Ordered(Tail(s), q)
           /\ WaitedFor(Tail(s), q) = WaitedFor(s, q)
           /\ Heads(Tail(s)) = {} <=> Heads(s) = {}
           /\ LastSays(s) => LastSays(Tail(s))
<1> DEFINE t == Tail(s)
<1>1. /\ t \in Seq(Piece) /\ Len(t) = Len(s) - 1 /\ Len(s) \in Nat \ {0} /\ Len(t) \in Nat
      /\ \A i \in 1..Len(t) : t[i] = s[i + 1]
      /\ \A i \in 1..Len(s) : s[i] \in Piece
  BY TakePiece
<1>2. \A i \in Heads(t) : i \in Nat /\ i + 1 \in Heads(s) /\ t[i] = s[i + 1]
  BY <1>1 DEF Heads
<1>3. \A i \in Heads(s) : i \in Nat /\ i - 1 \in Heads(t) /\ s[i] = t[i - 1]
  BY <1>1 DEF Heads
<1>4. Ordered(s, q) => Ordered(t, q)
  <2> SUFFICES ASSUME Ordered(s, q) PROVE Ordered(t, q)
    OBVIOUS
  <2>1. \A i, j \in Heads(t) : i < j => t[i].n < t[j].n
    <3> TAKE i, j \in Heads(t)
    <3> HAVE i < j
    <3>1. i + 1 < j + 1
      BY <1>2
    <3> QED BY <1>2, <3>1 DEF Ordered
  <2>2. \A i \in Heads(t) : \A j \in 1..Len(q) : t[i].n < q[j]
    BY <1>2 DEF Ordered
  <2> QED BY <2>1, <2>2 DEF Ordered
<1>5. WaitedFor(t, q) = WaitedFor(s, q)
  <2>1. \A i \in Heads(t) : \E j \in Heads(s) : t[i].n = s[j].n
    BY <1>2
  <2>2. \A i \in Heads(s) : \E j \in Heads(t) : s[i].n = t[j].n
    BY <1>3
  <2>3. \A m \in {t[i].n : i \in Heads(t)} : m \in {s[i].n : i \in Heads(s)}
    BY <2>1
  <2>4. \A m \in {s[i].n : i \in Heads(s)} : m \in {t[i].n : i \in Heads(t)}
    BY <2>2
  <2>5. {t[i].n : i \in Heads(t)} = {s[i].n : i \in Heads(s)}
    BY <2>3, <2>4
  <2> QED BY <2>5 DEF WaitedFor
<1>6. Heads(t) = {} <=> Heads(s) = {}
  BY <1>2, <1>3
<1>7. LastSays(s) => LastSays(t)
  <2> SUFFICES ASSUME NEW i \in Heads(s), s[i].says = "close", \A j \in Heads(s) : j <= i
               PROVE LastSays(t)
    BY DEF LastSays
  <2>1. i - 1 \in Heads(t) /\ t[i - 1].says = "close"
    BY <1>3
  <2>2. \A j \in Heads(t) : j <= i - 1
    <3> TAKE j \in Heads(t)
    <3>1. j \in Nat /\ i \in Nat /\ j + 1 <= i
      BY <1>2, <1>3
    <3> QED BY <3>1
  <2> QED BY <2>1, <2>2 DEF LastSays
<1> QED BY <1>4, <1>5, <1>6, <1>7

LEMMA TakeHead ==
    ASSUME NEW s \in Seq(Piece), s # <<>>, s[1].part = "head", NEW q \in Seq(Nat), Ordered(s, q)
    PROVE  /\ Ordered(Tail(s), q)
           /\ WaitedFor(Tail(s), q) = WaitedFor(s, q) \ {s[1].n}
           /\ s[1].n \in WaitedFor(s, q) /\ \A m \in WaitedFor(s, q) : s[1].n <= m
           /\ LastSays(s) => LastSays(Tail(s)) \/ (Heads(Tail(s)) = {} /\ s[1].says = "close")
           /\ Heads(s) # {}
<1> DEFINE t == Tail(s)
<1>1. /\ t \in Seq(Piece) /\ Len(t) = Len(s) - 1 /\ Len(s) \in Nat \ {0} /\ Len(t) \in Nat
      /\ \A i \in 1..Len(t) : t[i] = s[i + 1]
      /\ \A i \in 1..Len(s) : s[i] \in Piece
  BY TakePiece
<1>2. \A i \in Heads(t) : i \in Nat \ {0} /\ i + 1 \in Heads(s) /\ t[i] = s[i + 1] /\ t[i].n \in Nat
  BY <1>1 DEF Heads, Piece
<1>3. \A i \in Heads(s) : i = 1 \/ (i \in Nat /\ i > 1 /\ i - 1 \in Heads(t) /\ s[i] = t[i - 1])
  BY <1>1 DEF Heads
<1>4. 1 \in Heads(s) /\ s[1].n \in Nat /\ \A i \in 1..Len(q) : q[i] \in Nat
  BY <1>1 DEF Heads, Piece
<1>5. Ordered(t, q)
  <2>1. \A i, j \in Heads(t) : i < j => t[i].n < t[j].n
    <3> TAKE i, j \in Heads(t)
    <3> HAVE i < j
    <3>1. i + 1 < j + 1
      BY <1>2
    <3> QED BY <1>2, <3>1 DEF Ordered
  <2>2. \A i \in Heads(t) : \A j \in 1..Len(q) : t[i].n < q[j]
    BY <1>2 DEF Ordered
  <2> QED BY <2>1, <2>2 DEF Ordered
<1>6. \A i \in Heads(t) : s[1].n < t[i].n
  <2> TAKE i \in Heads(t)
  <2>0. i \in Nat \ {0} /\ i + 1 \in Heads(s) /\ t[i] = s[i + 1]
    BY <1>2
  <2>1. 1 < i + 1
    BY <2>0
  <2>2. s[1].n < s[i + 1].n
    BY <2>0, <2>1, <1>4 DEF Ordered
  <2> QED BY <2>0, <2>2
<1>7. \A j \in 1..Len(q) : s[1].n < q[j]
  BY <1>4 DEF Ordered
<1>8. {s[i].n : i \in Heads(s)} = {s[1].n} \cup {t[i].n : i \in Heads(t)}
  <2>1. \A i \in Heads(t) : \E j \in Heads(s) : t[i].n = s[j].n
    BY <1>2
  <2>2. \A i \in Heads(s) : s[i].n = s[1].n \/ \E j \in Heads(t) : s[i].n = t[j].n
    BY <1>3
  <2>3. \A m \in {t[i].n : i \in Heads(t)} : m \in {s[i].n : i \in Heads(s)}
    BY <2>1
  <2>4. \A m \in {s[i].n : i \in Heads(s)} : m \in {s[1].n} \cup {t[i].n : i \in Heads(t)}
    <3> SUFFICES ASSUME NEW i \in Heads(s) PROVE s[i].n \in {s[1].n} \cup {t[j].n : j \in Heads(t)}
      OBVIOUS
    <3> QED BY <2>2
  <2>5. s[1].n \in {s[i].n : i \in Heads(s)}
    BY <1>4
  <2> QED BY <2>3, <2>4, <2>5
<1>9. WaitedFor(s, q) = {s[1].n} \cup WaitedFor(t, q)
  BY <1>8 DEF WaitedFor
<1>10. \A m \in WaitedFor(t, q) : m \in Nat /\ s[1].n < m
  BY <1>6, <1>7, <1>2, <1>4 DEF WaitedFor
<1>11. s[1].n \notin WaitedFor(t, q)
  BY <1>10, <1>4
<1>12. WaitedFor(t, q) = WaitedFor(s, q) \ {s[1].n}
  BY <1>9, <1>11
<1>13. \A m \in WaitedFor(s, q) : s[1].n <= m
  BY <1>9, <1>10, <1>4
<1>14. LastSays(s) => LastSays(t) \/ (Heads(t) = {} /\ s[1].says = "close")
  <2> SUFFICES ASSUME NEW i \in Heads(s), s[i].says = "close", \A j \in Heads(s) : j <= i
               PROVE LastSays(t) \/ (Heads(t) = {} /\ s[1].says = "close")
    BY DEF LastSays
  <2>1. CASE i = 1
    <3>1. Heads(t) = {}
      <4> SUFFICES ASSUME NEW j \in Heads(t) PROVE FALSE
        OBVIOUS
      <4>1. j \in Nat \ {0} /\ j + 1 <= 1
        BY <1>2, <2>1
      <4> QED BY <4>1
    <3> QED BY <3>1, <2>1
  <2>2. CASE i # 1
    <3>1. i \in Nat /\ i - 1 \in Heads(t) /\ t[i - 1].says = "close"
      BY <1>3, <2>2
    <3>2. \A j \in Heads(t) : j <= i - 1
      <4> TAKE j \in Heads(t)
      <4>1. j \in Nat /\ j + 1 <= i
        BY <1>2
      <4> QED BY <4>1, <3>1
    <3> QED BY <3>1, <3>2 DEF LastSays
  <2> QED BY <2>1, <2>2
<1> QED BY <1>4, <1>5, <1>9, <1>12, <1>13, <1>14

\* An answer is added to those under way.
LEMMA AddAnswer ==
    ASSUME NEW s \in Seq(Piece), NEW q \in Seq(Nat), q # <<>>, Ordered(s, q), NEW h \in Piece, NEW b \in Piece,
           h.part = "head", h.n = Head(q), b.part = "body", NEW w \in {<<h>>, <<h, b>>}
    PROVE  /\ s \o w \in Seq(Piece) /\ Tail(q) \in Seq(Nat) /\ Ordered(s \o w, Tail(q))
           /\ WaitedFor(s \o w, Tail(q)) = WaitedFor(s, q)
           /\ Heads(s \o w) # {}
           /\ h.says = "close" => LastSays(s \o w)
<1> DEFINE t == s \o w
           p == Len(s) + 1
           r == Tail(q)
<1>1. Len(s) \in Nat /\ p \in Nat \ {0} /\ w \in Seq(Piece) /\ Len(w) \in {1, 2} /\ w[1] = h /\ (Len(w) = 2 => w[2] = b)
  <2>1. CASE w = <<h>>
    BY <2>1
  <2>2. CASE w = <<h, b>>
    BY <2>2
  <2> QED BY <2>1, <2>2
<1>2. t \in Seq(Piece) /\ Len(t) = Len(s) + Len(w)
  BY <1>1, ConcatProperties
<1>3. \A i \in 1..Len(t) : t[i] = IF i <= Len(s) THEN s[i] ELSE w[i - Len(s)]
  BY <1>1, ConcatProperties
<1>4. t[p] = h /\ p \in 1..Len(t)
  BY <1>1, <1>2, <1>3
<1>5. \A i \in 1..Len(s) : i \in 1..Len(t) /\ t[i] = s[i]
  BY <1>1, <1>2, <1>3
<1>6. \A i \in 1..Len(t) : i \in 1..Len(s) \/ i = p \/ (i = p + 1 /\ t[i] = b)
  BY <1>1, <1>2, <1>3
<1>7. Heads(t) = Heads(s) \cup {p}
  BY <1>4, <1>5, <1>6 DEF Heads
<1>8. /\ r \in Seq(Nat) /\ Len(q) \in Nat \ {0} /\ Len(r) = Len(q) - 1 /\ q[1] = Head(q)
      /\ \A i \in 1..Len(r) : r[i] = q[i + 1] /\ i + 1 \in 1..Len(q)
      /\ \A i \in 1..Len(q) : q[i] \in Nat /\ (i = 1 \/ (i - 1 \in 1..Len(r) /\ q[i] = r[i - 1]))
  OBVIOUS
<1>9. \A i \in Heads(s) : i \in 1..Len(s) /\ i < p /\ t[i] = s[i]
  BY <1>1, <1>5 DEF Heads
<1>10. Ordered(t, r)
  <2>1. \A i, j \in Heads(t) : i < j => t[i].n < t[j].n
    <3> TAKE i, j \in Heads(t)
    <3> HAVE i < j
    <3>1. i \in Heads(s)
      BY <1>7, <1>9, <1>1
    <3>2. CASE j \in Heads(s)
      BY <3>1, <3>2, <1>9 DEF Ordered
    <3>3. CASE j = p
      BY <3>1, <3>3, <1>9, <1>8, <1>4 DEF Ordered
    <3> QED BY <1>7, <3>2, <3>3
  <2>2. \A i \in Heads(t) : \A j \in 1..Len(r) : t[i].n < r[j]
    <3> TAKE i \in Heads(t)
    <3> TAKE j \in 1..Len(r)
    <3>1. CASE i \in Heads(s)
      BY <3>1, <1>9, <1>8 DEF Ordered
    <3>2. CASE i = p
      <4>1. 1 \in 1..Len(q) /\ j + 1 \in 1..Len(q) /\ 1 < j + 1
        BY <1>8
      <4>2. q[1] < q[j + 1]
        BY <4>1 DEF Ordered
      <4> QED BY <4>2, <1>8, <1>4, <3>2
    <3> QED BY <1>7, <3>1, <3>2
  <2>3. \A i, j \in 1..Len(r) : i < j => r[i] < r[j]
    <3> TAKE i, j \in 1..Len(r)
    <3> HAVE i < j
    <3>1. i + 1 \in 1..Len(q) /\ j + 1 \in 1..Len(q) /\ i + 1 < j + 1
      BY <1>8
    <3> QED BY <3>1, <1>8 DEF Ordered
  <2> QED BY <2>1, <2>2, <2>3 DEF Ordered
<1>11. WaitedFor(t, r) = WaitedFor(s, q)
  <2>1. {t[i].n : i \in Heads(t)} = {s[i].n : i \in Heads(s)} \cup {q[1]}
    BY <1>7, <1>9, <1>4, <1>8
  <2>2. {q[i] : i \in 1..Len(q)} = {q[1]} \cup {r[i] : i \in 1..Len(r)}
    <3>1. \A i \in 1..Len(q) : q[i] \in {q[1]} \cup {r[j] : j \in 1..Len(r)}
      BY <1>8
    <3>2. \A i \in 1..Len(r) : \E j \in 1..Len(q) : r[i] = q[j]
      BY <1>8
    <3>3. 1 \in 1..Len(q)
      BY <1>8
    <3> QED BY <3>1, <3>2, <3>3
  <2> QED BY <2>1, <2>2 DEF WaitedFor
<1>12. h.says = "close" => LastSays(t)
  <2> SUFFICES ASSUME h.says = "close" PROVE LastSays(t)
    OBVIOUS
  <2>1. p \in Heads(t) /\ t[p].says = "close"
    BY <1>4, <1>7
  <2>2. \A j \in Heads(t) : j <= p
    BY <1>7, <1>9, <1>1
  <2> QED BY <2>1, <2>2 DEF LastSays
<1> QED BY <1>2, <1>7, <1>8, <1>10, <1>11, <1>12

\* A request is added to those the server has.
LEMMA AddRequest ==
    ASSUME NEW s \in Seq(Piece), NEW q \in Seq(Nat), NEW r \in Nat, Ordered(s, q), \A m \in WaitedFor(s, q) : m <= r
    PROVE  /\ Append(q, r + 1) \in Seq(Nat) /\ Ordered(s, Append(q, r + 1))
           /\ WaitedFor(s, Append(q, r + 1)) = WaitedFor(s, q) \cup {r + 1}
           /\ \A m \in WaitedFor(s, q) \cup {r + 1} : m <= r + 1
<1> DEFINE p == Append(q, r + 1)
<1>1. /\ p \in Seq(Nat) /\ Len(p) = Len(q) + 1 /\ Len(q) \in Nat /\ p[Len(p)] = r + 1 /\ Len(p) \in 1..Len(p)
      /\ \A i \in 1..Len(q) : i \in 1..Len(p) /\ p[i] = q[i] /\ q[i] \in Nat
      /\ \A i \in 1..Len(p) : i = Len(p) \/ i \in 1..Len(q)
  OBVIOUS
<1>2. \A i \in Heads(s) : s[i].n \in Nat /\ s[i].n \in WaitedFor(s, q)
  <2>1. \A i \in Heads(s) : s[i] \in Piece
    BY DEF Heads
  <2>2. \A i \in Heads(s) : s[i].n \in Nat
    BY <2>1 DEF Piece
  <2> QED BY <2>2 DEF WaitedFor
<1>3. \A i \in 1..Len(q) : q[i] \in WaitedFor(s, q)
  BY DEF WaitedFor
<1>4. \A m \in WaitedFor(s, q) : m \in Nat /\ m < r + 1
  <2>1. \A m \in WaitedFor(s, q) : m \in Nat
    BY <1>1, <1>2 DEF WaitedFor
  <2> QED BY <2>1
<1>5. Ordered(s, p)
  <2>1. \A i \in Heads(s) : \A j \in 1..Len(p) : s[i].n < p[j]
    BY <1>1, <1>2, <1>4 DEF Ordered
  <2>2. \A i, j \in 1..Len(p) : i < j => p[i] < p[j]
    <3> TAKE i, j \in 1..Len(p)
    <3> HAVE i < j
    <3>1. i \in 1..Len(q)
      BY <1>1
    <3> QED BY <3>1, <1>1, <1>3, <1>4 DEF Ordered
  <2> QED BY <2>1, <2>2 DEF Ordered
<1>6. {p[i] : i \in 1..Len(p)} = {q[i] : i \in 1..Len(q)} \cup {r + 1}
  BY <1>1
<1>7. WaitedFor(s, p) = WaitedFor(s, q) \cup {r + 1}
  BY <1>6 DEF WaitedFor
<1>8. \A m \in WaitedFor(s, q) \cup {r + 1} : m <= r + 1
  BY <1>4
<1> QED BY <1>1, <1>5, <1>7, <1>8

\* A new connection has no answers, and the request sent on it, if any.
LEMMA FirstRequest ==
    ASSUME NEW r \in Nat, NEW q \in {<<>>, <<r + 1>>}
    PROVE  /\ q \in Seq(Nat) /\ Ordered(<<>>, q) /\ WaitedFor(<<>>, q) = Range(q) /\ Range(q) \in SUBSET Nat
           /\ \A m \in Range(q) : m <= r + 1
           /\ Heads(<<>>) = {}
<1>1. Heads(<<>>) = {} /\ Len(<<>>) = 0 /\ 1..0 = {}
  BY DEF Heads
<1>2. CASE q = <<>>
  BY <1>1, <1>2 DEF Ordered, WaitedFor, Range
<1>3. CASE q = <<r + 1>>
  <2>1. Len(q) = 1 /\ 1..Len(q) = {1} /\ q[1] = r + 1 /\ DOMAIN q = {1} /\ q \in Seq(Nat)
    BY <1>3
  <2> QED BY <1>1, <2>1 DEF Ordered, WaitedFor, Range
<1> QED BY <1>2, <1>3
-----------------------------------------------------------------------------
LEMMA IncomingType ==
    ASSUME ClientTypes
    PROVE  /\ stream.area \in Seq(Piece) /\ far.wire \in Seq(Piece) /\ far.queue \in Seq(Nat)
           /\ stream.up \in BOOLEAN /\ stream.failed \in BOOLEAN
           /\ far.up \in BOOLEAN /\ far.told \in BOOLEAN /\ far.answers \in Nat /\ far.idle \in 0..MaxAge /\ far.late \in 0..MaxAge
           /\ Incoming \in Seq(Piece)
<1>1. stream.area \in Seq(Piece) /\ stream.up \in BOOLEAN /\ stream.failed \in BOOLEAN
  BY DEF ClientTypes
<1>2. far.wire \in Seq(Piece) /\ far.queue \in Seq(Nat)
  BY DEF ClientTypes, FarType
<1>3. far.up \in BOOLEAN /\ far.told \in BOOLEAN
  BY DEF ClientTypes, FarType
<1>4. far.answers \in Nat /\ far.idle \in 0..MaxAge /\ far.late \in 0..MaxAge
  BY DEF ClientTypes, FarType
<1>5. Incoming \in Seq(Piece)
  BY <1>1, <1>2, ConcatProperties DEF Incoming
<1> QED BY <1>1, <1>2, <1>3, <1>4, <1>5

LEMMA FarDownType == FarDown \in FarType
  BY AliveAssumption, EmptySeq DEF FarDown, FarType

LEMMA ClientInitInv == ClientInit => ClientInv
<1> SUFFICES ASSUME ClientInit PROVE ClientInv
  OBVIOUS
<1>1. stream \in [up : BOOLEAN, failed : BOOLEAN, area : Seq(Piece)]
  BY EmptySeq DEF ClientInit
<1>2. ClientTypes
  BY <1>1, FarDownType, AliveAssumption DEF ClientInit, ClientTypes
<1>3. ReusedWhileKept /\ AnswersInOrder /\ ~stream.up
  BY DEF ClientInit, ReusedWhileKept, AnswersInOrder
<1> QED BY <1>2, <1>3 DEF ClientInv

LEMMA SendOnInv == ClientInv /\ SendOn => ClientInv'
<1> SUFFICES ASSUME ClientInv, SendOn PROVE ClientInv'
  OBVIOUS
<1>1. ClientTypes /\ requests' = requests + 1 /\ UNCHANGED <<stream, keeps, age>> /\ requests \in Nat /\ ~NeedReconnection
  BY DEF ClientInv, SendOn, ClientTypes
<1>2. CASE stream.failed
  <2>1. UNCHANGED <<far, waiting, outcome>>
    BY <1>2 DEF SendOn
  <2>2. ClientTypes'
    BY <2>1, <1>1 DEF ClientTypes
  <2>3. Incoming' = Incoming /\ Closable' = Closable
    BY <2>1, <1>1 DEF Incoming, Closable
  <2>4. InTurn => InTurn'
    <3> SUFFICES ASSUME InTurn PROVE InTurn'
      OBVIOUS
    <3>1. \A m \in waiting : m <= requests + 1
      BY <1>1 DEF InTurn, ClientTypes
    <3> QED BY <3>1, <2>1, <2>3, <1>1 DEF InTurn
  <2> QED BY <2>1, <2>2, <2>4, <1>1 DEF ClientInv, ReusedWhileKept, AnswersInOrder
<1>3. CASE ~stream.failed
  <2>1. /\ waiting' = waiting \cup {requests + 1}
        /\ far' = [far EXCEPT !.queue = Append(far.queue, requests + 1)]
        /\ outcome' = [outcome EXCEPT !.dead = IF far.up THEN outcome.dead ELSE
                    <<[answers |-> far.answers, told |-> far.told, age |-> age, late |-> far.late,
                       ahead |-> waiting # {} \/ stream.area # <<>> \/ outcome.left]>>]
    BY <1>3 DEF SendOn
  <2>2. /\ outcome'.mixed = outcome.mixed /\ outcome'.left = outcome.left /\ DOMAIN outcome' = DOMAIN outcome
        /\ outcome'.dead = IF far.up THEN outcome.dead ELSE
                    <<[answers |-> far.answers, told |-> far.told, age |-> age, late |-> far.late,
                       ahead |-> waiting # {} \/ stream.area # <<>> \/ outcome.left]>>
    BY <2>1, <1>1 DEF ClientTypes
  <2>3. /\ far'.queue = Append(far.queue, requests + 1) /\ far'.up = far.up /\ far'.told = far.told
        /\ far'.answers = far.answers /\ far'.idle = far.idle /\ far'.late = far.late /\ far'.wire = far.wire
    BY <2>1, <1>1 DEF ClientTypes, FarType
  <2>4. far' \in FarType
    <3>1. Append(far.queue, requests + 1) \in Seq(Nat)
      BY <1>1, IncomingType
    <3> QED BY <3>1, <2>1, <1>1 DEF ClientTypes, FarType
  <2>5. waiting' \in SUBSET Nat /\ requests' \in Nat
    BY <2>1, <1>1 DEF ClientTypes
  <2>6. ClientTypes'
    BY <2>2, <2>4, <2>5, <1>1 DEF ClientTypes
  <2>7. AnswersInOrder'
    BY <2>2 DEF ClientInv, AnswersInOrder
  <2>8. ReusedWhileKept'
    <3>1. CASE far.up
      BY <3>1, <2>2 DEF ReusedWhileKept, ClientInv
    <3>2. CASE ~far.up
      <4> DEFINE d == [answers |-> far.answers, told |-> far.told, age |-> age, late |-> far.late,
                       ahead |-> waiting # {} \/ stream.area # <<>> \/ outcome.left]
      <4>1. outcome'.dead = <<d>>
        BY <2>2, <3>2
      <4>2. ~d.ahead => ~d.told /\ (d.answers = AliveMax \/ (d.age <= AliveTime /\ d.age + d.late >= AliveTime))
        <5> SUFFICES ASSUME ~d.ahead PROVE ~far.told /\ (far.answers = AliveMax \/ (age <= AliveTime /\ age + far.late >= AliveTime))
          OBVIOUS
        <5>1. waiting = {} /\ stream.area = <<>> /\ ~outcome.left /\ stream.up
          BY <1>1 DEF NeedReconnection
        <5>2. InTurn
          BY <5>1 DEF ClientInv
        <5>3. WaitedFor(Incoming, far.queue) = {}
          BY <5>1, <5>2 DEF InTurn
        <5>4. Heads(Incoming) = {}
          BY <5>3 DEF WaitedFor
        <5>5. keeps.max # 0 /\ ~(keeps.timeout < age)
          BY <1>1 DEF NeedReconnection, Expired
        <5>6. ~far.told
          BY <5>2, <5>4, <5>5 DEF InTurn, Announced, LastSays
        <5>7. far.answers = AliveMax \/ (far.answers > 0 /\ far.idle >= AliveTime)
          BY <5>6, <3>2, <5>2 DEF InTurn, Closable
        <5>8. far.answers > 0 => far.idle <= age + far.late
          BY <5>2, <5>4 DEF InTurn
        <5>9. age \in 0..MaxAge /\ far.idle \in 0..MaxAge /\ far.late \in 0..MaxAge /\ far.answers \in Nat
          BY <1>1, IncomingType DEF ClientTypes
        <5>10. keeps.timeout \in {0, AliveTime}
          BY <1>1 DEF ClientTypes, NotKept
        <5> HIDE DEF d
        <5>11. age <= AliveTime
          BY <5>10, <5>5, <5>9, AliveAssumption
        <5>12. far.idle >= AliveTime /\ far.idle <= age + far.late => age + far.late >= AliveTime
          BY <5>9, AliveAssumption
        <5> QED BY <5>6, <5>7, <5>8, <5>11, <5>12
      <4>3. DOMAIN outcome'.dead = {1} /\ outcome'.dead[1] = d
        BY <4>1
      <4> QED BY <4>2, <4>3 DEF ReusedWhileKept
    <3> QED BY <3>1, <3>2
  <2>9. InTurn => InTurn'
    <3> SUFFICES ASSUME InTurn PROVE InTurn'
      OBVIOUS
    <3>1. Incoming' = Incoming /\ Closable' = Closable
      BY <2>3, <1>1 DEF Incoming, Closable
    <3>2. PICK s \in Seq(Piece) : s = Incoming
      BY <1>1, IncomingType
    <3>3. PICK q \in Seq(Nat) : q = far.queue
      BY <1>1, IncomingType
    <3>4. PICK r \in Nat : r = requests
      BY <1>1
    <3>5. /\ Ordered(s, Append(q, r + 1))
          /\ WaitedFor(s, Append(q, r + 1)) = WaitedFor(s, q) \cup {r + 1}
          /\ \A m \in WaitedFor(s, q) \cup {r + 1} : m <= r + 1
      BY AddRequest, <3>2, <3>3, <3>4 DEF InTurn
    <3>6. Ordered(Incoming', far'.queue)
      BY <3>1, <3>2, <3>3, <3>4, <3>5, <2>3
    <3>7. waiting' = WaitedFor(Incoming', far'.queue) /\ \A m \in waiting' : m <= requests'
      BY <3>1, <3>2, <3>3, <3>4, <3>5, <2>3, <2>1, <1>1 DEF InTurn
    <3> QED BY <3>1, <3>6, <3>7, <2>3, <1>1 DEF InTurn
  <2> QED BY <2>2, <2>6, <2>7, <2>8, <2>9, <1>1 DEF ClientInv
<1> QED BY <1>2, <1>3

LEMMA SendAnewInv == ClientInv /\ SendAnew => ClientInv'
<1> SUFFICES ASSUME ClientInv, SendAnew PROVE ClientInv'
  OBVIOUS
<1>1. PICK works \in BOOLEAN :
        /\ Reconnect(works) /\ requests' = requests + 1
        /\ LET sent == IF works /\ ~stream.failed THEN <<requests + 1>> ELSE <<>>
           IN  waiting' = Range(sent) /\ far' = [FarDown EXCEPT !.up = works, !.queue = sent]
        /\ outcome' = [outcome EXCEPT !.left = outcome.left \/ stream.area # <<>>]
        /\ UNCHANGED age
  BY DEF SendAnew
<1>2. ClientTypes /\ requests \in Nat
  BY DEF ClientInv, ClientTypes
<1>3. PICK q \in {<<>>, <<requests + 1>>} : waiting' = Range(q) /\ far' = [FarDown EXCEPT !.up = works, !.queue = q]
  BY <1>1
<1>4. /\ q \in Seq(Nat) /\ Ordered(<<>>, q) /\ WaitedFor(<<>>, q) = Range(q) /\ Range(q) \in SUBSET Nat
      /\ \A m \in Range(q) : m <= requests + 1
      /\ Heads(<<>>) = {}
  BY <1>2, <1>3, FirstRequest
<1>5. far' = [up |-> works, queue |-> q, told |-> FALSE, answers |-> 0, idle |-> 0, late |-> 0, wire |-> <<>>]
  BY <1>3 DEF FarDown
<1>6. far' \in FarType
  BY <1>5, <1>4, <1>1, AliveAssumption, EmptySeq DEF FarType
<1>7. stream' \in [up : BOOLEAN, failed : BOOLEAN, area : Seq(Piece)] /\ keeps' = NotKept /\ stream'.area = stream.area /\ stream'.up = works
  BY <1>1, <1>2 DEF Reconnect, ClientTypes
<1>8. /\ outcome'.mixed = outcome.mixed /\ outcome'.left = (outcome.left \/ stream.area # <<>>) /\ DOMAIN outcome' = DOMAIN outcome
      /\ outcome'.dead = outcome.dead
  BY <1>1, <1>2 DEF ClientTypes
<1>9. ClientTypes'
  BY <1>1, <1>2, <1>3, <1>4, <1>6, <1>7, <1>8 DEF ClientTypes
<1>10. ReusedWhileKept' /\ AnswersInOrder'
  BY <1>8 DEF ClientInv, ReusedWhileKept, AnswersInOrder
<1>11. stream'.up /\ ~outcome'.left => InTurn'
  <2> SUFFICES ASSUME stream'.up, ~outcome'.left PROVE InTurn'
    OBVIOUS
  <2>1. stream'.area = <<>>
    BY <1>7, <1>8
  <2>2. Incoming' = <<>>
    BY <2>1, <1>5 DEF Incoming
  <2> QED BY <2>2, <1>7, <1>5, <1>4, <1>3, <1>1 DEF InTurn
<1> QED BY <1>9, <1>10, <1>11 DEF ClientInv

LEMMA OneOrTwo ==
    ASSUME NEW h \in Piece, NEW b \in Piece, NEW w \in {<<h>>, <<h, b>>}
    PROVE  w \in Seq(Piece) /\ w[1] = h
<1>1. CASE w = <<h>>
  BY <1>1
<1>2. CASE w = <<h, b>>
  BY <1>2
<1> QED BY <1>1, <1>2

LEMMA ServerAnswersInv == ClientInv /\ ServerAnswers => ClientInv'
<1> SUFFICES ASSUME ClientInv, ServerAnswers PROVE ClientInv'
  OBVIOUS
<1>1. PICK says \in {"keep-alive", "close", "none"}, body \in BOOLEAN :
        far' = [far EXCEPT !.told = (says = "close"), !.answers = far.answers + 1, !.idle = 0, !.queue = Tail(far.queue),
                           !.wire = IF body THEN <<[n |-> Head(far.queue), part |-> "head", says |-> says],
                                                   [n |-> Head(far.queue), part |-> "body", says |-> "none"]>>
                                            ELSE <<[n |-> Head(far.queue), part |-> "head", says |-> says]>>]
  BY DEF ServerAnswers
<1>2. far.up /\ far.queue # <<>> /\ far.wire = <<>> /\ UNCHANGED <<stream, keeps, age, requests, waiting, outcome>>
  BY DEF ServerAnswers
<1>3. ClientTypes
  BY DEF ClientInv
<1>4. PICK q \in Seq(Nat) : q = far.queue
  BY <1>3, IncomingType
<1> DEFINE h == [n |-> Head(q), part |-> "head", says |-> says]
           b == [n |-> Head(q), part |-> "body", says |-> "none"]
<1>5. Head(q) \in Nat /\ h \in Piece /\ b \in Piece
  BY <1>2, <1>4 DEF Piece
<1>6. PICK w \in {<<h>>, <<h, b>>} :
        far' = [far EXCEPT !.told = (says = "close"), !.answers = far.answers + 1, !.idle = 0, !.queue = Tail(q), !.wire = w]
  BY <1>1, <1>4
<1>7. /\ far'.told = (says = "close") /\ far'.answers = far.answers + 1 /\ far'.idle = 0 /\ far'.queue = Tail(q) /\ far'.wire = w
      /\ far'.up = far.up /\ far'.late = far.late
  BY <1>6, <1>3 DEF ClientTypes, FarType
<1>8. w \in Seq(Piece) /\ w[1] = h
  BY <1>5, OneOrTwo
<1>9. far' \in FarType
  <2>1. Tail(q) \in Seq(Nat) /\ 0 \in 0..MaxAge /\ far.answers + 1 \in Nat
    BY <1>2, <1>4, <1>3, IncomingType, AliveAssumption
  <2> HIDE DEF h, b
  <2> QED BY <2>1, <1>6, <1>8, <1>3 DEF ClientTypes, FarType
<1>10. ClientTypes'
  BY <1>9, <1>2, <1>3 DEF ClientTypes
<1>11. InTurn => InTurn'
  <2> SUFFICES ASSUME InTurn PROVE InTurn'
    OBVIOUS
  <2>1. PICK s \in Seq(Piece) : s = stream.area
    BY <1>3, IncomingType
  <2>2. Incoming = s /\ Incoming' = s \o w
    BY <2>1, <1>2, <1>7 DEF Incoming
  <2>3. h.part = "head" /\ h.n = Head(q) /\ b.part = "body" /\ h.says = says
    OBVIOUS
  <2> HIDE DEF h, b
  <2>4. Ordered(s, q) /\ q # <<>>
    BY <2>2, <1>4, <1>2 DEF InTurn
  <2>5. /\ Ordered(s \o w, Tail(q)) /\ WaitedFor(s \o w, Tail(q)) = WaitedFor(s, q)
        /\ Heads(s \o w) # {} /\ (h.says = "close" => LastSays(s \o w))
    BY AddAnswer, <2>3, <2>4, <1>5
  <2>6. Ordered(Incoming', far'.queue) /\ waiting' = WaitedFor(Incoming', far'.queue) /\ \A m \in waiting' : m <= requests'
    BY <2>2, <2>5, <1>7, <1>4, <1>2 DEF InTurn
  <2>7. far'.wire[1].part = "head" /\ (far'.told => Announced(Incoming', keeps'.max)) /\ Heads(Incoming') # {} /\ far'.up
    BY <2>2, <2>3, <2>5, <1>7, <1>8, <1>2 DEF Announced
  <2> QED BY <2>6, <2>7 DEF InTurn
<1> QED BY <1>2, <1>10, <1>11 DEF ClientInv, ReusedWhileKept, AnswersInOrder

LEMMA ServerClosesInv == ClientInv /\ ServerCloses => ClientInv'
<1> SUFFICES ASSUME ClientInv, ServerCloses PROVE ClientInv'
  OBVIOUS
<1>1. ClientTypes /\ far' = [far EXCEPT !.up = FALSE] /\ Closable /\ UNCHANGED <<stream, keeps, age, requests, waiting, outcome>>
  BY DEF ClientInv, ServerCloses, Closable
<1>2. /\ far'.told = far.told /\ far'.answers = far.answers /\ far'.idle = far.idle /\ far'.queue = far.queue /\ far'.wire = far.wire
      /\ far'.late = far.late /\ far' \in FarType
  BY <1>1 DEF ClientTypes, FarType
<1>3. ClientTypes'
  BY <1>1, <1>2 DEF ClientTypes
<1>4. Incoming' = Incoming /\ Closable'
  BY <1>1, <1>2 DEF Incoming, Closable
<1>5. InTurn => InTurn'
  BY <1>1, <1>2, <1>4 DEF InTurn
<1> QED BY <1>1, <1>3, <1>5 DEF ClientInv, ReusedWhileKept, AnswersInOrder

LEMMA SecondPassesInv == ClientInv /\ SecondPasses => ClientInv'
<1> SUFFICES ASSUME ClientInv, SecondPasses PROVE ClientInv'
  OBVIOUS
<1>1. /\ ClientTypes /\ UNCHANGED <<stream, keeps, requests, waiting, outcome>>
      /\ age' = (IF age < MaxAge THEN age + 1 ELSE age)
      /\ far' = [far EXCEPT !.idle = IF far.idle < MaxAge THEN far.idle + 1 ELSE far.idle]
  BY DEF ClientInv, SecondPasses
<1>2. /\ far'.told = far.told /\ far'.answers = far.answers /\ far'.queue = far.queue /\ far'.wire = far.wire
      /\ far'.late = far.late /\ far'.up = far.up
      /\ far'.idle = IF far.idle < MaxAge THEN far.idle + 1 ELSE far.idle
  BY <1>1 DEF ClientTypes, FarType
<1>3. age \in 0..MaxAge /\ far.idle \in 0..MaxAge /\ far.late \in 0..MaxAge /\ far.answers \in Nat
  BY <1>1, IncomingType DEF ClientTypes
<1>4. PICK a, i, l \in 0..MaxAge : a = age /\ i = far.idle /\ l = far.late
  BY <1>3
<1>5. /\ age' \in 0..MaxAge /\ far'.idle \in 0..MaxAge
      /\ i <= a + l => far'.idle <= age' + l
      /\ i >= AliveTime => far'.idle >= AliveTime
  BY <1>1, <1>2, <1>4, AliveAssumption
<1>6. far' \in FarType
  BY <1>1, <1>2, <1>5 DEF ClientTypes, FarType
<1>7. ClientTypes'
  BY <1>1, <1>5, <1>6 DEF ClientTypes
<1>8. Incoming' = Incoming
  BY <1>1, <1>2 DEF Incoming
<1>9. Closable => Closable'
  BY <1>2, <1>4, <1>5 DEF Closable
<1>10. InTurn => InTurn'
  BY <1>1, <1>2, <1>4, <1>5, <1>8, <1>9 DEF InTurn
<1> QED BY <1>1, <1>7, <1>10 DEF ClientInv, ReusedWhileKept, AnswersInOrder

LEMMA ReceiveInv == ClientInv /\ Receive => ClientInv'
<1> SUFFICES ASSUME ClientInv, Receive PROVE ClientInv'
  OBVIOUS
<1>1. ClientTypes /\ stream.up /\ UNCHANGED requests /\ far' = [far EXCEPT !.wire = <<>>, !.late = far.idle] /\ Incoming # <<>>
  BY DEF ClientInv, Receive
<1>2. PICK s \in Seq(Piece) : s = Incoming
  BY <1>1, IncomingType
<1>3. s # <<>> /\ Tail(s) \in Seq(Piece) /\ Head(s) = s[1] /\ s[1] \in Piece
  BY <1>1, <1>2, TakePiece
<1>4. PICK q \in Seq(Nat) : q = far.queue
  BY <1>1, IncomingType
<1>5. /\ far'.told = far.told /\ far'.answers = far.answers /\ far'.queue = q /\ far'.wire = <<>>
      /\ far'.late = far.idle /\ far'.idle = far.idle /\ far'.up = far.up
  BY <1>1, <1>4 DEF ClientTypes, FarType
<1>6. far' \in FarType
  BY <1>1, EmptySeq DEF ClientTypes, FarType
<1>7. stream' = [stream EXCEPT !.area = Tail(s)]
  BY <1>2 DEF Receive
<1>8. stream' \in [up : BOOLEAN, failed : BOOLEAN, area : Seq(Piece)] /\ stream'.up /\ stream'.area = Tail(s)
  BY <1>1, <1>3, <1>7 DEF ClientTypes
<1>9. Incoming' = Tail(s)
  BY <1>3, <1>5, <1>8 DEF Incoming
<1>10. age \in 0..MaxAge /\ far.idle \in 0..MaxAge /\ 0 \in 0..MaxAge
  BY <1>1, IncomingType, AliveAssumption DEF ClientTypes
<1>11. Closable' = Closable
  BY <1>5 DEF Closable
<1>12. CASE s[1].part = "head"
  <2>1. /\ keeps' = ReceivedKeep(s[1].says) /\ age' = 0 /\ waiting' = waiting \ {s[1].n}
        /\ outcome' = [outcome EXCEPT !.mixed = outcome.mixed \/ ~OldestIs(s[1].n)]
    BY <1>12, <1>2, <1>3 DEF Receive
  <2>2. /\ outcome'.mixed = (outcome.mixed \/ ~OldestIs(s[1].n)) /\ outcome'.left = outcome.left /\ outcome'.dead = outcome.dead
        /\ DOMAIN outcome' = DOMAIN outcome
    BY <2>1, <1>1 DEF ClientTypes
  <2>3. OldestIs(s[1].n) \in BOOLEAN
    BY DEF OldestIs
  <2>4. /\ keeps' \in {NotKept, [timeout |-> AliveTime, max |-> AliveMax], [timeout |-> 0, max |-> 0]}
        /\ s[1].says = "close" => keeps'.max = 0
    BY <2>1, <1>1, <1>3 DEF ClientTypes, ReceivedKeep, Piece
  <2>5. ClientTypes'
    BY <2>1, <2>2, <2>3, <2>4, <1>1, <1>6, <1>8, <1>10 DEF ClientTypes
  <2>6. ReusedWhileKept'
    BY <2>2 DEF ClientInv, ReusedWhileKept
  <2>7. CASE outcome.left
    BY <2>7, <2>2, <2>5, <2>6 DEF ClientInv, AnswersInOrder
  <2>8. CASE ~outcome.left
    <3>1. InTurn
      BY <2>8, <1>1 DEF ClientInv
    <3>2. /\ Ordered(Tail(s), q)
          /\ WaitedFor(Tail(s), q) = WaitedFor(s, q) \ {s[1].n}
          /\ s[1].n \in WaitedFor(s, q) /\ \A m \in WaitedFor(s, q) : s[1].n <= m
          /\ LastSays(s) => LastSays(Tail(s)) \/ (Heads(Tail(s)) = {} /\ s[1].says = "close")
          /\ Heads(s) # {}
      BY TakeHead, <1>2, <1>3, <1>4, <1>12, <3>1 DEF InTurn
    <3>3. OldestIs(s[1].n)
      BY <3>1, <3>2, <1>2, <1>4 DEF InTurn, OldestIs
    <3>4. AnswersInOrder'
      BY <3>3, <2>2 DEF ClientInv, AnswersInOrder
    <3>5. Ordered(Incoming', far'.queue) /\ waiting' = WaitedFor(Incoming', far'.queue) /\ \A m \in waiting' : m <= requests'
      BY <3>1, <3>2, <2>1, <1>1, <1>2, <1>4, <1>5, <1>9 DEF InTurn
    <3>6. far'.told => Announced(Incoming', keeps'.max)
      BY <3>1, <3>2, <2>4, <1>2, <1>5, <1>9 DEF InTurn, Announced
    <3>7. far'.idle <= age' + far'.late
      BY <1>5, <1>10, <2>1
    <3>8. InTurn'
      BY <3>1, <3>5, <3>6, <3>7, <1>5, <1>11 DEF InTurn
    <3> QED BY <3>4, <3>8, <2>5, <2>6 DEF ClientInv
  <2> QED BY <2>7, <2>8
<1>13. CASE s[1].part # "head"
  <2>1. UNCHANGED <<keeps, age, waiting, outcome>>
    BY <1>13, <1>2, <1>3 DEF Receive
  <2>2. ClientTypes'
    BY <2>1, <1>1, <1>6, <1>8 DEF ClientTypes
  <2>3. ReusedWhileKept' /\ AnswersInOrder'
    BY <2>1 DEF ClientInv, ReusedWhileKept, AnswersInOrder
  <2>4. InTurn => InTurn'
    <3> SUFFICES ASSUME InTurn PROVE InTurn'
      OBVIOUS
    <3>1. /\ Ordered(s, q) => Ordered(Tail(s), q)
          /\ WaitedFor(Tail(s), q) = WaitedFor(s, q)
          /\ Heads(Tail(s)) = {} <=> Heads(s) = {}
          /\ LastSays(s) => LastSays(Tail(s))
      BY TakeBody, <1>3, <1>13
    <3>2. Ordered(Incoming', far'.queue) /\ waiting' = WaitedFor(Incoming', far'.queue) /\ \A m \in waiting' : m <= requests'
      BY <3>1, <2>1, <1>1, <1>2, <1>4, <1>5, <1>9 DEF InTurn
    <3>3. far'.told => Announced(Incoming', keeps'.max)
      BY <3>1, <2>1, <1>2, <1>5, <1>9 DEF InTurn, Announced
    <3>4. far'.idle <= age' + far'.late
      BY <1>5, <1>10, <2>1
    <3> QED BY <3>2, <3>3, <3>4, <1>5, <1>11 DEF InTurn
  <2> QED BY <2>1, <2>2, <2>3, <2>4, <1>1 DEF ClientInv
<1> QED BY <1>12, <1>13

\* The connection is given up.
LEMMA GivenUpInv ==
    ASSUME ClientInv, waiting' = {}, far' = FarDown, UNCHANGED <<age, requests, outcome>>,
           NEW f \in BOOLEAN, stream' = [stream EXCEPT !.up = FALSE, !.failed = f], keeps' \in {keeps, NotKept}
    PROVE  ClientInv'
<1>1. ClientTypes
  BY DEF ClientInv
<1>2. stream' \in [up : BOOLEAN, failed : BOOLEAN, area : Seq(Piece)] /\ ~stream'.up
  BY <1>1 DEF ClientTypes
<1>3. ClientTypes'
  BY <1>1, <1>2, FarDownType DEF ClientTypes
<1> QED BY <1>2, <1>3 DEF ClientInv, ReusedWhileKept, AnswersInOrder

LEMMA ReadBodyInv == ClientInv /\ ReadBody => ClientInv'
<1> SUFFICES ASSUME ClientInv, ReadBody PROVE ClientInv'
  OBVIOUS
<1>1. /\ ClientTypes /\ stream.area # <<>> /\ Head(stream.area).part = "body" /\ stream' = [stream EXCEPT !.area = Tail(stream.area)]
      /\ UNCHANGED <<keeps, age, far, requests, waiting, outcome>>
  BY DEF ClientInv, ReadBody
<1>2. PICK a \in Seq(Piece) : a = stream.area
  BY <1>1, IncomingType
<1>3. PICK w \in Seq(Piece) : w = far.wire
  BY <1>1, IncomingType
<1>4. PICK q \in Seq(Nat) : q = far.queue
  BY <1>1, IncomingType
<1>5. a # <<>> /\ Tail(a) \in Seq(Piece) /\ a[1].part = "body"
  BY <1>1, <1>2
<1>6. a \o w \in Seq(Piece) /\ a \o w # <<>> /\ (a \o w)[1] = a[1] /\ Tail(a \o w) = Tail(a) \o w
  BY <1>5
<1>7. stream' \in [up : BOOLEAN, failed : BOOLEAN, area : Seq(Piece)] /\ stream'.up = stream.up /\ stream'.area = Tail(a)
  BY <1>1, <1>2, <1>5 DEF ClientTypes
<1>8. ClientTypes'
  BY <1>1, <1>7 DEF ClientTypes
<1>9. InTurn => InTurn'
  <2> SUFFICES ASSUME InTurn PROVE InTurn'
    OBVIOUS
  <2>1. Incoming = a \o w /\ Incoming' = Tail(a \o w)
    BY <1>1, <1>2, <1>3, <1>6, <1>7 DEF Incoming
  <2>2. PICK s \in Seq(Piece) : s = a \o w
    BY <1>6
  <2>3. s # <<>> /\ s[1].part # "head"
    BY <2>2, <1>5, <1>6
  <2>4. /\ Ordered(s, q) => Ordered(Tail(s), q)
        /\ WaitedFor(Tail(s), q) = WaitedFor(s, q)
        /\ Heads(Tail(s)) = {} <=> Heads(s) = {}
        /\ LastSays(s) => LastSays(Tail(s))
    BY TakeBody, <2>3
  <2>5. Ordered(Incoming', far'.queue) /\ waiting' = WaitedFor(Incoming', far'.queue) /\ \A m \in waiting' : m <= requests'
    BY <2>1, <2>2, <2>4, <1>1, <1>4 DEF InTurn
  <2>6. far'.told => Announced(Incoming', keeps'.max)
    BY <2>1, <2>2, <2>4, <1>1 DEF InTurn, Announced
  <2>7. Closable' = Closable
    BY <1>1 DEF Closable
  <2>8. far'.answers > 0 /\ Heads(Incoming') = {} => far'.idle <= age' + far'.late
    BY <2>1, <2>2, <2>4, <1>1 DEF InTurn
  <2> QED BY <2>5, <2>6, <2>7, <2>8, <1>1 DEF InTurn
<1> QED BY <1>1, <1>7, <1>8, <1>9 DEF ClientInv, ReusedWhileKept, AnswersInOrder

LEMMA ClearStateInv == ClientInv /\ ClearState => ClientInv'
<1> SUFFICES ASSUME ClientInv, ClearState PROVE ClientInv'
  OBVIOUS
<1>1. ClientTypes /\ stream' = [stream EXCEPT !.failed = FALSE] /\ UNCHANGED <<keeps, age, far, requests, waiting, outcome>>
  BY DEF ClientInv, ClearState
<1>2. stream' \in [up : BOOLEAN, failed : BOOLEAN, area : Seq(Piece)] /\ stream'.up = stream.up /\ stream'.area = stream.area
  BY <1>1 DEF ClientTypes
<1>3. ClientTypes' /\ Incoming' = Incoming /\ Closable' = Closable
  BY <1>1, <1>2 DEF ClientTypes, Incoming, Closable
<1>4. InTurn => InTurn'
  BY <1>1, <1>3 DEF InTurn
<1> QED BY <1>1, <1>2, <1>3, <1>4 DEF ClientInv, ReusedWhileKept, AnswersInOrder

LEMMA ClientNextInv == ClientInv /\ [ClientNext]_clientVars => ClientInv'
<1> SUFFICES ASSUME ClientInv, [ClientNext]_clientVars PROVE ClientInv'
  OBVIOUS
<1>1. CASE SendOn
  BY <1>1, SendOnInv
<1>2. CASE SendAnew
  BY <1>2, SendAnewInv
<1>3. CASE ServerAnswers
  BY <1>3, ServerAnswersInv
<1>4. CASE ServerCloses
  BY <1>4, ServerClosesInv
<1>5. CASE SecondPasses
  BY <1>5, SecondPassesInv
<1>6. CASE Receive
  BY <1>6, ReceiveInv
<1>7. CASE ReceiveNothing
  <2>1. stream' = [stream EXCEPT !.up = FALSE, !.failed = TRUE] /\ waiting' = {} /\ far' = FarDown /\ UNCHANGED <<keeps, age, requests, outcome>>
    BY <1>7 DEF ReceiveNothing
  <2> QED BY <2>1, GivenUpInv
<1>8. CASE ReadBody
  BY <1>8, ReadBodyInv
<1>9. CASE ClearState
  BY <1>9, ClearStateInv
<1>10. CASE ClientCloses
  <2>1. stream' = [stream EXCEPT !.up = FALSE] /\ waiting' = {} /\ far' = FarDown /\ keeps' = NotKept /\ UNCHANGED <<age, requests, outcome>>
    BY <1>10 DEF ClientCloses
  <2>2. stream \in [up : BOOLEAN, failed : BOOLEAN, area : Seq(Piece)]
    BY DEF ClientInv, ClientTypes
  <2>3. PICK f \in BOOLEAN : f = stream.failed
    BY <2>2
  <2>4. stream' = [stream EXCEPT !.up = FALSE, !.failed = f]
    BY <2>1, <2>2, <2>3
  <2> QED BY <2>1, <2>4, GivenUpInv
<1>11. CASE UNCHANGED clientVars
  <2>1. UNCHANGED <<stream, keeps, age, far, requests, waiting, outcome>>
    BY <1>11 DEF clientVars
  <2>2. ClientTypes' = ClientTypes /\ Incoming' = Incoming /\ Closable' = Closable
    BY <2>1 DEF ClientTypes, Incoming, Closable
  <2>3. InTurn' = InTurn
    BY <2>1, <2>2 DEF InTurn
  <2> QED BY <2>1, <2>2, <2>3 DEF ClientInv, ReusedWhileKept, AnswersInOrder
<1> QED BY <1>1, <1>2, <1>3, <1>4, <1>5, <1>6, <1>7, <1>8, <1>9, <1>10, <1>11 DEF ClientNext
-----------------------------------------------------------------------------
(***************************************************************************)
(* The SMTP client.  A mail without a dotted line reaches the server whole *)
(* or not at all: TextInv follows the command data and the text behind it  *)
(* from the client's lines into what the server took.  A send that began   *)
(* with no reply of an earlier one has one command or one reply under way  *)
(* (Lock), until a dotted line of its mail ends the text early: then an    *)
(* answer 500 is, or will be, the next one read.  Cover follows an offer   *)
(* of STARTTLS until the client takes it up or gives up.                   *)
(***************************************************************************)
\* The steps that are one command and one reply.
Steps0 == {"ehlo", "starttls", "login", "password", "from", "to", "data"}
TextLines == {"head", "text", ".", "quit"}
Line == Steps0 \cup TextLines
ReplyLine == [code : {220, 221, 235, 250, 334, 354, 500}, last : BOOLEAN, offers : BOOLEAN]
HasDot(c) == \E i \in 1..Len(c) : c[i] = "."
Dotted == HasDot(mail)
HeadOf(c) == <<"head">> \o c
TextOf(c) == <<"head">> \o (c \o <<".">>)
Whole == HeadOf(mail)

SmtpTypes ==
    /\ step \in {"idle", "greeting", "text", "quit"} \cup Steps0
    /\ mail \in Seq({"text", "."}) /\ lines \in Seq(Line) /\ secure \in BOOLEAN
    /\ session \in [up : BOOLEAN, at : {"command", "text"}, text : Seq(Line), taken : Seq(Seq(Line)), offers : Nat]
    /\ mailHistory \in [result : {-1, 0, 1}, exposed : BOOLEAN, offered : BOOLEAN, stale : BOOLEAN, dotted : BOOLEAN]
    /\ mailHistory.stale \/ Dotted => mailHistory.dotted
    /\ step = "idle" => lines = <<>> /\ ~session.up

\* What was written after the command data.
SentText == CASE step = "text" -> TextOf(mail) [] step = "quit" -> TextOf(mail) \o <<"quit">> [] OTHER -> <<>>
\* The command data is the line p, and no other; it is none.
DataAt(l, p) == p \in 1..Len(l) /\ \A i \in 1..Len(l) : l[i] = "data" <=> i = p
NoData(l) == \A i \in 1..Len(l) : l[i] # "data"
LinesAfter(l, p) == SubSeq(l, p + 1, Len(l))
NotYet ==
    /\ session.at = "command" /\ session.taken = <<>> /\ session.text = <<>>
    /\ \/ step \notin {"data", "text", "quit"} /\ NoData(lines)
       \/ step \in {"data", "text", "quit"} /\ \E p \in 1..Len(lines) : DataAt(lines, p) /\ LinesAfter(lines, p) = SentText
TakesText ==
    /\ session.at = "text" /\ session.taken = <<>> /\ session.text \o lines = SentText
    /\ ~HasDot(session.text)
PastText == session.at = "command" /\ NoData(lines) /\ session.taken \in {<<>>, <<Whole>>}
TextInv == ~Dotted =>
    \/ step = "idle" /\ session.taken \in {<<>>, <<Whole>>}
    \/ step # "idle" /\ NotYet
    \/ step \in {"data", "text", "quit"} /\ (TakesText \/ PastText)

\* The next reply is a refusal, or will be: the server sees text for a command.
Bad(a, l) == IF a = <<>> THEN l # <<>> /\ l[1] \in {"text", "."} ELSE a[1].code = 500 /\ a[1].last
\* One command is under way, or its reply.
Asked == lines = <<step>> /\ Arrived = <<>> /\ session.at = "command"
ReplyIn ==
    /\ lines = <<>> /\ Arrived # <<>>
    /\ IF step = "ehlo" THEN Len(Arrived) = 2 /\ ~Arrived[1].last /\ ~Arrived[1].offers /\ Arrived[2].last
                        ELSE Len(Arrived) = 1 /\ Arrived[1].last
    /\ session.at = IF step = "data" /\ Arrived[1].code = 354 THEN "text" ELSE "command"
InCommands == session.text = <<>> /\ session.taken = <<>> /\ (Asked \/ ReplyIn)
InText ==
    \/ TakesText /\ Arrived = <<>>
    \/ /\ session.at = "command" /\ Arrived # <<>> /\ Arrived[1].last /\ lines \in Seq(TextLines)
       /\ IF Dotted THEN Bad(Tail(Arrived), lines)
                    ELSE lines = <<>> /\ Len(Arrived) = 1 /\ (Arrived[1].code = 250 => session.taken = <<Whole>>)
InQuit ==
    /\ session.at = "command" /\ lines \in Seq(TextLines)
    /\ IF Dotted THEN Bad(Arrived, lines)
                 ELSE session.taken = <<Whole>> /\ (Asked \/ ReplyIn)
Lock ==
    /\ repliesRead \in Seq(ReplyLine) /\ replies \in Seq(ReplyLine) /\ Arrived \in Seq(ReplyLine)
    /\ CASE step \in Steps0 \cup {"greeting"} -> InCommands [] step = "text" -> InText [] step = "quit" -> InQuit [] OTHER -> TRUE
Cover ==
    /\ mailHistory.offered /\ ~secure => step \in {"starttls", "idle"} \/ (step = "ehlo" /\ ReplyIn /\ Arrived[2].offers)
    /\ mailHistory.exposed => ~mailHistory.offered /\ step \notin {"greeting", "ehlo", "starttls", "login"}
AcceptedWhole == step = "idle" /\ mailHistory.result = 0 /\ ~mailHistory.stale => session.taken = <<Whole>>
SmtpInv ==
    /\ SmtpTypes /\ TextInv /\ AcceptedWhole /\ RepliesConsumed
    /\ ~mailHistory.stale => Lock /\ Cover
-----------------------------------------------------------------------------
MailLines == {"text", "."}

LEMMA Joined ==
    ASSUME NEW S, NEW a \in Seq(S), NEW b \in Seq(S)
    PROVE  /\ a \o b \in Seq(S) /\ Len(a \o b) = Len(a) + Len(b)
           /\ \A i \in 1..Len(a \o b) : (a \o b)[i] = IF i <= Len(a) THEN a[i] ELSE b[i - Len(a)]
  BY ConcatProperties

LEMMA SeqNarrows ==
    ASSUME NEW S, NEW T, NEW s \in Seq(S), \A i \in 1..Len(s) : s[i] \in T
    PROVE  s \in Seq(T)
  OBVIOUS

LEMMA TextFacts ==
    ASSUME NEW c \in Seq(MailLines)
    PROVE  /\ TextOf(c) \in Seq(TextLines) /\ Len(TextOf(c)) = Len(c) + 2 /\ TextOf(c)[1] = "head"
           /\ \A i \in 1..Len(c) : TextOf(c)[i + 1] = c[i] /\ c[i] \in MailLines
           /\ TextOf(c)[Len(c) + 2] = "."
           /\ HeadOf(c) \in Seq(TextLines) /\ Len(HeadOf(c)) = Len(c) + 1
           /\ \A i \in 1..(Len(c) + 1) : HeadOf(c)[i] = TextOf(c)[i]
<1> DEFINE d == c \o <<".">>
           w == TextOf(c)
           v == HeadOf(c)
<1>1. <<"head">> \in Seq(TextLines) /\ Len(<<"head">>) = 1 /\ <<"head">>[1] = "head"
  BY DEF TextLines
<1>2. <<".">> \in Seq(TextLines) /\ Len(<<".">>) = 1 /\ <<".">>[1] = "."
  BY DEF TextLines
<1>3. c \in Seq(TextLines) /\ Len(c) \in Nat /\ \A i \in 1..Len(c) : c[i] \in MailLines
  BY DEF TextLines, MailLines
<1>4. /\ d \in Seq(TextLines) /\ Len(d) = Len(c) + 1
      /\ \A i \in 1..Len(d) : d[i] = IF i <= Len(c) THEN c[i] ELSE <<".">>[i - Len(c)]
  BY <1>2, <1>3, ConcatProperties
<1>5. d[Len(c) + 1] = "." /\ \A i \in 1..Len(c) : d[i] = c[i]
  BY <1>2, <1>3, <1>4
<1> HIDE DEF d
<1>6. /\ w \in Seq(TextLines) /\ Len(w) = Len(d) + 1
      /\ \A i \in 1..Len(w) : w[i] = IF i <= 1 THEN <<"head">>[i] ELSE d[i - 1]
  <2>1. w = <<"head">> \o d
    BY DEF TextOf, d
  <2> QED BY <2>1, <1>1, <1>4, ConcatProperties
<1>7. /\ v \in Seq(TextLines) /\ Len(v) = Len(c) + 1
      /\ \A i \in 1..Len(v) : v[i] = IF i <= 1 THEN <<"head">>[i] ELSE c[i - 1]
  BY <1>1, <1>3, ConcatProperties DEF HeadOf
<1>8. w[1] = "head" /\ \A i \in 1..Len(c) : w[i + 1] = c[i]
  BY <1>1, <1>3, <1>4, <1>5, <1>6
<1>9. w[Len(c) + 2] = "."
  <2>1. Len(c) + 2 \in 1..Len(w) /\ ~(Len(c) + 2 <= 1) /\ (Len(c) + 2) - 1 = Len(c) + 1
    BY <1>3, <1>4, <1>6
  <2> QED BY <2>1, <1>5, <1>6
<1>10. \A i \in 1..(Len(c) + 1) : v[i] = w[i]
  <2> TAKE i \in 1..(Len(c) + 1)
  <2>1. CASE i = 1
    BY <2>1, <1>1, <1>7, <1>8, <1>3
  <2>2. CASE i # 1
    <3>1. i - 1 \in 1..Len(c) /\ i \in 1..Len(v) /\ i \in 1..Len(w) /\ ~(i <= 1)
      BY <2>2, <1>3, <1>4, <1>6, <1>7
    <3> QED BY <3>1, <1>5, <1>6, <1>7
  <2> QED BY <2>1, <2>2
<1> HIDE DEF w, v
<1> QED BY <1>3, <1>4, <1>6, <1>7, <1>8, <1>9, <1>10 DEF w, v

\* The server takes the first line that is a dot: the text is whole, or the mail goes on after it.
LEMMA FirstDot ==
    ASSUME NEW c \in Seq(MailLines), NEW x \in {<<>>, <<"quit">>}, NEW t \in Seq(Line), NEW l \in Seq(Line),
           t \o l = TextOf(c) \o x, ~HasDot(t), l # <<>>, Head(l) = "."
    PROVE  /\ ~HasDot(c) => t = HeadOf(c) /\ (x = <<>> => Tail(l) = <<>>)
           /\ HasDot(c) => Tail(l) # <<>> /\ Tail(l)[1] \in MailLines
           /\ Tail(l) \in Seq(TextLines)
<1> DEFINE w == TextOf(c) \o x
           n == Len(t)
           k == Len(c)
<1>1. x \in Seq(TextLines) /\ Len(x) \in {0, 1} /\ (x = <<>> <=> Len(x) = 0)
  <2>1. CASE x = <<>>
    BY <2>1
  <2>2. CASE x = <<"quit">>
    BY <2>2 DEF TextLines
  <2> QED BY <2>1, <2>2
<1>2. /\ TextOf(c) \in Seq(TextLines) /\ Len(TextOf(c)) = k + 2 /\ k \in Nat /\ n \in Nat
      /\ \A i \in 1..k : TextOf(c)[i + 1] = c[i] /\ c[i] \in MailLines
      /\ TextOf(c)[k + 2] = "." /\ TextOf(c)[1] = "head"
  BY TextFacts
<1>3. /\ w \in Seq(TextLines) /\ Len(w) = k + 2 + Len(x)
      /\ \A i \in 1..Len(w) : w[i] = IF i <= k + 2 THEN TextOf(c)[i] ELSE x[i - (k + 2)]
  <2> DEFINE v == TextOf(c)
  <2>1. v \in Seq(TextLines) /\ Len(v) = k + 2 /\ Len(x) \in Nat
    BY <1>1, <1>2
  <2> HIDE DEF v, k
  <2>2. /\ v \o x \in Seq(TextLines) /\ Len(v \o x) = Len(v) + Len(x)
        /\ \A i \in 1..Len(v \o x) : (v \o x)[i] = IF i <= Len(v) THEN v[i] ELSE x[i - Len(v)]
    BY <2>1, <1>1, Joined
  <2> QED BY <2>1, <2>2 DEF v
<1>4. Len(l) \in Nat \ {0} /\ l[1] = "." /\ Tail(l) \in Seq(Line) /\ Len(Tail(l)) = Len(l) - 1
      /\ \A i \in 1..Len(Tail(l)) : Tail(l)[i] = l[i + 1]
  OBVIOUS
<1>5. /\ Len(w) = n + Len(l)
      /\ \A i \in 1..Len(w) : w[i] = IF i <= n THEN t[i] ELSE l[i - n]
  <2>1. w = t \o l
    OBVIOUS
  <2> HIDE DEF w
  <2> QED BY <2>1, ConcatProperties
<1> HIDE DEF w, n, k
<1>6. n + 1 \in 1..Len(w) /\ w[n + 1] = "."
  <2>1. n + 1 \in 1..Len(w) /\ ~(n + 1 <= n) /\ (n + 1) - n = 1
    BY <1>2, <1>4, <1>5
  <2> QED BY <2>1, <1>4, <1>5
<1>7. \A i \in 1..n : i \in 1..Len(w) /\ w[i] = t[i] /\ w[i] # "."
  BY <1>2, <1>4, <1>5 DEF HasDot, n
<1>8. k + 2 \in 1..Len(w) /\ w[k + 2] = "."
  BY <1>1, <1>2, <1>3
<1>9. n <= k + 1
  <2>1. ~(k + 2 \in 1..n)
    BY <1>7, <1>8
  <2> QED BY <2>1, <1>2
<1>10. \A i \in 1..(k + 2) : i \in 1..Len(w) /\ w[i] = TextOf(c)[i]
  BY <1>1, <1>2, <1>3
<1>11. Tail(l) \in Seq(TextLines)
  <2>1. \A i \in 1..Len(Tail(l)) : Tail(l)[i] \in TextLines
    <3> TAKE i \in 1..Len(Tail(l))
    <3>1. n + i + 1 \in 1..Len(w) /\ ~(n + i + 1 <= n) /\ (n + i + 1) - n = i + 1
      BY <1>2, <1>4, <1>5
    <3>2. w[n + i + 1] = l[i + 1]
      BY <3>1, <1>5
    <3>3. w[n + i + 1] \in TextLines
      BY <3>1, <1>3
    <3> QED BY <3>2, <3>3, <1>4
  <2> QED BY <2>1, <1>4, SeqNarrows
<1>12. ~HasDot(c) => t = HeadOf(c) /\ (x = <<>> => Tail(l) = <<>>)
  <2> SUFFICES ASSUME ~HasDot(c) PROVE t = HeadOf(c) /\ (x = <<>> => Tail(l) = <<>>)
    OBVIOUS
  <2>1. n = k + 1
    <3> SUFFICES ASSUME n # k + 1 PROVE FALSE
      OBVIOUS
    <3>1. n + 1 \in 1..(k + 2) /\ n \in 0..k
      BY <1>2, <1>9
    <3>2. TextOf(c)[n + 1] = "."
      BY <3>1, <1>6, <1>10
    <3>3. CASE n = 0
      BY <3>2, <3>3, <1>2
    <3>4. CASE n # 0
      <4>1. n \in 1..k
        BY <3>1, <3>4
      <4>2. c[n] = "."
        BY <4>1, <3>2, <1>2
      <4> QED BY <4>1, <4>2 DEF HasDot, k
    <3> QED BY <3>3, <3>4
  <2>2. HeadOf(c) \in Seq(TextLines) /\ Len(HeadOf(c)) = k + 1 /\ \A i \in 1..(k + 1) : HeadOf(c)[i] = TextOf(c)[i]
    BY TextFacts DEF k
  <2>3. \A i \in 1..Len(t) : t[i] = HeadOf(c)[i]
    <3> TAKE i \in 1..Len(t)
    <3>1. i \in 1..n /\ i \in 1..(k + 1) /\ i \in 1..(k + 2)
      BY <2>1, <1>2 DEF n
    <3> QED BY <3>1, <2>2, <1>7, <1>10
  <2>4. t = HeadOf(c)
    <3>1. HeadOf(c) \in Seq(Line) /\ Len(t) = Len(HeadOf(c))
      BY <2>1, <2>2 DEF n, Line
    <3> QED BY <3>1, <2>3, SeqEqual
  <2>5. x = <<>> => Tail(l) = <<>>
    <3> SUFFICES ASSUME x = <<>> PROVE Tail(l) = <<>>
      OBVIOUS
    <3>1. Len(l) = 1
      BY <2>1, <1>1, <1>2, <1>3, <1>4, <1>5
    <3>2. Len(Tail(l)) = 0
      BY <3>1, <1>4
    <3> QED BY <3>2, <1>4, EmptySeq
  <2> QED BY <2>4, <2>5
<1>13. HasDot(c) => Tail(l) # <<>> /\ Tail(l)[1] \in MailLines
  <2> SUFFICES ASSUME HasDot(c) PROVE Tail(l) # <<>> /\ Tail(l)[1] \in MailLines
    OBVIOUS
  <2>1. PICK m \in 1..k : c[m] = "."
    BY DEF HasDot, k
  <2>2. m + 1 \in 1..(k + 2) /\ TextOf(c)[m + 1] = "."
    BY <2>1, <1>2
  <2>3. ~(m + 1 \in 1..n)
    BY <2>2, <1>7, <1>10
  <2>4. n <= m /\ m <= k /\ m \in Nat
    BY <2>3, <2>1, <1>2
  <2>5. Len(l) >= 2
    BY <2>4, <1>1, <1>2, <1>3, <1>4, <1>5
  <2>6. Tail(l) # <<>> /\ Tail(l)[1] = l[2]
    <3>1. PICK b \in Seq(Line) : b = Tail(l)
      BY <1>4
    <3>2. 1 \in 1..Len(b) /\ Len(b) > 0 /\ b[1] = l[1 + 1]
      BY <2>5, <3>1, <1>4
    <3>3. b # <<>>
      BY <3>2
    <3> QED BY <3>1, <3>2, <3>3
  <2>7. n + 2 \in 1..(k + 2) /\ n + 2 \in 1..Len(w) /\ ~(n + 2 <= n) /\ (n + 2) - n = 2
    BY <2>4, <1>1, <1>2, <1>3
  <2>8. l[2] = TextOf(c)[n + 2]
    BY <2>7, <1>5, <1>10
  <2>9. CASE n + 2 = k + 2
    BY <2>9, <2>8, <2>6, <1>2 DEF MailLines
  <2>10. CASE n + 2 # k + 2
    <3>1. n + 1 \in 1..k /\ (n + 1) + 1 = n + 2
      BY <2>10, <2>7, <1>2
    <3>2. TextOf(c)[n + 2] = c[n + 1] /\ c[n + 1] \in MailLines
      BY <3>1, <1>2
    <3> QED BY <3>2, <2>8, <2>6
  <2> QED BY <2>9, <2>10
<1> QED BY <1>11, <1>12, <1>13

\* The server takes a line of the text.
LEMMA ShiftLine ==
    ASSUME NEW t \in Seq(Line), NEW l \in Seq(Line), l # <<>>
    PROVE  /\ Append(t, Head(l)) \in Seq(Line) /\ Tail(l) \in Seq(Line) /\ Append(t, Head(l)) \o Tail(l) = t \o l
           /\ ~HasDot(t) /\ Head(l) # "." => ~HasDot(Append(t, Head(l)))
<1> DEFINE a == Append(t, Head(l))
           b == Tail(l)
<1>1. /\ Len(l) \in Nat \ {0} /\ Len(t) \in Nat /\ b \in Seq(Line) /\ Len(b) = Len(l) - 1 /\ Head(l) = l[1] /\ Head(l) \in Line
      /\ \A i \in 1..Len(b) : b[i] = l[i + 1]
  OBVIOUS
<1>2. /\ a \in Seq(Line) /\ Len(a) = Len(t) + 1 /\ a[Len(t) + 1] = l[1]
      /\ \A i \in 1..Len(t) : a[i] = t[i]
  BY <1>1
<1> HIDE DEF a, b
<1>3. /\ a \o b \in Seq(Line) /\ Len(a \o b) = Len(a) + Len(b)
      /\ \A i \in 1..(Len(a) + Len(b)) : (a \o b)[i] = IF i <= Len(a) THEN a[i] ELSE b[i - Len(a)]
  BY <1>1, <1>2, ConcatProperties
<1>4. /\ t \o l \in Seq(Line) /\ Len(t \o l) = Len(t) + Len(l)
      /\ \A i \in 1..(Len(t) + Len(l)) : (t \o l)[i] = IF i <= Len(t) THEN t[i] ELSE l[i - Len(t)]
  BY <1>1, ConcatProperties
<1>5. \A i \in 1..Len(a \o b) : (a \o b)[i] = (t \o l)[i]
  <2> TAKE i \in 1..Len(a \o b)
  <2>1. i \in 1..(Len(a) + Len(b)) /\ i \in 1..(Len(t) + Len(l))
    BY <1>1, <1>2, <1>3
  <2>2. CASE i <= Len(t)
    <3>1. i <= Len(a) /\ i \in 1..Len(t)
      BY <2>1, <2>2, <1>1, <1>2
    <3> QED BY <3>1, <2>1, <2>2, <1>2, <1>3, <1>4
  <2>3. CASE i = Len(t) + 1
    <3>1. i <= Len(a) /\ ~(i <= Len(t)) /\ i - Len(t) = 1
      BY <2>3, <1>1, <1>2
    <3> QED BY <3>1, <2>1, <2>3, <1>2, <1>3, <1>4
  <2>4. CASE i > Len(t) + 1
    <3>1. ~(i <= Len(a)) /\ ~(i <= Len(t)) /\ (i - Len(a)) + 1 = i - Len(t) /\ i - Len(a) \in 1..Len(b)
      BY <2>1, <2>4, <1>1, <1>2
    <3> QED BY <3>1, <2>1, <1>1, <1>3, <1>4
  <2> QED BY <2>1, <2>2, <2>3, <2>4, <1>1
<1>6. a \o b = t \o l
  <2>1. Len(a \o b) = Len(t \o l)
    BY <1>1, <1>2, <1>3, <1>4
  <2> QED BY <2>1, <1>3, <1>4, <1>5, SeqEqual
<1>7. ~HasDot(t) /\ l[1] # "." => ~HasDot(a)
  <2> SUFFICES ASSUME ~HasDot(t), l[1] # ".", NEW i \in 1..Len(a), a[i] = "." PROVE FALSE
    BY DEF HasDot
  <2>1. i \in 1..Len(t) \/ i = Len(t) + 1
    BY <1>1, <1>2
  <2> QED BY <2>1, <1>2 DEF HasDot
<1> QED BY <1>1, <1>2, <1>6, <1>7 DEF a, b

\* Where the command data is, as lines are written and taken.
LEMMA DataTail ==
    ASSUME NEW l \in Seq(Line), l # <<>>
    PROVE  /\ NoData(l) => NoData(Tail(l)) /\ Head(l) # "data"
           /\ \A p \in 1..Len(l) : DataAt(l, p) =>
                \/ p = 1 /\ Head(l) = "data" /\ NoData(Tail(l)) /\ LinesAfter(l, p) = Tail(l)
                \/ Head(l) # "data" /\ p - 1 \in 1..Len(Tail(l)) /\ DataAt(Tail(l), p - 1) /\ LinesAfter(Tail(l), p - 1) = LinesAfter(l, p)
<1> DEFINE b == Tail(l)
<1>1. /\ Len(l) \in Nat \ {0} /\ b \in Seq(Line) /\ Len(b) = Len(l) - 1 /\ Head(l) = l[1] /\ 1 \in 1..Len(l)
      /\ \A i \in 1..Len(b) : b[i] = l[i + 1] /\ i + 1 \in 1..Len(l)
  OBVIOUS
<1> HIDE DEF b
<1>2. NoData(l) => NoData(b) /\ l[1] # "data"
  BY <1>1 DEF NoData
<1>3. ASSUME NEW p \in 1..Len(l), DataAt(l, p)
      PROVE  \/ p = 1 /\ l[1] = "data" /\ NoData(b) /\ LinesAfter(l, p) = b
             \/ l[1] # "data" /\ p - 1 \in 1..Len(b) /\ DataAt(b, p - 1) /\ LinesAfter(b, p - 1) = LinesAfter(l, p)
  <2>1. \A i \in 1..Len(l) : l[i] = "data" <=> i = p
    BY <1>3 DEF DataAt
  <2>2. CASE p = 1
    <3>1. NoData(b)
      <4> SUFFICES ASSUME NEW i \in 1..Len(b), b[i] = "data" PROVE FALSE
        BY DEF NoData
      <4>1. i + 1 = 1
        BY <1>1, <2>1, <2>2
      <4> QED BY <4>1
    <3>2. LinesAfter(l, 1) = b
      BY DEF LinesAfter, b
    <3> QED BY <3>1, <3>2, <2>1, <2>2, <1>1
  <2>3. CASE p # 1
    <3>1. p \in Nat /\ p > 1 /\ p - 1 \in 1..Len(b) /\ (p - 1) + 1 = p
      BY <2>3, <1>1
    <3>2. DataAt(b, p - 1)
      <4>1. \A i \in 1..Len(b) : b[i] = "data" <=> i = p - 1
        <5> TAKE i \in 1..Len(b)
        <5>1. b[i] = "data" <=> i + 1 = p
          BY <1>1, <2>1
        <5> QED BY <5>1, <3>1
      <4> QED BY <4>1, <3>1 DEF DataAt
    <3>3. LinesAfter(b, p - 1) = LinesAfter(l, p)
      <4>1. LinesAfter(b, p - 1) = [i \in 1..(Len(b) - p + 1) |-> b[i + p - 1]]
        BY <3>1, <1>1 DEF LinesAfter
      <4>2. LinesAfter(l, p) = [i \in 1..(Len(l) - p) |-> l[i + p]]
        BY <3>1, <1>1 DEF LinesAfter
      <4>3. Len(b) - p + 1 = Len(l) - p
        BY <3>1, <1>1
      <4>4. \A i \in 1..(Len(l) - p) : b[i + p - 1] = l[i + p]
        <5> TAKE i \in 1..(Len(l) - p)
        <5>1. i + p - 1 \in 1..Len(b) /\ (i + p - 1) + 1 = i + p
          BY <3>1, <1>1
        <5> QED BY <5>1, <1>1
      <4> QED BY <4>1, <4>2, <4>3, <4>4
    <3>4. l[1] # "data"
      BY <2>1, <2>3, <1>1
    <3> QED BY <3>1, <3>2, <3>3, <3>4
  <2> QED BY <2>2, <2>3
<1> QED BY <1>1, <1>2, <1>3 DEF b

LEMMA LinesAfterFacts ==
    ASSUME NEW s \in Seq(Line), NEW p \in 1..Len(s)
    PROVE  LinesAfter(s, p) \in Seq(Line) /\ Len(LinesAfter(s, p)) = Len(s) - p /\ \A i \in 1..(Len(s) - p) : LinesAfter(s, p)[i] = s[i + p]
  BY SubSeqProperties DEF LinesAfter

LEMMA DataAppend ==
    ASSUME NEW l \in Seq(Line), NEW m \in Seq(Line)
    PROVE  /\ l \o m \in Seq(Line)
           /\ NoData(m) => /\ NoData(l) => NoData(l \o m)
                           /\ \A p \in 1..Len(l) : DataAt(l, p) =>
                                p \in 1..Len(l \o m) /\ DataAt(l \o m, p) /\ LinesAfter(l \o m, p) = LinesAfter(l, p) \o m
           /\ NoData(l) /\ m = <<"data">> =>
                \E p \in 1..Len(l \o m) : DataAt(l \o m, p) /\ LinesAfter(l \o m, p) = <<>>
<1> DEFINE a == l \o m
<1>1. /\ a \in Seq(Line) /\ Len(a) = Len(l) + Len(m) /\ Len(l) \in Nat /\ Len(m) \in Nat
      /\ \A i \in 1..Len(a) : a[i] = IF i <= Len(l) THEN l[i] ELSE m[i - Len(l)]
  BY ConcatProperties
<1> HIDE DEF a
<1>2. \A i \in 1..Len(a) : (i \in 1..Len(l) /\ a[i] = l[i]) \/ (i > Len(l) /\ i - Len(l) \in 1..Len(m) /\ a[i] = m[i - Len(l)])
  BY <1>1
<1>3. NoData(m) /\ NoData(l) => NoData(a)
  BY <1>2 DEF NoData
<1>4. ASSUME NoData(m), NEW p \in 1..Len(l), DataAt(l, p)
      PROVE  p \in 1..Len(a) /\ DataAt(a, p) /\ LinesAfter(a, p) = LinesAfter(l, p) \o m
  <2>1. p \in 1..Len(a) /\ p \in Nat
    BY <1>1
  <2>2. \A i \in 1..Len(a) : a[i] = "data" <=> i = p
    <3> TAKE i \in 1..Len(a)
    <3>1. CASE i \in 1..Len(l) /\ a[i] = l[i]
      BY <3>1, <1>4 DEF DataAt
    <3>2. CASE i > Len(l) /\ i - Len(l) \in 1..Len(m) /\ a[i] = m[i - Len(l)]
      <4>1. a[i] # "data"
        BY <3>2, <1>4 DEF NoData
      <4>2. i # p
        BY <3>2, <1>1
      <4> QED BY <4>1, <4>2
    <3> QED BY <3>1, <3>2, <1>2
  <2>3. DataAt(a, p)
    BY <2>1, <2>2 DEF DataAt
  <2>4. LinesAfter(a, p) = LinesAfter(l, p) \o m
    <3> DEFINE x == LinesAfter(l, p)
               y == LinesAfter(a, p)
    <3>1. x \in Seq(Line) /\ Len(x) = Len(l) - p /\ \A i \in 1..(Len(l) - p) : x[i] = l[i + p]
      BY <1>1, LinesAfterFacts
    <3>2. y \in Seq(Line) /\ Len(y) = Len(a) - p /\ \A i \in 1..(Len(a) - p) : y[i] = a[i + p]
      BY <1>1, <2>1, LinesAfterFacts
    <3> HIDE DEF x, y
    <3>3. /\ x \o m \in Seq(Line) /\ Len(x \o m) = Len(x) + Len(m)
          /\ \A i \in 1..(Len(x) + Len(m)) : (x \o m)[i] = IF i <= Len(x) THEN x[i] ELSE m[i - Len(x)]
      BY <3>1, ConcatProperties
    <3>4. Len(y) = Len(x \o m)
      BY <3>1, <3>2, <3>3, <2>1, <1>1
    <3>5. \A i \in 1..Len(y) : y[i] = (x \o m)[i]
      <4> TAKE i \in 1..Len(y)
      <4>1. i \in 1..(Len(a) - p) /\ i \in 1..(Len(x) + Len(m)) /\ i + p \in 1..Len(a)
        BY <3>1, <3>2, <3>3, <3>4, <2>1, <1>1
      <4>2. CASE i <= Len(x)
        <5>1. i + p <= Len(l) /\ i \in 1..(Len(l) - p)
          BY <4>1, <4>2, <3>1, <2>1, <1>1
        <5> QED BY <5>1, <4>1, <4>2, <3>1, <3>2, <3>3, <1>1
      <4>3. CASE ~(i <= Len(x))
        <5>1. ~(i + p <= Len(l)) /\ (i + p) - Len(l) = i - Len(x)
          BY <4>1, <4>3, <3>1, <2>1, <1>1
        <5> QED BY <5>1, <4>1, <4>3, <3>2, <3>3, <1>1
      <4> QED BY <4>2, <4>3
    <3>6. y = x \o m
      BY <3>2, <3>3, <3>4, <3>5, SeqEqual
    <3> QED BY <3>6 DEF x, y
  <2> QED BY <2>1, <2>3, <2>4
<1>5. ASSUME NoData(l), m = <<"data">>
      PROVE  \E p \in 1..Len(a) : DataAt(a, p) /\ LinesAfter(a, p) = <<>>
  <2>1. Len(m) = 1 /\ m[1] = "data" /\ Len(a) = Len(l) + 1 /\ Len(a) \in 1..Len(a)
    BY <1>1, <1>5
  <2>2. \A i \in 1..Len(a) : a[i] = "data" <=> i = Len(a)
    <3> TAKE i \in 1..Len(a)
    <3>1. CASE i \in 1..Len(l) /\ a[i] = l[i]
      BY <3>1, <1>5, <2>1, <1>1 DEF NoData
    <3>2. CASE i > Len(l) /\ i - Len(l) \in 1..Len(m) /\ a[i] = m[i - Len(l)]
      <4>1. i - Len(l) = 1 /\ i = Len(a)
        BY <3>2, <2>1, <1>1
      <4> QED BY <4>1, <3>2, <2>1
    <3> QED BY <3>1, <3>2, <1>2
  <2>3. LinesAfter(a, Len(a)) = <<>>
    BY <1>1 DEF LinesAfter
  <2> QED BY <2>1, <2>2, <2>3 DEF DataAt
<1> QED BY <1>1, <1>3, <1>4, <1>5 DEF a
-----------------------------------------------------------------------------
LEMMA DottedIs == SmtpTypes => (Dotted <=> "." \in Range(mail))
<1> SUFFICES ASSUME SmtpTypes PROVE Dotted <=> "." \in Range(mail)
  OBVIOUS
<1>1. DOMAIN mail = 1..Len(mail)
  BY DEF SmtpTypes
<1> QED BY <1>1 DEF Dotted, HasDot, Range

LEMMA SmtpFacts ==
    ASSUME SmtpTypes
    PROVE  /\ mail \in Seq(MailLines) /\ lines \in Seq(Line) /\ session.text \in Seq(Line)
           /\ session.at \in {"command", "text"} /\ session.up \in BOOLEAN
           /\ secure \in BOOLEAN /\ mailHistory.exposed \in BOOLEAN /\ mailHistory.offered \in BOOLEAN
           /\ mailHistory.stale \in BOOLEAN /\ mailHistory.dotted \in BOOLEAN
<1>1. mail \in Seq(MailLines) /\ lines \in Seq(Line) /\ secure \in BOOLEAN
  BY DEF SmtpTypes, MailLines
<1>2. session.text \in Seq(Line) /\ session.at \in {"command", "text"} /\ session.up \in BOOLEAN
  BY DEF SmtpTypes
<1>3. /\ mailHistory.exposed \in BOOLEAN /\ mailHistory.offered \in BOOLEAN
      /\ mailHistory.stale \in BOOLEAN /\ mailHistory.dotted \in BOOLEAN
  BY DEF SmtpTypes
<1> QED BY <1>1, <1>2, <1>3

LEMMA CommandFacts ==
    ASSUME SmtpTypes, NEW s \in Steps0 \cup {"text", "quit"}
    PROVE  /\ Command(s) \in Seq(Line) /\ (s # "data" => NoData(Command(s)))
           /\ s # "text" => Command(s) = <<s>>
           /\ s = "text" => Command(s) = TextOf(mail)
<1>1. CASE s = "text"
  <2>1. Command(s) = TextOf(mail)
    BY <1>1 DEF Command, TextOf, WriteHeaders, WriteContent
  <2>2. TextOf(mail) \in Seq(TextLines)
    BY SmtpFacts, TextFacts
  <2>3. PICK w \in Seq(TextLines) : w = TextOf(mail)
    BY <2>2
  <2>4. w \in Seq(Line) /\ NoData(w)
    BY <2>3 DEF NoData, TextLines, Line
  <2> QED BY <2>1, <2>3, <2>4, <1>1
<1>2. CASE s # "text"
  <2>1. Command(s) = <<s>> /\ s \in Line
    BY <1>2 DEF Command, Line, Steps0, TextLines
  <2>2. <<s>> \in Seq(Line) /\ (s # "data" => NoData(<<s>>))
    BY <2>1 DEF NoData
  <2> QED BY <2>1, <2>2, <1>2
<1> QED BY <1>1, <1>2

LEMMA SentFacts ==
    ASSUME SmtpTypes
    PROVE  SentText \in Seq(Line) /\ NoData(SentText)
<1>1. TextOf(mail) \in Seq(Line) /\ NoData(TextOf(mail))
  <2>1. "text" \in Steps0 \cup {"text", "quit"}
    OBVIOUS
  <2> QED BY <2>1, CommandFacts
<1>2. <<"quit">> \in Seq(Line) /\ NoData(<<"quit">>)
  BY DEF NoData, Line, TextLines
<1>3. CASE step = "text"
  BY <1>1, <1>3 DEF SentText
<1>4. CASE step = "quit"
  BY <1>1, <1>2, <1>4, DataAppend DEF SentText
<1>5. CASE step \notin {"text", "quit"}
  BY <1>5 DEF SentText, NoData
<1> QED BY <1>3, <1>4, <1>5

\* What follows a step of send.
Follow(s) ==
    \/ step = "greeting" /\ s = "ehlo"
    \/ step = "ehlo" /\ s \in {"starttls", "login", "from"}
    \/ step = "starttls" /\ s = "ehlo"
    \/ step = "login" /\ s = "password"
    \/ step = "password" /\ s = "from"
    \/ step = "from" /\ s = "to"
    \/ step = "to" /\ s \in {"to", "data"}
    \/ step = "data" /\ s = "text"
    \/ step = "text" /\ s = "quit"

LEMMA ReadsCases ==
    ASSUME SmtpReads
    PROVE  /\ repliesRead' = ReadReplies.rest /\ UNCHANGED <<mail, mails>>
           /\ \/ \E s \in Steps0 \cup {"text", "quit"} :
                    /\ Follow(s) /\ GoTo(s) /\ replies' = <<>> /\ UNCHANGED session
                    /\ secure' = (IF step = "starttls" THEN TRUE ELSE secure)
                    /\ step = "ehlo" /\ ReadReplies.offers => s = "starttls"
                    /\ step = "data" => ReadReplies.code = 354
                    /\ step = "text" => ReadReplies.code = 250
              \/ \E r \in {0, -1} : SmtpClose(r) /\ UNCHANGED secure /\ (r = 0 => step = "quit" /\ ReadReplies.code = 221)
<1> DEFINE got == ReadReplies
<1>1. repliesRead' = got.rest /\ UNCHANGED <<mail, mails>>
  BY DEF SmtpReads
<1>2. \/ (StartTls(got) \/ GoOn(got)) /\ replies' = <<>> /\ UNCHANGED session
      \/ step = "quit" /\ got.code = Wanted /\ SmtpClose(0) /\ UNCHANGED secure
      \/ got.code # Wanted /\ SmtpClose(-1) /\ UNCHANGED secure
  BY DEF SmtpReads
<1> HIDE DEF got
<1>3. CASE StartTls(got) /\ replies' = <<>> /\ UNCHANGED session
  <2>1. Follow("ehlo") /\ GoTo("ehlo") /\ step = "starttls" /\ secure' = TRUE
    BY <1>3 DEF StartTls, Follow
  <2>2. "ehlo" \in Steps0 \cup {"text", "quit"}
    BY DEF Steps0
  <2> QED BY <2>1, <2>2, <1>1, <1>3 DEF got
<1>4. CASE GoOn(got) /\ replies' = <<>> /\ UNCHANGED session
  <2>1. got.code = Wanted /\ UNCHANGED secure
    BY <1>4 DEF GoOn
  <2>2. \E s \in Steps0 \cup {"text", "quit"} : Follow(s) /\ GoTo(s) /\ step # "starttls" /\ (step = "ehlo" /\ got.offers => s = "starttls")
    BY <1>4 DEF GoOn, Follow, Steps0
  <2>3. (step = "data" => got.code = 354) /\ (step = "text" => got.code = 250)
    BY <2>1 DEF Wanted
  <2> QED BY <2>1, <2>2, <2>3, <1>1, <1>4 DEF got
<1>5. CASE step = "quit" /\ got.code = Wanted /\ SmtpClose(0) /\ UNCHANGED secure
  <2>1. got.code = 221
    BY <1>5 DEF Wanted
  <2> QED BY <2>1, <1>1, <1>5 DEF got
<1>6. CASE got.code # Wanted /\ SmtpClose(-1) /\ UNCHANGED secure
  <2>1. \E r \in {0, -1} : SmtpClose(r) /\ UNCHANGED secure /\ (r = 0 => step = "quit" /\ got.code = 221)
    <3>1. -1 # 0
      OBVIOUS
    <3> WITNESS -1 \in {0, -1}
    <3> QED BY <3>1, <1>6
  <2> QED BY <2>1, <1>1 DEF got
<1> QED BY <1>2, <1>3, <1>4, <1>5, <1>6

\* The first reply is a line, or the answer to ehlo.
LEMMA ReadFirst ==
    ASSUME NEW a \in Seq(ReplyLine), a # <<>>, a[1].last
    PROVE  /\ SelectInSeq(a, LAMBDA r : r.last) = 1 /\ SubSeq(a, 2, Len(a)) = Tail(a) /\ Tail(a) \in Seq(ReplyLine)
           /\ Len(a) = 1 => Tail(a) = <<>>
<1>1. Len(a) \in Nat \ {0} /\ Tail(a) \in Seq(ReplyLine) /\ Len(Tail(a)) = Len(a) - 1 /\ SubSeq(a, 2, Len(a)) = Tail(a)
  OBVIOUS
<1> DEFINE I == {i \in 1..Len(a) : a[i].last}
<1>2. 1 \in I /\ \A i \in I : i \in Nat /\ 1 <= i
  BY <1>1
<1> HIDE DEF I
<1>3. Min(I) = 1
  <2>1. \A x \in I : (\A y \in I : x <= y) => x = 1
    BY <1>2
  <2>2. 1 \in I /\ \A y \in I : 1 <= y
    BY <1>2
  <2> QED BY <2>1, <2>2 DEF Min
<1>4. SelectInSeq(a, LAMBDA r : r.last) = 1
  BY <1>2, <1>3 DEF SelectInSeq, I
<1>5. Len(a) = 1 => Tail(a) = <<>>
  BY <1>1
<1> QED BY <1>1, <1>4, <1>5

LEMMA ReadTwo ==
    ASSUME NEW a \in Seq(ReplyLine), Len(a) = 2, ~a[1].last, a[2].last
    PROVE  SelectInSeq(a, LAMBDA r : r.last) = 2 /\ SubSeq(a, 3, Len(a)) = <<>>
<1>1. SubSeq(a, 3, Len(a)) = <<>>
  OBVIOUS
<1> DEFINE I == {i \in 1..Len(a) : a[i].last}
<1>2. I = {2}
  <2>1. 1..Len(a) = {1, 2}
    OBVIOUS
  <2> QED BY <2>1
<1> HIDE DEF I
<1>3. Min(I) = 2
  BY <1>2 DEF Min
<1>4. SelectInSeq(a, LAMBDA r : r.last) = 2
  BY <1>2, <1>3 DEF SelectInSeq, I
<1> QED BY <1>1, <1>4

LEMMA ReadInLock ==
    ASSUME SmtpTypes, Lock, step # "idle", \E i \in DOMAIN Arrived : Arrived[i].last
    PROVE  /\ Arrived # <<>> /\ ReadReplies.code = Arrived[1].code /\ ReadReplies.rest \in Seq(ReplyLine)
           /\ step \in Steps0 \cup {"greeting"} => InCommands /\ ReplyIn /\ ReadReplies.rest = <<>>
           /\ step = "ehlo" /\ Arrived[2].offers => ReadReplies.offers
           /\ step = "text" => InText /\ ~TakesText /\ ReadReplies.rest = Tail(Arrived)
           /\ ~Dotted => ReadReplies.rest = <<>>
           /\ step = "quit" => InQuit /\ (Dotted => Arrived[1].code = 500)
<1>1. PICK a \in Seq(ReplyLine) : a = Arrived
  BY DEF Lock
<1>2. a # <<>>
  BY <1>1
<1>3. ReadReplies = [code |-> a[1].code, offers |-> \E i \in 1..SelectInSeq(a, LAMBDA r : r.last) : a[i].offers,
                     rest |-> SubSeq(a, SelectInSeq(a, LAMBDA r : r.last) + 1, Len(a))]
  BY <1>1 DEF ReadReplies
<1>4. a[1].last => ReadReplies.rest = Tail(a) /\ Tail(a) \in Seq(ReplyLine) /\ (Len(a) = 1 => ReadReplies.rest = <<>>)
  <2> SUFFICES ASSUME a[1].last PROVE ReadReplies.rest = Tail(a) /\ Tail(a) \in Seq(ReplyLine) /\ (Len(a) = 1 => ReadReplies.rest = <<>>)
    OBVIOUS
  <2>1. ReadReplies.rest = SubSeq(a, 1 + 1, Len(a))
    BY <1>2, <1>3, ReadFirst
  <2>2. 1 + 1 = 2
    OBVIOUS
  <2> QED BY <2>1, <2>2, <1>2, ReadFirst
<1>5. Len(a) = 2 /\ ~a[1].last /\ a[2].last => ReadReplies.rest = <<>> /\ (a[2].offers => ReadReplies.offers)
  <2> SUFFICES ASSUME Len(a) = 2, ~a[1].last, a[2].last PROVE ReadReplies.rest = <<>> /\ (a[2].offers => ReadReplies.offers)
    OBVIOUS
  <2>1. ReadReplies.rest = SubSeq(a, 2 + 1, Len(a)) /\ ReadReplies.offers = \E i \in 1..2 : a[i].offers
    BY <1>3, ReadTwo
  <2>2. 2 + 1 = 3 /\ 2 \in 1..2
    OBVIOUS
  <2> QED BY <2>1, <2>2, ReadTwo
<1>6. ReadReplies.code = a[1].code
  BY <1>3
<1>7. CASE step \in Steps0 \cup {"greeting"}
  <2>1. InCommands /\ ReplyIn
    <3>1. InCommands
      BY <1>7 DEF Lock, Steps0
    <3> QED BY <3>1, <1>1, <1>2 DEF InCommands, Asked
  <2>2. ReadReplies.rest = <<>> /\ (step = "ehlo" /\ a[2].offers => ReadReplies.offers)
    BY <2>1, <1>1, <1>4, <1>5 DEF ReplyIn
  <2> QED BY <2>1, <2>2, <1>1, <1>2, <1>6, <1>7, EmptySeq DEF Steps0
<1>8. CASE step = "text"
  <2>1. InText
    BY <1>8 DEF Lock, Steps0
  <2>2. a[1].last /\ (~Dotted => Len(a) = 1) /\ ~TakesText
    BY <2>1, <1>1, <1>2 DEF InText, TakesText
  <2> QED BY <2>1, <2>2, <1>1, <1>2, <1>4, <1>6, <1>8 DEF Steps0
<1>9. CASE step = "quit"
  <2>1. InQuit
    BY <1>9 DEF Lock, Steps0
  <2>2. a[1].last /\ (~Dotted => Len(a) = 1) /\ (Dotted => a[1].code = 500)
    BY <2>1, <1>1, <1>2, <1>9 DEF InQuit, Bad, Asked, ReplyIn
  <2> QED BY <2>1, <2>2, <1>1, <1>2, <1>4, <1>6, <1>9 DEF Steps0
<1>10. step \in Steps0 \cup {"greeting", "text", "quit"}
  BY DEF SmtpTypes
<1> QED BY <1>7, <1>8, <1>9, <1>10
-----------------------------------------------------------------------------
\* The client goes on: what it writes comes after what it wrote.
LEMMA GoToText ==
    ASSUME SmtpTypes, TextInv, NEW s \in Steps0 \cup {"text", "quit"}, Follow(s),
           step' = s, lines' = lines \o Command(s), mail' = mail, session' = session
    PROVE  TextInv'
<1> SUFFICES ASSUME ~Dotted PROVE TextInv'
  <2>1. Dotted' = Dotted
    BY DEF Dotted
  <2> QED BY <2>1 DEF TextInv
<1>1. PICK l \in Seq(Line) : l = lines
  BY SmtpFacts
<1>2. PICK m \in Seq(Line) : m = Command(s) /\ (s # "data" => NoData(m))
  BY CommandFacts
<1>3. Whole' = Whole /\ Dotted' = Dotted /\ l \o m \in Seq(Line) /\ lines' = l \o m
  BY <1>1, <1>2, DataAppend DEF Whole, Dotted
<1>4. CASE s \in Steps0 \ {"data"}
  <2>1. step \notin {"idle", "data", "text", "quit"} /\ s \notin {"idle", "data", "text", "quit"}
    BY <1>4 DEF Follow, Steps0
  <2>2. NotYet /\ NoData(l)
    BY <2>1, <1>1 DEF TextInv, NotYet
  <2>3. NoData(l \o m)
    BY <2>2, <1>2, <1>4, DataAppend
  <2>4. NotYet'
    BY <2>1, <2>2, <2>3, <1>3 DEF NotYet
  <2> QED BY <2>1, <2>4 DEF TextInv
<1>5. CASE s = "data"
  <2>1. step \notin {"idle", "data", "text", "quit"}
    BY <1>5 DEF Follow
  <2>2. NotYet /\ NoData(l)
    BY <2>1, <1>1 DEF TextInv, NotYet
  <2>3. m = <<"data">>
    BY <1>2, <1>5, CommandFacts
  <2>4. \E p \in 1..Len(l \o m) : DataAt(l \o m, p) /\ LinesAfter(l \o m, p) = <<>>
    BY <2>2, <2>3, DataAppend
  <2>5. SentText' = <<>>
    BY <1>5 DEF SentText
  <2>6. NotYet'
    BY <2>2, <2>4, <2>5, <1>3, <1>5 DEF NotYet
  <2> QED BY <2>6, <1>5 DEF TextInv
<1>6. CASE s \in {"text", "quit"}
  <2>1. step \in {"data", "text"} /\ s # "data"
    BY <1>6 DEF Follow
  <2>2. PICK e \in Seq(Line) : e = SentText
    BY SentFacts
  <2>3. SentText' = e \o m
    <3>1. CASE s = "text"
      <4>1. e = <<>> /\ m = TextOf(mail) /\ SentText' = TextOf(mail)
        BY <3>1, <2>2, <1>2, CommandFacts DEF SentText, Follow
      <4> QED BY <4>1, ConcatEmptySeq
    <3>2. CASE s = "quit"
      BY <3>2, <2>2, <1>2, CommandFacts DEF SentText, Follow
    <3> QED BY <3>1, <3>2, <1>6
  <2>4. NoData(m)
    BY <2>1, <1>2
  <2>5. CASE NotYet
    <3>1. PICK p \in 1..Len(l) : DataAt(l, p) /\ LinesAfter(l, p) = e
      BY <2>1, <2>2, <2>5, <1>1 DEF NotYet
    <3>2. p \in 1..Len(l \o m) /\ DataAt(l \o m, p) /\ LinesAfter(l \o m, p) = e \o m
      BY <3>1, <2>4, DataAppend
    <3>3. NotYet'
      BY <3>2, <2>3, <2>5, <1>3, <1>6 DEF NotYet
    <3> QED BY <3>3, <1>6 DEF TextInv
  <2>6. CASE TakesText
    <3>1. PICK t \in Seq(Line) : t = session.text
      BY SmtpFacts
    <3>2. t \o l = e
      BY <3>1, <2>2, <2>6, <1>1 DEF TakesText
    <3>3. t \o (l \o m) = e \o m
      <4>1. (t \o l) \o m = t \o (l \o m)
        BY ConcatAssociative
      <4> QED BY <3>2, <4>1
    <3>4. TakesText'
      BY <3>1, <3>3, <2>3, <2>6, <1>3 DEF TakesText
    <3> QED BY <3>4, <1>6 DEF TextInv
  <2>7. CASE PastText
    <3>1. NoData(l \o m)
      BY <2>4, <2>7, <1>1, DataAppend DEF PastText
    <3>2. PastText'
      BY <3>1, <2>7, <1>3 DEF PastText
    <3> QED BY <3>2, <1>6 DEF TextInv
  <2> QED BY <2>1, <2>5, <2>6, <2>7 DEF TextInv
<1> QED BY <1>4, <1>5, <1>6

LEMMA GoToTypes ==
    ASSUME SmtpTypes, NEW s \in Steps0 \cup {"text", "quit"}, GoTo(s), secure' = (IF step = "starttls" THEN TRUE ELSE secure),
           mail' = mail, session' = session
    PROVE  /\ SmtpTypes' /\ step' = s /\ lines' = lines \o Command(s)
           /\ mailHistory'.stale = mailHistory.stale /\ mailHistory'.dotted = mailHistory.dotted /\ mailHistory'.offered = mailHistory.offered
           /\ mailHistory'.exposed = (mailHistory.exposed \/ (s = "password" /\ ~secure))
<1>1. step' = s /\ lines' = lines \o Command(s) /\ mailHistory' = [mailHistory EXCEPT !.exposed = mailHistory.exposed \/ (s = "password" /\ ~secure)]
  BY DEF GoTo
<1>2. lines' \in Seq(Line) /\ secure' \in BOOLEAN /\ s # "idle"
  BY <1>1, SmtpFacts, CommandFacts, DataAppend DEF Steps0
<1>3. (mailHistory.exposed \/ (s = "password" /\ ~secure)) \in BOOLEAN
  BY SmtpFacts
<1>4. /\ mailHistory' \in [result : {-1, 0, 1}, exposed : BOOLEAN, offered : BOOLEAN, stale : BOOLEAN, dotted : BOOLEAN]
      /\ mailHistory'.stale = mailHistory.stale /\ mailHistory'.dotted = mailHistory.dotted /\ mailHistory'.offered = mailHistory.offered
      /\ mailHistory'.exposed = (mailHistory.exposed \/ (s = "password" /\ ~secure))
  BY <1>1, <1>3 DEF SmtpTypes
<1>5. Dotted' = Dotted
  BY DEF Dotted
<1>6. step' \in {"idle", "greeting", "text", "quit"} \cup Steps0
  BY <1>1
<1>7. SmtpTypes'
  BY <1>1, <1>2, <1>4, <1>5, <1>6 DEF SmtpTypes
<1> QED BY <1>1, <1>4, <1>7

LEMMA GoToLock ==
    ASSUME SmtpTypes, Lock, Cover, step # "idle", \E i \in DOMAIN Arrived : Arrived[i].last,
           NEW s \in Steps0 \cup {"text", "quit"}, Follow(s), GoTo(s), secure' = (IF step = "starttls" THEN TRUE ELSE secure),
           mail' = mail, session' = session, repliesRead' = ReadReplies.rest, replies' = <<>>,
           step = "ehlo" /\ ReadReplies.offers => s = "starttls",
           step = "data" => ReadReplies.code = 354, step = "text" => ReadReplies.code = 250
    PROVE  Lock' /\ Cover'
<1>1. PICK r \in Seq(ReplyLine) : r = ReadReplies.rest
  BY ReadInLock
<1>2. Arrived' = r /\ repliesRead' \in Seq(ReplyLine) /\ replies' \in Seq(ReplyLine)
  BY <1>1, ConcatEmptySeq, EmptySeq DEF Arrived
<1>3. step' = s /\ lines' = lines \o Command(s) /\ Dotted' = Dotted /\ Whole' = Whole
  BY GoToTypes DEF Dotted, Whole
<1>4. ASSUME step \in Steps0 \cup {"greeting"} PROVE Lock'
  <2>1. InCommands /\ ReplyIn /\ r = <<>>
    BY <1>1, <1>4, ReadInLock
  <2>2. lines' = Command(s)
    <3>1. lines = <<>> /\ Command(s) \in Seq(Line)
      BY <2>1, CommandFacts DEF ReplyIn
    <3> QED BY <3>1, <1>3, ConcatEmptySeq
  <2>3. CASE s \in Steps0
    <3>1. step # "data"
      BY <2>3 DEF Follow, Steps0
    <3>2. lines' = <<s>> /\ session.at = "command"
      BY <3>1, <2>1, <2>2, <2>3, CommandFacts DEF ReplyIn, Steps0
    <3>3. Asked'
      BY <3>2, <2>1, <1>2, <1>3 DEF Asked
    <3>4. InCommands'
      BY <3>3, <2>1 DEF InCommands
    <3> QED BY <3>4, <2>3, <1>2, <1>3, <1>1 DEF Lock, Steps0
  <2>4. CASE s = "text"
    <3>1. step = "data" /\ Arrived[1].code = 354
      BY <2>4, <1>4, ReadInLock DEF Follow, Steps0
    <3>2. session.at = "text" /\ session.text = <<>> /\ session.taken = <<>>
      BY <3>1, <2>1 DEF ReplyIn, InCommands
    <3>3. lines' = TextOf(mail) /\ SentText' = TextOf(mail) /\ TextOf(mail) \in Seq(Line)
      BY <2>2, <2>4, <1>3, CommandFacts DEF SentText
    <3>4. TakesText'
      BY <3>2, <3>3, ConcatEmptySeq DEF TakesText, HasDot
    <3> QED BY <3>4, <2>1, <2>4, <1>1, <1>2, <1>3 DEF Lock, InText, Steps0
  <2>5. s # "quit"
    BY <1>4 DEF Follow, Steps0
  <2> QED BY <2>3, <2>4, <2>5
<1>5. ASSUME step = "text" PROVE Lock'
  <2>1. InText /\ ~TakesText /\ r = Tail(Arrived) /\ Arrived[1].code = 250 /\ s = "quit"
    BY <1>1, <1>5, ReadInLock DEF Follow
  <2>2. <<"quit">> \in Seq(TextLines) /\ <<"quit">> \in Seq(Line)
    BY DEF TextLines, Line
  <2>3. PICK l \in Seq(TextLines) : l = lines /\ lines' = l \o <<"quit">>
    <3>1. Command(s) = <<"quit">>
      BY <2>1, CommandFacts
    <3>2. lines \in Seq(TextLines)
      BY <2>1 DEF InText
    <3> QED BY <3>1, <3>2, <1>3
  <2>4. l \o <<"quit">> \in Seq(TextLines)
    BY <2>2, Joined
  <2>5. CASE Dotted
    <3>1. Bad(r, l)
      BY <2>1, <2>3, <2>5 DEF InText
    <3>2. Bad(r, l \o <<"quit">>)
      <4>1. l # <<>> => l \o <<"quit">> # <<>> /\ (l \o <<"quit">>)[1] = l[1]
        OBVIOUS
      <4> QED BY <3>1, <4>1 DEF Bad
    <3>3. InQuit'
      BY <3>2, <2>1, <2>2, <2>3, <2>4, <2>5, <1>2, <1>3 DEF InQuit, InText
    <3> QED BY <3>3, <2>1, <1>1, <1>2, <1>3 DEF Lock, Steps0
  <2>6. CASE ~Dotted
    <3>1. l = <<>> /\ session.taken = <<Whole>> /\ session.at = "command" /\ r = <<>>
      BY <2>1, <2>3, <2>6, <1>1, ReadInLock DEF InText
    <3>2. lines' = <<"quit">>
      <4>1. <<>> \o <<"quit">> = <<"quit">>
        BY <2>2, ConcatEmptySeq
      <4> QED BY <4>1, <3>1, <2>3
    <3>3. Asked'
      BY <3>1, <3>2, <2>1, <1>2, <1>3 DEF Asked
    <3>4. InQuit'
      BY <3>1, <3>3, <2>2, <2>3, <2>4, <2>6, <1>3 DEF InQuit
    <3> QED BY <3>4, <2>1, <1>1, <1>2, <1>3 DEF Lock, Steps0
  <2> QED BY <2>5, <2>6
<1>6. step \in Steps0 \cup {"greeting", "text"}
  BY DEF Follow, Steps0
<1>7. Cover'
  <2>1. /\ mailHistory'.offered = mailHistory.offered
        /\ mailHistory'.exposed = (mailHistory.exposed \/ (s = "password" /\ ~secure))
    BY GoToTypes
  <2>2. mailHistory'.offered /\ ~secure' => s = "starttls"
    <3> SUFFICES ASSUME mailHistory.offered, ~secure' PROVE s = "starttls"
      BY <2>1
    <3>1. ~secure /\ step # "starttls"
      OBVIOUS
    <3>2. step = "ehlo" /\ Arrived[2].offers
      BY <3>1 DEF Cover
    <3> QED BY <3>2, ReadInLock
  <2>3. mailHistory'.exposed => ~mailHistory'.offered /\ s \notin {"greeting", "ehlo", "starttls", "login"}
    <3>1. CASE mailHistory.exposed
      BY <3>1, <2>1 DEF Cover, Follow
    <3>2. CASE s = "password" /\ ~secure
      <4>1. step = "login"
        BY <3>2 DEF Follow
      <4> QED BY <4>1, <3>2, <2>1 DEF Cover
    <3> QED BY <3>1, <3>2, <2>1
  <2> QED BY <2>2, <2>3, <1>3 DEF Cover
<1> QED BY <1>4, <1>5, <1>6, <1>7

\* send ends.
LEMMA CloseInv ==
    ASSUME SmtpInv, step # "idle", NEW r \in {0, -1}, SmtpClose(r), UNCHANGED <<mail, mails, secure>>,
           ~mailHistory.stale => repliesRead' \in Seq(ReplyLine) /\ (~Dotted => repliesRead' = <<>>),
           r = 0 /\ ~mailHistory.stale => session.taken = <<Whole>>
    PROVE  SmtpInv'
<1>1. /\ SmtpTypes /\ step' = "idle" /\ session' = [session EXCEPT !.up = FALSE] /\ lines' = <<>> /\ replies' = <<>>
      /\ mailHistory' = [mailHistory EXCEPT !.result = r]
  BY DEF SmtpInv, SmtpClose
<1>2. /\ session' \in [up : BOOLEAN, at : {"command", "text"}, text : Seq(Line), taken : Seq(Seq(Line)), offers : Nat]
      /\ session'.taken = session.taken /\ ~session'.up
  BY <1>1 DEF SmtpTypes
<1>3. /\ mailHistory' \in [result : {-1, 0, 1}, exposed : BOOLEAN, offered : BOOLEAN, stale : BOOLEAN, dotted : BOOLEAN]
      /\ mailHistory'.exposed = mailHistory.exposed /\ mailHistory'.offered = mailHistory.offered
      /\ mailHistory'.stale = mailHistory.stale /\ mailHistory'.dotted = mailHistory.dotted /\ mailHistory'.result = r
  BY <1>1 DEF SmtpTypes
<1>4. Dotted' = Dotted /\ Whole' = Whole
  BY DEF Dotted, Whole
<1>5. SmtpTypes'
  BY <1>1, <1>2, <1>3, <1>4, EmptySeq DEF SmtpTypes
<1>6. TextInv'
  <2>1. ~Dotted => session.taken \in {<<>>, <<Whole>>}
    BY DEF SmtpInv, TextInv, NotYet, TakesText, PastText
  <2> QED BY <2>1, <1>1, <1>2, <1>4 DEF TextInv
<1>7. AcceptedWhole'
  BY <1>2, <1>3, <1>4 DEF AcceptedWhole
<1>8. RepliesConsumed'
  BY <1>1, <1>3 DEF RepliesConsumed, SmtpTypes
<1>9. ~mailHistory'.stale => Lock' /\ Cover'
  <2> SUFFICES ASSUME ~mailHistory.stale PROVE Lock' /\ Cover'
    BY <1>3
  <2>1. Arrived' \in Seq(ReplyLine) /\ repliesRead' \in Seq(ReplyLine) /\ replies' \in Seq(ReplyLine)
    BY <1>1, ConcatEmptySeq, EmptySeq DEF Arrived
  <2>2. Lock'
    BY <2>1, <1>1 DEF Lock, Steps0
  <2>3. Cover'
    BY <1>1, <1>3 DEF SmtpInv, Cover
  <2> QED BY <2>2, <2>3
<1> QED BY <1>5, <1>6, <1>7, <1>8, <1>9 DEF SmtpInv

LEMMA SmtpReadsInv == SmtpInv /\ SmtpReads => SmtpInv'
<1> SUFFICES ASSUME SmtpInv, SmtpReads PROVE SmtpInv'
  OBVIOUS
<1>1. SmtpTypes /\ step # "idle" /\ \E i \in DOMAIN Arrived : Arrived[i].last
  BY DEF SmtpInv, SmtpReads
<1>2. repliesRead' = ReadReplies.rest /\ UNCHANGED <<mail, mails>>
  BY ReadsCases
<1>3. ASSUME NEW s \in Steps0 \cup {"text", "quit"},
             Follow(s), GoTo(s), replies' = <<>>, UNCHANGED session,
             secure' = (IF step = "starttls" THEN TRUE ELSE secure),
             step = "ehlo" /\ ReadReplies.offers => s = "starttls",
             step = "data" => ReadReplies.code = 354,
             step = "text" => ReadReplies.code = 250
      PROVE  SmtpInv'
  <2>1. /\ SmtpTypes' /\ step' = s /\ lines' = lines \o Command(s)
        /\ mailHistory'.stale = mailHistory.stale
    BY <1>1, <1>2, <1>3, GoToTypes
  <2>2. TextInv'
    BY <2>1, <1>1, <1>2, <1>3, GoToText DEF SmtpInv
  <2>3. s # "idle"
    BY DEF Steps0
  <2>4. ~mailHistory.stale => Lock' /\ Cover'
    BY <1>1, <1>2, <1>3, GoToLock DEF SmtpInv
  <2> QED BY <2>1, <2>2, <2>3, <2>4 DEF SmtpInv, AcceptedWhole, RepliesConsumed
<1>4. ASSUME NEW r \in {0, -1}, SmtpClose(r), UNCHANGED secure, r = 0 => step = "quit" /\ ReadReplies.code = 221
      PROVE  SmtpInv'
  <2>1. ~mailHistory.stale => repliesRead' \in Seq(ReplyLine) /\ (~Dotted => repliesRead' = <<>>)
    BY <1>1, <1>2, ReadInLock DEF SmtpInv
  <2>2. r = 0 /\ ~mailHistory.stale => session.taken = <<Whole>>
    <3> SUFFICES ASSUME r = 0, ~mailHistory.stale PROVE session.taken = <<Whole>>
      OBVIOUS
    <3>1. step = "quit" /\ InQuit /\ Arrived[1].code = 221 /\ (Dotted => Arrived[1].code = 500)
      BY <1>1, <1>4, ReadInLock DEF SmtpInv
    <3>2. 221 # 500
      OBVIOUS
    <3> QED BY <3>1, <3>2 DEF InQuit
  <2> QED BY <2>1, <2>2, <1>1, <1>2, <1>4, CloseInv
<1> QED BY <1>3, <1>4, ReadsCases

LEMMA SmtpReadFailsInv == SmtpInv /\ SmtpReadFails => SmtpInv'
<1> SUFFICES ASSUME SmtpInv, SmtpReadFails PROVE SmtpInv'
  OBVIOUS
<1>1. step # "idle" /\ repliesRead' = <<>> /\ SmtpClose(-1) /\ UNCHANGED <<mail, mails, secure>> /\ -1 # 0 /\ -1 \in {0, -1}
  BY DEF SmtpReadFails
<1>2. PICK r \in {0, -1} : r = -1
  OBVIOUS
<1> QED BY <1>1, <1>2, CloseInv, EmptySeq
-----------------------------------------------------------------------------
LEMMA SmtpInitInv == SmtpInit => SmtpInv
<1> SUFFICES ASSUME SmtpInit PROVE SmtpInv
  OBVIOUS
<1>1. ~Dotted
  BY DEF SmtpInit, Dotted, HasDot
<1>2. /\ session \in [up : BOOLEAN, at : {"command", "text"}, text : Seq(Line), taken : Seq(Seq(Line)), offers : Nat]
      /\ ~session.up /\ session.taken = <<>>
  BY EmptySeq DEF SmtpInit, NoSession
<1>3. SmtpTypes
  BY <1>1, <1>2, EmptySeq DEF SmtpInit, SmtpTypes
<1>4. Arrived \in Seq(ReplyLine) /\ repliesRead \in Seq(ReplyLine) /\ replies \in Seq(ReplyLine)
  BY EmptySeq, ConcatEmptySeq DEF SmtpInit, Arrived
<1>5. Lock
  BY <1>4 DEF Lock, SmtpInit, Steps0
<1>6. TextInv /\ AcceptedWhole /\ RepliesConsumed /\ Cover
  BY <1>2 DEF SmtpInit, TextInv, AcceptedWhole, RepliesConsumed, Cover
<1> QED BY <1>3, <1>5, <1>6 DEF SmtpInv

LEMMA SmtpSendInv == SmtpInv /\ SmtpSend => SmtpInv'
<1> SUFFICES ASSUME SmtpInv, SmtpSend PROVE SmtpInv'
  OBVIOUS
<1>1. PICK c \in Contents :
        /\ mail' = c
        /\ mailHistory' = [mailHistory EXCEPT !.result = 1, !.exposed = FALSE, !.offered = FALSE,
                                              !.stale = (repliesRead # <<>>), !.dotted = mailHistory.dotted \/ "." \in Range(c)]
  BY DEF SmtpSend
<1>2. /\ step = "idle" /\ step' = "greeting" /\ secure' = FALSE /\ lines' = <<>> /\ repliesRead' = repliesRead
      /\ session' = [NoSession EXCEPT !.up = TRUE] /\ replies' = Reply(220)
  BY DEF SmtpSend
<1>3. SmtpTypes
  BY DEF SmtpInv
<1>4. session' = [up |-> TRUE, at |-> "command", text |-> <<>>, taken |-> <<>>, offers |-> 0]
  BY <1>2 DEF NoSession
<1>5. session' \in [up : BOOLEAN, at : {"command", "text"}, text : Seq(Line), taken : Seq(Seq(Line)), offers : Nat]
  BY <1>4, EmptySeq
<1>6. /\ mailHistory' \in [result : {-1, 0, 1}, exposed : BOOLEAN, offered : BOOLEAN, stale : BOOLEAN, dotted : BOOLEAN]
      /\ ~mailHistory'.exposed /\ ~mailHistory'.offered /\ mailHistory'.stale = (repliesRead # <<>>)
      /\ mailHistory'.dotted = (mailHistory.dotted \/ "." \in Range(c))
  <2>1. (mailHistory.dotted \/ "." \in Range(c)) \in BOOLEAN /\ (repliesRead # <<>>) \in BOOLEAN
    BY <1>3, SmtpFacts
  <2> QED BY <2>1, <1>1, <1>3 DEF SmtpTypes
<1>7. mail' \in Seq({"text", "."})
  BY <1>1, ContentsAssumption
<1>8. Dotted' <=> "." \in Range(c)
  <2>1. DOMAIN mail' = 1..Len(mail')
    BY <1>7
  <2> QED BY <2>1, <1>1 DEF Dotted, HasDot, Range
<1>9. mailHistory'.stale \/ Dotted' => mailHistory'.dotted
  <2>1. repliesRead # <<>> => mailHistory.dotted
    BY <1>2 DEF SmtpInv, RepliesConsumed
  <2> QED BY <2>1, <1>6, <1>8
<1>10. SmtpTypes'
  BY <1>2, <1>5, <1>6, <1>7, <1>9, EmptySeq DEF SmtpTypes
<1>11. TextInv'
  <2>1. NotYet'
    BY <1>2, <1>4 DEF NotYet, NoData
  <2> QED BY <2>1, <1>2 DEF TextInv
<1>12. ~mailHistory'.stale => Lock'
  <2> SUFFICES ASSUME repliesRead = <<>> PROVE Lock'
    BY <1>6
  <2>1. Reply(220) \in Seq(ReplyLine) /\ Len(Reply(220)) = 1 /\ Reply(220)[1].last
    BY DEF Reply, ReplyLine
  <2>2. Arrived' = Reply(220) /\ repliesRead' \in Seq(ReplyLine) /\ replies' \in Seq(ReplyLine)
    BY <2>1, <1>2, ConcatEmptySeq, EmptySeq DEF Arrived
  <2>3. ReplyIn'
    BY <2>1, <2>2, <1>2, <1>4 DEF ReplyIn
  <2>4. InCommands'
    BY <2>3, <1>4 DEF InCommands
  <2>5. Arrived' \in Seq(ReplyLine)
    BY <2>1, <2>2
  <2> QED BY <2>2, <2>4, <2>5, <1>2 DEF Lock, Steps0
<1>13. AcceptedWhole' /\ RepliesConsumed' /\ Cover'
  BY <1>2, <1>6 DEF AcceptedWhole, RepliesConsumed, Cover
<1> QED BY <1>10, <1>11, <1>12, <1>13 DEF SmtpInv

Codes == {220, 221, 235, 250, 334, 354, 500}
Sessions == [up : BOOLEAN, at : {"command", "text"}, text : Seq(Line), taken : Seq(Seq(Line)), offers : Nat]
MailHistories == [result : {-1, 0, 1}, exposed : BOOLEAN, offered : BOOLEAN, stale : BOOLEAN, dotted : BOOLEAN]
\* What the server answers to a command, and what that does to its state.
ReplyTo(new) ==
    /\ replies' = replies \o new /\ new # <<>>
    /\ Head(lines) \in {"text", "."} => new[1].code = 500
    /\ Head(lines) = "ehlo" =>
        /\ Len(new) = 2 /\ ~new[1].last /\ ~new[1].offers /\ new[2].last /\ session'.at = "command"
        /\ mailHistory'.offered /\ ~mailHistory.offered => ~secure /\ new[2].offers
    /\ Head(lines) # "ehlo" =>
        /\ Len(new) = 1 /\ new[1].last /\ mailHistory'.offered = mailHistory.offered
        /\ session'.at = IF new[1].code = 354 THEN "text" ELSE "command"
        /\ new[1].code = 354 => Head(lines) = "data"

LEMMA TwoReplies ==
    ASSUME NEW a \in ReplyLine, NEW b \in ReplyLine
    PROVE  /\ <<a, b>> \in Seq(ReplyLine) /\ Len(<<a, b>>) = 2 /\ <<a, b>>[1] = a /\ <<a, b>>[2] = b /\ <<a, b>> # <<>>
           /\ <<a>> \in Seq(ReplyLine) /\ Len(<<a>>) = 1 /\ <<a>>[1] = a /\ <<a>> # <<>>
  OBVIOUS

LEMMA AnswersFacts ==
    ASSUME SmtpTypes, ServerTakesCommand
    PROVE  /\ session.up /\ session.at = "command" /\ lines # <<>> /\ step # "idle" /\ lines' = Tail(lines)
           /\ UNCHANGED <<step, mail, secure, repliesRead, mails>>
           /\ session' \in Sessions /\ session'.text = session.text /\ session'.taken = session.taken
           /\ session'.at = "text" => Head(lines) = "data"
           /\ mailHistory'.exposed = mailHistory.exposed /\ mailHistory'.stale = mailHistory.stale
           /\ mailHistory'.dotted = mailHistory.dotted /\ mailHistory'.result = mailHistory.result
           /\ mailHistory' \in MailHistories
           /\ \E new \in Seq(ReplyLine) : ReplyTo(new)
<1>0. session \in Sessions /\ mailHistory \in MailHistories
  BY DEF SmtpTypes, Sessions, MailHistories
<1>1. PICK h \in Line : h = Head(lines)
  <2>1. lines \in Seq(Line) /\ lines # <<>>
    BY SmtpFacts DEF ServerTakesCommand
  <2> QED BY <2>1
<1>2. /\ session.up /\ session.at = "command" /\ lines # <<>> /\ lines' = Tail(lines)
      /\ UNCHANGED <<step, mail, secure, repliesRead, mails>>
  BY DEF ServerTakesCommand
<1>3. step # "idle"
  BY <1>2 DEF SmtpTypes
<1>4. PICK code \in Codes :
        SmtpAnswers(code) /\ (code = 354 => h = "data") /\ (h \in {"text", "."} => code = 500)
  <2>1. PICK c \in {Right(h), 500} : SmtpAnswers(c)
    BY <1>1 DEF ServerTakesCommand
  <2>2. c \in Codes /\ (c = 354 => h = "data") /\ (h \in {"text", "."} => c = 500)
    BY <2>1 DEF Right, Codes
  <2> QED BY <2>1, <2>2
<1>6. CASE h = "ehlo"
  <2>1. PICK offers \in BOOLEAN :
            /\ session' = [session EXCEPT !.offers = IF offers THEN session.offers + 1 ELSE session.offers]
            /\ replies' = replies \o <<[code |-> code, last |-> FALSE, offers |-> FALSE], [code |-> code, last |-> TRUE, offers |-> offers]>>
            /\ mailHistory' = [mailHistory EXCEPT !.offered = mailHistory.offered \/ (offers /\ ~secure)]
    <3>1. Head(lines) = "ehlo" /\ SmtpAnswers(code)
      BY <1>1, <1>4, <1>6
    <3> QED BY <3>1 DEF SmtpAnswers
  <2>2. PICK k \in Nat : session' = [session EXCEPT !.offers = k]
    <3>1. session.offers \in Nat
      BY <1>0 DEF Sessions
    <3>2. PICK k \in Nat : k = (IF offers THEN session.offers + 1 ELSE session.offers)
      BY <3>1
    <3> QED BY <3>2, <2>1
  <2>3. session' \in Sessions /\ session'.text = session.text /\ session'.taken = session.taken /\ session'.at = session.at
    BY <2>2, <1>0 DEF Sessions
  <2>4. PICK o \in BOOLEAN : o = (mailHistory.offered \/ (offers /\ ~secure)) /\ mailHistory' = [mailHistory EXCEPT !.offered = o]
    BY <2>1, SmtpFacts
  <2>5. /\ mailHistory'.exposed = mailHistory.exposed /\ mailHistory'.stale = mailHistory.stale
        /\ mailHistory'.dotted = mailHistory.dotted /\ mailHistory'.result = mailHistory.result
        /\ mailHistory'.offered = o /\ mailHistory' \in MailHistories
    BY <2>4, <1>0 DEF MailHistories
  <2> DEFINE a == [code |-> code, last |-> FALSE, offers |-> FALSE]
             b == [code |-> code, last |-> TRUE, offers |-> offers]
  <2>6. a \in ReplyLine /\ b \in ReplyLine /\ ~a.last /\ ~a.offers /\ b.last /\ b.offers = offers
    BY DEF ReplyLine, Codes
  <2>7. replies' = replies \o <<a, b>>
    BY <2>1
  <2> HIDE DEF a, b
  <2>8. PICK new \in Seq(ReplyLine) : new = <<a, b>> /\ Len(new) = 2 /\ new[1] = a /\ new[2] = b /\ new # <<>>
    BY <2>6, TwoReplies
  <2>9. Head(lines) = "ehlo" /\ session'.at = "command"
    BY <2>3, <1>1, <1>2, <1>6
  <2>10. ReplyTo(new)
    <3>1. mailHistory'.offered /\ ~mailHistory.offered => ~secure /\ new[2].offers
      BY <2>4, <2>5, <2>6, <2>8
    <3> QED BY <3>1, <2>6, <2>7, <2>8, <2>9 DEF ReplyTo
  <2> QED BY <2>3, <2>5, <2>9, <2>10, <1>2, <1>3
<1>7. CASE h # "ehlo"
  <2>1. /\ session' = [session EXCEPT !.at = IF code = 354 THEN "text" ELSE "command", !.up = (code # 221)]
        /\ replies' = replies \o Reply(code) /\ mailHistory' = mailHistory
    BY <1>1, <1>4, <1>7 DEF SmtpAnswers
  <2>2. PICK at \in {"command", "text"}, up \in BOOLEAN :
            at = (IF code = 354 THEN "text" ELSE "command") /\ session' = [session EXCEPT !.at = at, !.up = up]
    BY <2>1
  <2>3. session' \in Sessions /\ session'.text = session.text /\ session'.taken = session.taken /\ session'.at = at
    <3>1. session'.text = session.text /\ session'.taken = session.taken /\ session'.offers = session.offers
      BY <2>2, <1>0 DEF Sessions
    <3>2. session'.at = at /\ session'.up = up
      BY <2>2, <1>0 DEF Sessions
    <3>3. session' = [up |-> up, at |-> at, text |-> session.text, taken |-> session.taken, offers |-> session.offers]
      BY <2>2, <1>0 DEF Sessions
    <3>4. session.text \in Seq(Line) /\ session.taken \in Seq(Seq(Line)) /\ session.offers \in Nat
      BY <1>0 DEF Sessions
    <3>5. session' \in Sessions
      BY <3>3, <3>4 DEF Sessions
    <3> QED BY <3>1, <3>2, <3>5
  <2> DEFINE a == [code |-> code, last |-> TRUE, offers |-> FALSE]
  <2>4. a \in ReplyLine /\ a.last /\ a.code = code
    BY DEF ReplyLine, Codes
  <2>5. replies' = replies \o <<a>>
    BY <2>1 DEF Reply
  <2> HIDE DEF a
  <2>6. PICK new \in Seq(ReplyLine) : new = <<a>> /\ Len(new) = 1 /\ new[1] = a /\ new # <<>>
    BY <2>4, TwoReplies
  <2>7. ReplyTo(new)
    BY <2>1, <2>2, <2>3, <2>4, <2>5, <2>6, <1>1, <1>4, <1>7 DEF ReplyTo
  <2>8. session'.at = "text" => Head(lines) = "data"
    BY <2>2, <2>3, <1>1, <1>4
  <2> QED BY <2>1, <2>3, <2>7, <2>8, <1>0, <1>2, <1>3
<1> QED BY <1>6, <1>7

\* A command taken leaves the text where it was.
LEMMA TakesCommandText ==
    ASSUME SmtpTypes, TextInv, ServerTakesCommand
    PROVE  TextInv'
<1>1. /\ session.at = "command" /\ lines # <<>> /\ step # "idle" /\ lines' = Tail(lines)
      /\ UNCHANGED <<step, mail>>
      /\ session'.text = session.text /\ session'.taken = session.taken /\ session'.at \in {"command", "text"}
      /\ session'.at = "text" => Head(lines) = "data"
  BY AnswersFacts DEF Sessions
<1>2. PICK l \in Seq(Line) : l = lines
  BY SmtpFacts
<1>3. Whole' = Whole /\ Dotted' = Dotted /\ SentText' = SentText
  BY <1>1 DEF Whole, Dotted, SentText
<1> SUFFICES ASSUME ~Dotted PROVE TextInv'
  BY <1>3 DEF TextInv
<1>4. CASE NotYet /\ NoData(l)
  <2>1. NoData(Tail(l)) /\ Head(l) # "data"
    BY <1>1, <1>2, <1>4, DataTail
  <2>2. session'.at = "command"
    BY <2>1, <1>1, <1>2
  <2>3. step \notin {"data", "text", "quit"}
    <3>1. \A p \in 1..Len(l) : ~DataAt(l, p)
      BY <1>4 DEF DataAt, NoData
    <3> QED BY <3>1, <1>2, <1>4 DEF NotYet
  <2>4. NotYet'
    BY <2>1, <2>2, <2>3, <1>1, <1>2, <1>4 DEF NotYet
  <2> QED BY <2>4, <1>1 DEF TextInv
<1>5. CASE NotYet /\ ~NoData(l)
  <2>1. step \in {"data", "text", "quit"} /\ \E p \in 1..Len(l) : DataAt(l, p) /\ LinesAfter(l, p) = SentText
    BY <1>2, <1>5 DEF NotYet
  <2>2. PICK p \in 1..Len(l) : DataAt(l, p) /\ LinesAfter(l, p) = SentText
    BY <2>1
  <2>3. CASE p = 1 /\ Head(l) = "data" /\ NoData(Tail(l)) /\ LinesAfter(l, p) = Tail(l)
    <3>1. CASE session'.at = "text"
      <4>1. session'.text \o lines' = SentText'
        <5>1. Tail(l) \in Seq(Line)
          BY <1>1, <1>2
        <5> QED BY <5>1, <2>2, <2>3, <1>1, <1>2, <1>3, <1>5, ConcatEmptySeq DEF NotYet
      <4>2. ~HasDot(session'.text)
        BY <1>1, <1>5 DEF NotYet, HasDot
      <4>3. TakesText'
        BY <3>1, <4>1, <4>2, <1>1, <1>5 DEF TakesText, NotYet
      <4> QED BY <4>3, <2>1, <1>1 DEF TextInv
    <3>2. CASE session'.at = "command"
      <4>1. PastText'
        BY <3>2, <2>3, <1>1, <1>2, <1>5 DEF PastText, NotYet
      <4> QED BY <4>1, <2>1, <1>1 DEF TextInv
    <3> QED BY <3>1, <3>2, <1>1
  <2>4. CASE Head(l) # "data" /\ p - 1 \in 1..Len(Tail(l)) /\ DataAt(Tail(l), p - 1) /\ LinesAfter(Tail(l), p - 1) = LinesAfter(l, p)
    <3>1. session'.at = "command"
      BY <2>4, <1>1, <1>2
    <3>2. NotYet'
      BY <3>1, <2>1, <2>2, <2>4, <1>1, <1>2, <1>3, <1>5 DEF NotYet
    <3> QED BY <3>2, <1>1 DEF TextInv
  <2> QED BY <2>2, <2>3, <2>4, <1>1, <1>2, DataTail
<1>6. CASE PastText /\ step \in {"data", "text", "quit"}
  <2>1. NoData(Tail(l)) /\ Head(l) # "data"
    BY <1>1, <1>2, <1>6, DataTail DEF PastText
  <2>2. session'.at = "command"
    BY <2>1, <1>1, <1>2
  <2>3. PastText'
    BY <2>1, <2>2, <1>1, <1>2, <1>3, <1>6 DEF PastText
  <2> QED BY <2>3, <1>1, <1>6 DEF TextInv
<1>7. ~TakesText
  BY <1>1 DEF TakesText
<1> QED BY <1>1, <1>4, <1>5, <1>6, <1>7 DEF TextInv

\* A reply is added to those that arrived.
LEMMA ArrivedGrows ==
    ASSUME Lock, NEW new \in Seq(ReplyLine), replies' = replies \o new, repliesRead' = repliesRead
    PROVE  /\ Arrived' = Arrived \o new /\ Arrived' \in Seq(ReplyLine)
           /\ repliesRead' \in Seq(ReplyLine) /\ replies' \in Seq(ReplyLine)
           /\ Arrived = <<>> => Arrived' = new
           /\ Arrived # <<>> => Arrived' # <<>> /\ Arrived'[1] = Arrived[1] /\ Tail(Arrived') = Tail(Arrived) \o new
<1>1. PICK x \in Seq(ReplyLine), y \in Seq(ReplyLine) : x = repliesRead /\ y = replies
  BY DEF Lock
<1>2. (x \o y) \o new = x \o (y \o new)
  BY ConcatAssociative
<1>3. x \o y \in Seq(ReplyLine) /\ y \o new \in Seq(ReplyLine)
  BY Joined
<1>4. PICK a \in Seq(ReplyLine) : a = Arrived
  BY <1>1, <1>3 DEF Arrived
<1>5. Arrived' = a \o new /\ a \o new \in Seq(ReplyLine)
  BY <1>1, <1>2, <1>4, Joined DEF Arrived
<1>6. a = <<>> => a \o new = new
  BY ConcatEmptySeq
<1>7. a # <<>> => a \o new # <<>> /\ (a \o new)[1] = a[1] /\ Tail(a \o new) = Tail(a) \o new
  OBVIOUS
<1> QED BY <1>1, <1>3, <1>4, <1>5, <1>6, <1>7

\* The reply the client will fail at stays the one it comes to.
LEMMA BadKept ==
    ASSUME NEW a \in Seq(ReplyLine), NEW l \in Seq(Line), Bad(a, l), l # <<>>, NEW new \in Seq(ReplyLine), new # <<>>,
           Head(l) \in {"text", "."} => new[1].code = 500 /\ new[1].last
    PROVE  Bad(a \o new, Tail(l))
<1>1. CASE a = <<>>
  <2>1. a \o new = new
    BY <1>1, ConcatEmptySeq
  <2>2. l[1] = Head(l) /\ l[1] \in {"text", "."}
    BY <1>1 DEF Bad
  <2> QED BY <2>1, <2>2 DEF Bad
<1>2. CASE a # <<>>
  <2>1. a \o new # <<>> /\ (a \o new)[1] = a[1]
    BY <1>2
  <2> QED BY <2>1, <1>2 DEF Bad
<1> QED BY <1>1, <1>2

LEMMA ServerTakesCommandInv == SmtpInv /\ ServerTakesCommand => SmtpInv'
<1> SUFFICES ASSUME SmtpInv, ServerTakesCommand PROVE SmtpInv'
  OBVIOUS
<1>1. SmtpTypes
  BY DEF SmtpInv
<1>2. /\ session.at = "command" /\ lines # <<>> /\ step # "idle" /\ lines' = Tail(lines)
      /\ UNCHANGED <<step, mail, secure, repliesRead, mails>>
      /\ session' \in Sessions /\ session'.text = session.text /\ session'.taken = session.taken
      /\ mailHistory'.exposed = mailHistory.exposed /\ mailHistory'.stale = mailHistory.stale
      /\ mailHistory'.dotted = mailHistory.dotted
      /\ mailHistory' \in MailHistories
  BY <1>1, AnswersFacts
<1>3. PICK new \in Seq(ReplyLine) : ReplyTo(new)
  BY <1>1, AnswersFacts
<1>4. PICK l \in Seq(Line) : l = lines /\ l # <<>> /\ Tail(l) \in Seq(Line)
  BY <1>1, <1>2, SmtpFacts
<1>5. Dotted' = Dotted /\ Whole' = Whole
  BY <1>2 DEF Dotted, Whole
<1>6. SmtpTypes'
  BY <1>1, <1>2, <1>4, <1>5 DEF SmtpTypes, Sessions, MailHistories
<1>7. TextInv'
  BY <1>1, TakesCommandText DEF SmtpInv
<1>8. ASSUME ~mailHistory.stale PROVE Lock' /\ Cover'
  <2>1. Lock /\ Cover
    BY <1>8 DEF SmtpInv
  <2>2. /\ replies' = replies \o new /\ new # <<>> /\ repliesRead' = repliesRead
    BY <1>2, <1>3 DEF ReplyTo
  <2>3. PICK a \in Seq(ReplyLine) : a = Arrived /\ Arrived' = a \o new
    BY <2>1, <2>2, ArrivedGrows DEF Lock
  <2>4. /\ Arrived' \in Seq(ReplyLine) /\ repliesRead' \in Seq(ReplyLine) /\ replies' \in Seq(ReplyLine)
        /\ a = <<>> => Arrived' = new
        /\ a # <<>> => Arrived' # <<>> /\ Arrived'[1] = a[1] /\ Tail(Arrived') = Tail(a) \o new
    BY <2>1, <2>2, <2>3, ArrivedGrows
  <2>5. lines' = Tail(l)
    BY <1>2, <1>4
  <2>6. ASSUME Asked, step # "text"
        PROVE  ReplyIn' /\ Arrived' = new /\ Head(l) = step
    <3>1. a = <<>> /\ l = <<step>>
      BY <2>3, <2>6, <1>4 DEF Asked
    <3>2. Head(l) = step /\ Tail(l) = <<>> /\ Arrived' = new
      BY <3>1, <2>4
    <3>3. CASE step = "ehlo"
      BY <3>2, <3>3, <2>2, <2>5, <1>2, <1>3, <1>4 DEF ReplyTo, ReplyIn
    <3>4. CASE step # "ehlo"
      BY <3>2, <3>4, <2>2, <2>5, <1>2, <1>3, <1>4 DEF ReplyTo, ReplyIn
    <3> QED BY <3>2, <3>3, <3>4
  <2>7. ~ReplyIn
    BY <1>2 DEF ReplyIn
  <2>8. Head(l) \in {"text", "."} => new[1].code = 500 /\ new[1].last
    <3>1. "text" # "ehlo" /\ "." # "ehlo"
      OBVIOUS
    <3> QED BY <3>1, <1>3, <1>4 DEF ReplyTo
  <2>9. ASSUME step \in Steps0 \cup {"greeting"} PROVE Lock' /\ Cover'
    <3>1. InCommands
      BY <2>1, <2>9 DEF Lock, Steps0
    <3>2. Asked /\ step # "text"
      BY <3>1, <2>7, <2>9 DEF InCommands, Steps0
    <3>3. ReplyIn' /\ Arrived' = new /\ Head(l) = step
      BY <3>2, <2>6
    <3>4. InCommands'
      BY <3>1, <3>3, <1>2 DEF InCommands
    <3>5. Lock'
      BY <3>4, <2>4, <2>9, <1>2 DEF Lock, Steps0
    <3>6. Cover'
      <4>1. CASE step = "ehlo"
        <5>1. ~(mailHistory.offered /\ ~secure) /\ ~mailHistory.exposed
          BY <4>1, <2>1, <2>7 DEF Cover
        <5>2. mailHistory'.offered /\ ~secure' => new[2].offers
          BY <5>1, <4>1, <3>3, <1>2, <1>3, <1>4 DEF ReplyTo
        <5> QED BY <5>1, <5>2, <4>1, <3>3, <1>2 DEF Cover
      <4>2. CASE step # "ehlo"
        <5>1. mailHistory'.offered = mailHistory.offered
          BY <4>2, <3>3, <1>3, <1>4 DEF ReplyTo
        <5> QED BY <5>1, <4>2, <2>1, <1>2 DEF Cover
      <4> QED BY <4>1, <4>2
    <3> QED BY <3>5, <3>6
  <2>10. ASSUME step \in {"text", "quit"}, lines \in Seq(TextLines) PROVE Cover' /\ lines' \in Seq(TextLines)
    <3>1. Head(lines) \in TextLines /\ Tail(lines) \in Seq(TextLines)
      BY <2>10, <1>2
    <3>2. mailHistory'.offered = mailHistory.offered
      BY <3>1, <1>3 DEF ReplyTo, TextLines
    <3> QED BY <3>1, <3>2, <2>1, <2>10, <1>2 DEF Cover
  <2>11. ASSUME step = "text" PROVE Lock' /\ Cover'
    <3>1. InText /\ ~TakesText
      BY <2>1, <2>11, <1>2 DEF Lock, Steps0, TakesText
    <3>2. a # <<>> /\ a[1].last /\ lines \in Seq(TextLines) /\ Dotted /\ Bad(Tail(a), l)
      BY <3>1, <2>3, <1>2, <1>4 DEF InText
    <3>3. Tail(a) \in Seq(ReplyLine)
      BY <3>2
    <3>4. Bad(Tail(a) \o new, Tail(l))
      BY <3>2, <3>3, <2>2, <2>8, <1>4, BadKept
    <3>5. session'.at = "command"
      <4>1. Head(lines) \in TextLines
        BY <3>2, <1>2
      <4>2. "data" \notin TextLines /\ "ehlo" \notin TextLines
        BY DEF TextLines
      <4> QED BY <4>1, <4>2, <1>3 DEF ReplyTo
    <3>6. InText'
      BY <3>2, <3>4, <3>5, <2>4, <2>5, <2>10, <2>11, <1>5 DEF InText
    <3> QED BY <3>2, <3>6, <2>4, <2>10, <2>11, <1>2 DEF Lock, Steps0
  <2>12. ASSUME step = "quit" PROVE Lock' /\ Cover'
    <3>1. InQuit
      BY <2>1, <2>12 DEF Lock, Steps0
    <3>2. lines \in Seq(TextLines)
      BY <3>1 DEF InQuit
    <3>3. session'.at = "command"
      <4>1. Head(lines) \in TextLines
        BY <3>2, <1>2
      <4>2. "data" \notin TextLines /\ "ehlo" \notin TextLines
        BY DEF TextLines
      <4> QED BY <4>1, <4>2, <1>3 DEF ReplyTo
    <3>4. CASE Dotted
      <4>1. Bad(a, l)
        BY <3>1, <3>4, <2>3, <1>4 DEF InQuit
      <4>2. Bad(a \o new, Tail(l))
        BY <4>1, <2>2, <2>8, <1>4, BadKept
      <4>3. InQuit'
        BY <4>2, <3>2, <3>3, <3>4, <2>3, <2>5, <2>10, <2>12, <1>5 DEF InQuit
      <4> QED BY <4>3, <3>2, <2>4, <2>10, <2>12, <1>2 DEF Lock, Steps0
    <3>5. CASE ~Dotted
      <4>1. session.taken = <<Whole>> /\ Asked
        BY <3>1, <3>5, <2>7 DEF InQuit
      <4>2. ReplyIn'
        BY <4>1, <2>6, <2>12
      <4>3. InQuit'
        BY <4>1, <4>2, <3>2, <3>3, <3>5, <2>10, <2>12, <1>2, <1>5 DEF InQuit
      <4> QED BY <4>3, <3>2, <2>4, <2>10, <2>12, <1>2 DEF Lock, Steps0
    <3> QED BY <3>4, <3>5
  <2>13. step \in Steps0 \cup {"greeting", "text", "quit"}
    BY <1>1, <1>2 DEF SmtpTypes
  <2> QED BY <2>9, <2>11, <2>12, <2>13
<1> QED BY <1>2, <1>6, <1>7, <1>8 DEF SmtpInv, AcceptedWhole, RepliesConsumed

LEMMA ServerTakesTextInv == SmtpInv /\ ServerTakesText => SmtpInv'
<1> SUFFICES ASSUME SmtpInv, ServerTakesText PROVE SmtpInv'
  OBVIOUS
<1>1. SmtpTypes
  BY DEF SmtpInv
<1>2. /\ session.up /\ session.at = "text" /\ lines # <<>> /\ lines' = Tail(lines)
      /\ UNCHANGED <<step, mail, secure, repliesRead, mails, mailHistory>>
  BY DEF ServerTakesText
<1>3. step # "idle" /\ session \in Sessions
  BY <1>1, <1>2 DEF SmtpTypes, Sessions
<1>4. PICK l \in Seq(Line) : l = lines /\ l # <<>> /\ Tail(l) \in Seq(Line)
  BY <1>1, <1>2, SmtpFacts
<1>5. PICK t \in Seq(Line) : t = session.text
  BY <1>1, SmtpFacts
<1>6. PICK c \in Seq(MailLines) : c = mail
  BY <1>1, SmtpFacts
<1>7. Dotted' = Dotted /\ Whole' = Whole /\ SentText' = SentText /\ Whole = HeadOf(c) /\ (Dotted <=> HasDot(c))
  BY <1>2, <1>6 DEF Dotted, Whole, SentText
<1>8. CASE Head(lines) # "."
  <2>1. session' = [session EXCEPT !.text = Append(t, Head(l))] /\ replies' = replies
    BY <1>4, <1>5, <1>8 DEF ServerTakesText
  <2>2. Append(t, Head(l)) \in Seq(Line) /\ Append(t, Head(l)) \o Tail(l) = t \o l /\ (~HasDot(t) => ~HasDot(Append(t, Head(l))))
    BY <1>4, <1>8, ShiftLine
  <2>3. /\ session' \in Sessions /\ session'.text = Append(t, Head(l)) /\ session'.taken = session.taken /\ session'.at = "text"
    BY <2>1, <2>2, <1>2, <1>3 DEF Sessions
  <2>4. SmtpTypes'
    BY <2>3, <1>1, <1>2, <1>3, <1>4, <1>7 DEF SmtpTypes, Sessions
  <2>5. TakesText => TakesText'
    BY <2>2, <2>3, <1>2, <1>4, <1>5, <1>7 DEF TakesText
  <2>6. ~NotYet /\ ~PastText
    BY <1>2 DEF NotYet, PastText
  <2>7. TextInv'
    BY <2>5, <2>6, <1>2, <1>3, <1>7 DEF SmtpInv, TextInv
  <2>8. ASSUME ~mailHistory.stale PROVE Lock' /\ Cover'
    <3>1. Lock /\ Cover
      BY <2>8 DEF SmtpInv
    <3>2. Arrived' = Arrived
      BY <2>1, <1>2 DEF Arrived
    <3>3. step = "text" /\ TakesText /\ Arrived = <<>>
      <4>1. ~InCommands /\ ~InQuit
        BY <1>2 DEF InCommands, InQuit, Asked, ReplyIn
      <4>2. step = "text" /\ InText
        BY <4>1, <3>1, <1>1, <1>3 DEF Lock, Steps0, SmtpTypes
      <4> QED BY <4>2, <1>2 DEF InText
    <3>4. InText'
      BY <3>2, <3>3, <2>5 DEF InText
    <3>5. Lock'
      BY <3>1, <3>2, <3>3, <3>4, <2>1, <1>2 DEF Lock, Steps0
    <3>6. Cover'
      BY <3>1, <3>3, <1>2 DEF Cover
    <3> QED BY <3>5, <3>6
  <2> QED BY <2>4, <2>7, <2>8, <1>2, <1>3 DEF SmtpInv, AcceptedWhole, RepliesConsumed
<1>9. CASE Head(lines) = "."
  <2>1. PICK code \in {250, 500} :
            /\ session' = [session EXCEPT !.at = "command", !.taken = IF code = 250 THEN Append(session.taken, session.text) ELSE session.taken]
            /\ replies' = replies \o Reply(code)
    BY <1>9 DEF ServerTakesText
  <2>0. PICK y \in Seq(Seq(Line)) : y = session.taken
    BY <1>3 DEF Sessions
  <2> DEFINE k == IF code = 250 THEN Append(y, t) ELSE y
  <2>2. k \in Seq(Seq(Line)) /\ session' = [session EXCEPT !.at = "command", !.taken = k]
    <3>1. Append(y, t) \in Seq(Seq(Line))
      OBVIOUS
    <3>2. k \in Seq(Seq(Line))
      BY <3>1
    <3> QED BY <3>2, <2>0, <2>1, <1>5
  <2>3. session' \in Sessions /\ session'.text = t /\ session'.taken = k /\ session'.at = "command"
    <3> HIDE DEF k
    <3> QED BY <2>2, <1>3, <1>5 DEF Sessions
  <2> HIDE DEF k
  <2>4. SmtpTypes'
    BY <2>3, <1>1, <1>2, <1>3, <1>4, <1>7 DEF SmtpTypes, Sessions
  <2>5. session.taken = <<>> => k = IF code = 250 THEN <<t>> ELSE <<>>
    BY <2>0 DEF k
  <2>6. ASSUME TakesText, step \in {"data", "text", "quit"}
        PROVE  /\ step # "data" /\ Tail(l) \in Seq(TextLines)
               /\ ~HasDot(c) => t = HeadOf(c) /\ (step = "text" => Tail(l) = <<>>)
               /\ HasDot(c) => Tail(l) # <<>> /\ Tail(l)[1] \in MailLines
    <3>1. t \o l = SentText /\ ~HasDot(t) /\ Head(l) = "."
      BY <2>6, <1>4, <1>5, <1>9 DEF TakesText
    <3>2. t \o l # <<>>
      BY <1>4
    <3>3. step # "data"
      BY <3>1, <3>2 DEF SentText
    <3>4. PICK x \in {<<>>, <<"quit">>} : SentText = TextOf(c) \o x /\ (step = "text" => x = <<>>)
      <4>1. TextOf(c) \in Seq(TextLines)
        BY TextFacts
      <4>2. TextOf(c) \o <<>> = TextOf(c)
        BY <4>1, ConcatEmptySeq
      <4>3. CASE step = "text"
        BY <4>2, <4>3, <1>6 DEF SentText
      <4>4. CASE step = "quit"
        BY <4>4, <1>6 DEF SentText
      <4> QED BY <4>3, <4>4, <3>3, <2>6
    <3>5. t \o l = TextOf(c) \o x
      BY <3>1, <3>4
    <3>6. /\ ~HasDot(c) => t = HeadOf(c) /\ (x = <<>> => Tail(l) = <<>>)
          /\ HasDot(c) => Tail(l) # <<>> /\ Tail(l)[1] \in MailLines
          /\ Tail(l) \in Seq(TextLines)
      BY <3>1, <3>5, <1>4, FirstDot
    <3> QED BY <3>3, <3>4, <3>6
  <2>7. TextInv'
    <3> SUFFICES ASSUME ~Dotted PROVE TextInv'
      BY <1>7 DEF TextInv
    <3>1. TakesText /\ step \in {"data", "text", "quit"}
      BY <1>2, <1>3 DEF SmtpInv, TextInv, NotYet, PastText
    <3>2. Tail(l) \in Seq(TextLines) /\ t = Whole
      BY <3>1, <2>6, <1>7
    <3>3. NoData(Tail(l))
      <4>1. PICK z \in Seq(TextLines) : z = Tail(l)
        BY <3>2
      <4>2. NoData(z)
        <5>1. \A i \in 1..Len(z) : z[i] \in TextLines
          BY <4>1
        <5> QED BY <5>1 DEF NoData, TextLines
      <4> QED BY <4>1, <4>2
    <3>4. k \in {<<>>, <<Whole>>}
      BY <3>1, <3>2, <2>5 DEF TakesText
    <3>5. PastText'
      BY <3>3, <3>4, <2>3, <1>2, <1>4, <1>7 DEF PastText
    <3> QED BY <3>1, <3>5, <1>2 DEF TextInv
  <2>8. ASSUME ~mailHistory.stale PROVE Lock' /\ Cover'
    <3>1. Lock /\ Cover
      BY <2>8 DEF SmtpInv
    <3>2. step = "text" /\ TakesText /\ Arrived = <<>>
      <4>1. ~InCommands /\ ~InQuit
        BY <1>2 DEF InCommands, InQuit, Asked, ReplyIn
      <4>2. step = "text" /\ InText
        BY <4>1, <3>1, <1>1, <1>3 DEF Lock, Steps0, SmtpTypes
      <4> QED BY <4>2, <1>2 DEF InText
    <3>3. Reply(code) \in Seq(ReplyLine) /\ Len(Reply(code)) = 1 /\ Reply(code)[1].last /\ Reply(code)[1].code = code /\ Reply(code) # <<>>
      BY DEF Reply, ReplyLine
    <3>4. PICK new \in Seq(ReplyLine) : new = Reply(code) /\ Len(new) = 1 /\ new[1].last /\ new[1].code = code /\ new # <<>>
      BY <3>3
    <3>5. /\ Arrived' = new /\ repliesRead' \in Seq(ReplyLine) /\ replies' \in Seq(ReplyLine)
      BY <3>1, <3>2, <3>4, <2>1, <1>2, ArrivedGrows
    <3>6. /\ Tail(l) \in Seq(TextLines)
          /\ ~Dotted => t = Whole /\ Tail(l) = <<>>
          /\ Dotted => Tail(l) # <<>> /\ Tail(l)[1] \in MailLines
      BY <3>2, <2>6, <1>7
    <3>7. Tail(new) = <<>>
      BY <3>4, ReadFirst
    <3>8. Dotted => Bad(Tail(new), Tail(l))
      BY <3>6, <3>7 DEF Bad, MailLines
    <3>9. code = 250 => k = <<t>>
      BY <3>2, <2>5 DEF TakesText
    <3>10. InText'
      BY <3>4, <3>5, <3>6, <3>8, <3>9, <2>3, <1>2, <1>4, <1>7 DEF InText
    <3>11. Lock'
      BY <3>2, <3>4, <3>5, <3>10, <1>2 DEF Lock, Steps0
    <3>12. Cover'
      BY <3>1, <3>2, <1>2 DEF Cover
    <3> QED BY <3>11, <3>12
  <2> QED BY <2>4, <2>7, <2>8, <1>2, <1>3 DEF SmtpInv, AcceptedWhole, RepliesConsumed
<1> QED BY <1>8, <1>9

\* The session ends, or nothing happens.
LEMMA HangUpInv ==
    ASSUME SmtpInv, NEW u \in {session.up, FALSE}, session' = [session EXCEPT !.up = u],
           UNCHANGED <<step, mail, rcpt, secure, lines, replies, repliesRead, mails, mailHistory>>
    PROVE  SmtpInv'
<1>1. SmtpTypes /\ session \in Sessions
  BY DEF SmtpInv, SmtpTypes, Sessions
<1>2. u \in BOOLEAN /\ (step = "idle" => ~u)
  BY <1>1 DEF SmtpTypes, Sessions
<1>3. session' \in Sessions /\ session'.text = session.text /\ session'.taken = session.taken /\ session'.at = session.at /\ session'.up = u
  BY <1>1, <1>2 DEF Sessions
<1>4. Dotted' = Dotted /\ Whole' = Whole /\ SentText' = SentText /\ Arrived' = Arrived
  BY DEF Dotted, Whole, SentText, Arrived
<1>5. SmtpTypes'
  BY <1>1, <1>2, <1>3, <1>4 DEF SmtpTypes, Sessions
<1>6. NotYet' = NotYet /\ TakesText' = TakesText /\ PastText' = PastText
  BY <1>3, <1>4 DEF NotYet, TakesText, PastText
<1>7. TextInv' = TextInv
  BY <1>3, <1>4, <1>6 DEF TextInv
<1>8. Asked' = Asked /\ ReplyIn' = ReplyIn
  BY <1>3, <1>4 DEF Asked, ReplyIn
<1>9. InCommands' = InCommands
  BY <1>3, <1>8 DEF InCommands
<1>10. InText' = InText
  BY <1>3, <1>4, <1>6 DEF InText
<1>11. InQuit' = InQuit
  BY <1>3, <1>4, <1>8 DEF InQuit
<1>12. Lock' = Lock
  BY <1>4, <1>9, <1>10, <1>11 DEF Lock
<1>13. Cover' = Cover
  BY <1>4, <1>8 DEF Cover
<1>14. AcceptedWhole' = AcceptedWhole /\ RepliesConsumed' = RepliesConsumed
  BY <1>3, <1>4 DEF AcceptedWhole, RepliesConsumed
<1> QED BY <1>5, <1>7, <1>12, <1>13, <1>14 DEF SmtpInv

LEMMA SmtpNextInv == SmtpInv /\ [SmtpNext]_smtpVars => SmtpInv'
<1> SUFFICES ASSUME SmtpInv, [SmtpNext]_smtpVars PROVE SmtpInv'
  OBVIOUS
<1>1. CASE SmtpSend
  BY <1>1, SmtpSendInv
<1>2. CASE SmtpReads
  BY <1>2, SmtpReadsInv
<1>3. CASE SmtpReadFails
  BY <1>3, SmtpReadFailsInv
<1>4. CASE ServerTakesCommand
  BY <1>4, ServerTakesCommandInv
<1>5. CASE ServerTakesText
  BY <1>5, ServerTakesTextInv
<1>6. CASE ServerHangsUp
  <2>1. /\ session' = [session EXCEPT !.up = FALSE]
        /\ UNCHANGED <<step, mail, rcpt, secure, lines, replies, repliesRead, mails, mailHistory>>
    BY <1>6 DEF ServerHangsUp
  <2> QED BY <2>1, HangUpInv
<1>7. CASE UNCHANGED smtpVars
  <2>1. UNCHANGED <<step, mail, rcpt, secure, lines, session, replies, repliesRead, mails, mailHistory>>
    BY <1>7 DEF smtpVars
  <2>2. session \in Sessions
    BY DEF SmtpInv, SmtpTypes, Sessions
  <2>3. session = [session EXCEPT !.up = session.up]
    BY <2>2 DEF Sessions
  <2> QED BY <2>1, <2>3, HangUpInv
<1> QED BY <1>1, <1>2, <1>3, <1>4, <1>5, <1>6, <1>7 DEF SmtpNext

LEMMA SmtpHolds == SmtpInv => MailAcceptedWhole /\ PasswordCovered /\ RepliesConsumed
<1> SUFFICES ASSUME SmtpInv PROVE MailAcceptedWhole /\ PasswordCovered /\ RepliesConsumed
  OBVIOUS
<1>1. SmtpTypes
  BY DEF SmtpInv
<1>2. Whole = WriteHeaders \o mail
  BY DEF Whole, HeadOf, WriteHeaders
<1>3. "." \notin Range(mail) => session.taken \in {<<>>, <<Whole>>}
  BY <1>1, DottedIs DEF SmtpInv, TextInv, NotYet, TakesText, PastText
<1>4. MailAcceptedWhole
  BY <1>2, <1>3 DEF SmtpInv, AcceptedWhole, MailAcceptedWhole
<1>5. PasswordCovered
  BY DEF SmtpInv, Cover, PasswordCovered
<1> QED BY <1>4, <1>5 DEF SmtpInv

(***************************************************************************)
(* The clients stay in step with their servers: http_client.hpp uses a     *)
(* connection again only while it is kept and takes the answers in order,  *)
(* smtp_client.hpp has a mail accepted whole or reports failure, covers    *)
(* the password and leaves no reply, with the exceptions ClientsInStep     *)
(* names.  For every number of requests, recipients and mails, and mails   *)
(* of any length.                                                          *)
(***************************************************************************)
THEOREM ClientsStayInStep == ClientSpec /\ SmtpSpec => []ClientsInStep
<1>1. ClientSpec => []ClientInv
  BY ClientInitInv, ClientNextInv, PTL DEF ClientSpec
<1>2. SmtpSpec => []SmtpInv
  BY SmtpInitInv, SmtpNextInv, PTL DEF SmtpSpec
<1>3. ClientInv /\ SmtpInv => ClientsInStep
  BY SmtpHolds DEF ClientInv, ClientsInStep
<1> QED BY <1>1, <1>2, <1>3, PTL
=============================================================================
