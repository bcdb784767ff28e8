-------------------------------- MODULE Ping --------------------------------
(***************************************************************************)
(* Ping (fabric/ping.cpp): echo requests that threads share, and the loops *)
(* that probe a path with them.                                            *)
(***************************************************************************)
EXTENDS Integers, Sequences, FiniteSets, FiniteSetsExt, Functions

-----------------------------------------------------------------------------
(***************************************************************************)
(* Ping::echo and its answers (fabric/ping.cpp).  Threads that share a     *)
(* Ping object send echo requests, the reactor thread matches what comes   *)
(* back (onReadable for replies, onError for ICMP errors) by a 16 bit      *)
(* sequence number, scaled to SeqSpace.  The network loses, delays and     *)
(* duplicates.  A request is known to the properties by its number among   *)
(* all requests, which no message carries.                                 *)
(***************************************************************************)
CONSTANTS Pingers, SeqSpace,
          MaxEchoes      \* bound: echo requests

ASSUME PingAssumption == SeqSpace \in Nat \ {0}

VARIABLES _sequence,     \* the last sequence number
          _pending,      \* seq -> PendingRequest
          echo,          \* pinger -> its call
          net,           \* what is on its way back
          echoes         \* history: requests made so far

pingVars == <<_sequence, _pending, echo, net, echoes>>

Kinds == {"reply", "expired"}    \* other errors are like expired, and give no sample
NoAnswer == [answered |-> FALSE, from |-> 0, error |-> "none", kinds |-> {}]
NoEcho == [at |-> "idle", seq |-> 0, id |-> 0, attempt |-> 0, res |-> "none", ans |-> NoAnswer, sent |-> 0, received |-> 0, samples |-> 0]
Drop(f, x) == Restrict(f, DOMAIN f \ {x})

\* Under the lock: a number, and an entry for it unless one waits under the same number.
EchoBegins(p) ==
    /\ echo[p].at = "idle" /\ echoes < MaxEchoes
    /\ echoes' = echoes + 1
    /\ _sequence' = (_sequence + 1) % SeqSpace
    /\ IF _sequence' \in DOMAIN _pending
       THEN echo' = [echo EXCEPT ![p].res = "inuse"] /\ UNCHANGED _pending
       ELSE /\ echo' = [echo EXCEPT ![p].at = "write", ![p].seq = _sequence', ![p].id = echoes', ![p].attempt = 0]
            /\ _pending' = [s \in DOMAIN _pending \cup {_sequence'} |-> IF s = _sequence' THEN NoAnswer ELSE _pending[s]]
    /\ UNCHANGED net

\* Written, with the lock kept until the wait: no answer can come too early.
EchoWrites(p, answers) ==
    /\ echo[p].at = "write"
    /\ net' = net \cup {[seq |-> echo[p].seq, id |-> echo[p].id, kind |-> k] : k \in answers}
    /\ echo' = [echo EXCEPT ![p].at = "wait", ![p].sent = @ + 1]
    /\ UNCHANGED <<_sequence, _pending, echoes>>

\* ENOBUFS once: sleep, without the lock, and write again.
EchoRetries(p) ==
    /\ echo[p].at = "write" /\ echo[p].attempt = 0
    /\ echo' = [echo EXCEPT ![p].attempt = 1]
    /\ UNCHANGED <<_sequence, _pending, net, echoes>>

Ends(p, r) == [echo EXCEPT ![p].at = "idle", ![p].res = r, ![p].ans = NoAnswer]

EchoWriteFails(p) ==
    /\ echo[p].at = "write"
    /\ _pending' = Drop(_pending, echo[p].seq) /\ echo' = Ends(p, "failed")
    /\ UNCHANGED <<_sequence, net, echoes>>

EchoTimesOut(p) ==
    /\ echo[p].at = "wait" /\ ~_pending[echo[p].seq].answered
    /\ _pending' = Drop(_pending, echo[p].seq) /\ echo' = Ends(p, "timeout")
    /\ UNCHANGED <<_sequence, net, echoes>>

\* The thread wakes: an answer without an error code counts as received.
EchoAnswered(p) ==
    LET a == _pending[echo[p].seq] IN
    /\ echo[p].at = "wait" /\ a.answered
    /\ _pending' = Drop(_pending, echo[p].seq)
    /\ echo' = [echo EXCEPT ![p].at = "idle", ![p].res = IF a.error = "none" THEN "ok" ELSE a.error, ![p].ans = a,
                            ![p].received = @ + (IF a.error = "none" THEN 1 ELSE 0),
                            ![p].samples = @ + (IF a.error \in {"none", "expired"} THEN 1 ELSE 0)]
    /\ UNCHANGED <<_sequence, net, echoes>>

\* A reply fills its fields, and leaves the error of an earlier answer.
OnReadable(a, m) == [a EXCEPT !.answered = TRUE, !.from = m.id, !.kinds = @ \cup {m.kind}]
OnError(a, m) == [a EXCEPT !.answered = TRUE, !.from = m.id, !.error = m.kind, !.kinds = @ \cup {m.kind}]

\* What matches no waiting request is dropped.  A copy of the message may still be on its way.
Arrives(m, copied) ==
    /\ net' = IF copied THEN net ELSE net \ {m}
    /\ _pending' = [s \in DOMAIN _pending |->
                        IF s # m.seq THEN _pending[s] ELSE IF m.kind = "reply" THEN OnReadable(_pending[s], m) ELSE OnError(_pending[s], m)]
    /\ UNCHANGED <<_sequence, echo, echoes>>

Answers == {{}, {"reply"}, {"expired", "reply"}}

PingInit ==
    /\ _sequence = 0 /\ _pending = <<>> /\ net = {} /\ echoes = 0
    /\ echo = [p \in Pingers |-> NoEcho]
PingNext ==
    \/ \E p \in Pingers :
        \/ EchoBegins(p) \/ EchoRetries(p) \/ EchoWriteFails(p) \/ EchoTimesOut(p) \/ EchoAnswered(p)
        \/ \E a \in Answers : EchoWrites(p, a)
    \/ \E m \in net, copied \in BOOLEAN : Arrives(m, copied)

----------------------------------------------------------------------------
(***************************************************************************)
(* A thread takes only an answer to its own request, however late, copied  *)
(* or reordered answers are: or to a request exactly SeqSpace (65536)      *)
(* requests earlier, whose number it has.                                  *)
(***************************************************************************)
OwnEcho ==
    \A p \in Pingers : (echo[p].at = "idle" /\ echo[p].res \in Kinds \cup {"ok"}) => \E n \in 0..echoes : echo[p].ans.from + n * SeqSpace = echo[p].id

(***************************************************************************)
(* The table holds one entry for each request that waits, and nothing of   *)
(* requests that ended: a number is refused only while it is in use.       *)
(***************************************************************************)
PendingAreWaiting ==
    /\ DOMAIN _pending = {echo[p].seq : p \in {q \in Pingers : echo[q].at # "idle"}}
    /\ \A p, q \in Pingers : (echo[p].at # "idle" /\ echo[q].at # "idle" /\ echo[p].seq = echo[q].seq) => p = q

(***************************************************************************)
(* The statistics count what was on the wire: no more answers than         *)
(* requests, and a request that met an error is not received, even when a  *)
(* reply came too: one entry collects both.                                *)
(***************************************************************************)
RepliesCounted ==
    \A p \in Pingers : /\ echo[p].received <= echo[p].samples /\ echo[p].samples <= echo[p].sent
                       /\ (echo[p].at = "idle" /\ echo[p].res = "ok") => echo[p].ans.kinds = {"reply"}

-----------------------------------------------------------------------------
(***************************************************************************)
(* Ping::pathMtu and Ping::trace (fabric/ping.cpp): loops of echo requests *)
(* that adapt their size and their time to live to what comes back.  The   *)
(* path is the sequence of the MTUs of its links, the first one that of    *)
(* the local interface; the stack remembers what it learns of the path     *)
(* (route) and refuses larger packets itself.  One step is one echo.       *)
(***************************************************************************)
CONSTANTS LinkMtus, MaxLinks,         \* bound: MTUs and number of the links of a path
          LargestPacket, Overhead,    \* _bufferSize, headerSize, scaled
          Probes,                     \* _defaultProbes
          MaxMtuProbes, MaxHops,
          MaxLost                     \* bound: echoes without an answer

\* A link carries more than the headers; of the MTUs that pathMtu's first packet does not exceed there is one
\* (the loopback's 65536); and a path has fewer links than pathMtu may make its packet smaller.
ASSUME PathAssumption ==
    /\ LinkMtus \subseteq Nat /\ Overhead \in Nat \ {0} /\ LargestPacket \in Nat /\ LargestPacket >= Overhead
    /\ \A m \in LinkMtus : m >= Overhead
    /\ \A m, n \in LinkMtus : (m >= LargestPacket /\ n >= LargestPacket) => m = n
    /\ Probes \in Nat \ {0} /\ MaxLinks \in Nat /\ MaxMtuProbes \in Nat /\ MaxLinks < MaxMtuProbes

VARIABLES path, goal,     \* the path, "mtu" or "trace"
          known,          \* the MTU the stack knows for the destination
          mtu, size, narrowed, probe, retry, hop, result, ended,
          lost,           \* history: echoes without an answer
          hops            \* history: the hops told to onHop

\* A path is the sequence of its links' MTUs.
Paths == UNION {[1..n -> LinkMtus] : n \in 1..MaxLinks}

pathVars == <<path, goal, known, mtu, size, narrowed, probe, retry, hop, result, ended, lost, hops>>

Largest(a, b) == IF a > b THEN a ELSE b

\* What becomes of an echo of n data bytes with this time to live.
Outcome(n, ttl) ==
    LET packet == n + Overhead
        small == {i \in 1..Len(path) : i <= ttl /\ path[i] < packet}
    IN  IF packet > known THEN [kind |-> "refused", mtu |-> known]           \* EMSGSIZE, nothing is sent
        ELSE IF small # {} THEN [kind |-> "toobig", mtu |-> path[Min(small)]]
        ELSE [kind |-> IF ttl < Len(path) THEN "expired" ELSE "reply", mtu |-> 0]

Learn(o) == known' = IF o.kind = "toobig" THEN o.mtu ELSE known

Outcomes(n, ttl) == {Outcome(n, ttl)} \cup IF lost < MaxLost /\ Outcome(n, ttl).kind # "refused" THEN {[kind |-> "lost", mtu |-> 0]} ELSE {}
Count(o) == lost' = lost + IF o.kind = "lost" THEN 1 ELSE 0

----------------------------------------------------------------------------
(* pathMtu: down from the largest packet to the first that gets through.   *)

\* Mutant: the packet's headers are not counted.
NextProbeFixed(m) ==
    IF m = mtu \/ probe + 1 = MaxMtuProbes THEN ended' = TRUE /\ UNCHANGED <<mtu, size, probe, retry>>
    ELSE /\ mtu' = m /\ size' = Largest(0, m) /\ probe' = probe + 1 /\ retry' = 0 /\ UNCHANGED ended

\* The inner loop ended: the outer one goes on only when the packet shrank.
NextProbe(m) ==
    IF m = mtu \/ probe + 1 = MaxMtuProbes THEN ended' = TRUE /\ UNCHANGED <<mtu, size, probe, retry>>
    ELSE /\ mtu' = m /\ size' = Largest(0, m - Overhead) /\ probe' = probe + 1 /\ retry' = 0 /\ UNCHANGED ended

MtuEcho(o) ==
    /\ goal = "mtu" /\ ~ended /\ Learn(o) /\ Count(o)
    /\ \/ /\ o.kind = "reply"
          /\ result' = IF ~narrowed /\ known > 0 THEN known ELSE mtu
          /\ NextProbe(mtu) /\ UNCHANGED narrowed
       \/ /\ o.kind \in {"refused", "toobig"} /\ o.mtu < mtu
          /\ narrowed' = TRUE /\ NextProbe(o.mtu) /\ UNCHANGED result
       \/ /\ o.kind = "refused" /\ o.mtu >= mtu                \* isFatal: it was not sent
          /\ NextProbe(mtu) /\ UNCHANGED <<result, narrowed>>
       \/ /\ o.kind \in {"lost", "toobig"} /\ ~(o.kind = "toobig" /\ o.mtu < mtu)
          /\ UNCHANGED <<result, narrowed>>
          /\ IF retry + 1 = Probes THEN NextProbe(mtu) ELSE retry' = retry + 1 /\ UNCHANGED <<mtu, size, probe, ended>>
    /\ UNCHANGED <<path, goal, hop, hops>>

----------------------------------------------------------------------------
(* trace: Probes echoes for each hop; a packet that is too big is made     *)
(* smaller and the hop is tried again.                                     *)

\* The inner loop ended without shrinking the packet.
HopEnds(isReached, aborted) ==
    /\ hops' = Append(hops, hop) /\ probe' = 0 /\ hop' = hop + 1
    /\ ended' = (hop = MaxHops \/ isReached \/ aborted)

TraceEcho(o) ==
    LET shrunk == Largest(0, o.mtu - Overhead)
        narrows == o.mtu > 0 /\ shrunk < size
        reached == IF o.kind = "reply" THEN hop ELSE result
    IN  /\ goal = "trace" /\ ~ended /\ Learn(o) /\ Count(o)
        /\ result' = reached
        /\ IF narrows THEN size' = shrunk /\ probe' = 0 /\ UNCHANGED <<hop, hops, ended>>
           ELSE /\ UNCHANGED size
                /\ IF o.kind = "refused" \/ probe + 1 = Probes THEN HopEnds(reached # -1, o.kind = "refused")
                   ELSE probe' = probe + 1 /\ UNCHANGED <<hop, hops, ended>>
        /\ UNCHANGED <<path, goal, mtu, narrowed, retry>>

PathInit ==
    /\ path \in Paths /\ goal \in {"mtu", "trace"} /\ known = path[1]
    /\ mtu = LargestPacket /\ narrowed = FALSE /\ probe = 0 /\ retry = 0 /\ hop = 1 /\ result = -1 /\ ended = FALSE
    /\ size = LargestPacket - Overhead /\ lost = 0 /\ hops = <<>>
PathNext ==
    \/ \E o \in Outcomes(size, Len(path)) : MtuEcho(o)
    \/ \E o \in Outcomes(size, hop) : TraceEcho(o)

----------------------------------------------------------------------------
(***************************************************************************)
(* pathMtu gives the MTU of the path or fails, however echoes are lost on  *)
(* the way down, and does not fail while fewer than Probes are lost.       *)
(***************************************************************************)
PathMtuExact ==
    (goal = "mtu" /\ ended) => /\ result \in {-1, Min(Range(path))}
                               /\ lost < Probes => result # -1

(***************************************************************************)
(* trace tells of each hop once and in order, and stops at the hop of the  *)
(* destination: it gives a larger one, or none, only when all the echoes   *)
(* of that hop were lost or it is too far.  So too when a link on the way  *)
(* made the packets smaller.                                               *)
(***************************************************************************)
TraceInOrder ==
    goal = "trace" =>
        /\ \A i \in DOMAIN hops : hops[i] = i
        /\ result = -1 \/ result = Len(path) \/ (lost >= Probes /\ result > Len(path))
        /\ Len(hops) <= Len(path) \/ lost >= Probes
        /\ (ended /\ lost < Probes /\ Len(path) <= MaxHops) => result = Len(path)
=============================================================================
