-------------------------------- MODULE Http --------------------------------
(***************************************************************************)
(* HTTP: the server (services/http_server.hpp).                            *)
(***************************************************************************)
EXTENDS Integers, FiniteSets, Sequences

-----------------------------------------------------------------------------
(***************************************************************************)
(* The HTTP server (services/http_server.hpp) and its file cache           *)
(* (services/cache.cpp).  Workers wait in turn, under a mutex, for a       *)
(* connection or for a token of the event descriptor that ends them, and   *)
(* then serve one connection request after request, as long as keep-alive  *)
(* lasts.  A worker is a stream that is used for connection after          *)
(* connection; nothing clears its state between them.                      *)
(***************************************************************************)
CONSTANTS HttpWorkers,  \* the threads create() starts
          Conns,        \* connections clients make
          NoConn,
          KeepMax,      \* _keepMax
          MaxAsked,     \* bound: requests the clients make
          MaxVersions,  \* bound: changes of the file that is served
          MaxCloses     \* bound: calls of close

ASSUME HttpAssumption == KeepMax \in Nat \ {0} /\ IsFiniteSet(HttpWorkers) /\ NoConn \notin Conns

VARIABLES listening,    \* "down", "up", or "closing" while close() joins the workers
          tokens,       \* the count of _event
          selecting,    \* the worker that holds _mutex, as a set
          worker,       \* [at, conn, max, failed, ask, seen, map] of each worker; failed: failbit of its stream;
                        \* seen: st_ctim it read; map: "held" or "lost" (unmapped) while it sends from the mapping
          client,       \* [at, ask, served, said] of each connection
          file,         \* st_ctim of the file served
          mapped,       \* _entries: the version of the file that is mapped, 0 if none
          httpHistory   \* [stray, closes, asked, unfit, dropped, changed]
httpVars == <<listening, tokens, selecting, worker, client, file, mapped, httpHistory>>

\* What a client asks for: what the server makes of it, and whether it wants keep-alive.
Asks == [for : {"malformed", "missing", "refused"}, keep : {FALSE}] \cup [for : {"page"}, keep : BOOLEAN] \cup [for : {"file"}, keep : {TRUE}]
NoAsk == [for |-> "", keep |-> FALSE]

Gone == [at |-> "none", conn |-> NoConn, max |-> 0, failed |-> FALSE, ask |-> NoAsk, seen |-> 0, map |-> "none"]
Newborn == [Gone EXCEPT !.at = "lock"]

\* create: the acceptor, then the workers.
HttpCreate ==
    /\ listening = "down" /\ listening' = "up"
    /\ worker' = [w \in HttpWorkers |-> Newborn]
    /\ UNCHANGED <<tokens, selecting, client, file, mapped, httpHistory>>
\* close: a token for each worker there could be, whether they run or not; then they are joined.
HttpClose ==
    /\ listening # "closing" /\ httpHistory.closes < MaxCloses
    /\ tokens' = tokens + Cardinality(HttpWorkers)
    /\ listening' = "closing"
    /\ httpHistory' = [httpHistory EXCEPT !.closes = @ + 1, !.stray = @ \/ listening = "down"]
    /\ UNCHANGED <<selecting, worker, client, file, mapped>>
\* ~Worker joins; then the acceptor is closed, with the connections nobody took.
HttpClosed ==
    /\ listening = "closing" /\ \A w \in HttpWorkers : worker[w].at = "none"
    /\ listening' = "down"
    /\ client' = [c \in Conns |-> IF client[c].at = "queued" THEN [client[c] EXCEPT !.at = "ended"] ELSE client[c]]
    /\ UNCHANGED <<tokens, selecting, worker, file, mapped, httpHistory>>

\* A client connects, asks, and leaves.
ClientConnects(c) ==
    /\ client[c].at = "new" /\ listening # "down" /\ client' = [client EXCEPT ![c].at = "queued"]
    /\ UNCHANGED <<listening, tokens, selecting, worker, file, mapped, httpHistory>>
ClientAsks(c) ==
    /\ client[c].at \in {"queued", "taken"} /\ client[c].ask = NoAsk /\ httpHistory.asked < MaxAsked
    /\ \E a \in Asks : client' = [client EXCEPT ![c].ask = a]
    /\ httpHistory' = [httpHistory EXCEPT !.asked = @ + 1]
    /\ UNCHANGED <<listening, tokens, selecting, worker, file, mapped>>
ClientLeaves(c) ==
    /\ client[c].at = "taken" /\ client' = [client EXCEPT ![c].at = "left"]    \* before that, it makes no difference
    /\ UNCHANGED <<listening, tokens, selecting, worker, file, mapped, httpHistory>>
FileChanges ==
    /\ file < MaxVersions /\ file' = file + 1
    /\ httpHistory' = [httpHistory EXCEPT !.changed = @ \/ \E w \in HttpWorkers : worker[w].at \in {"get", "send"}]
    /\ UNCHANGED <<listening, tokens, selecting, worker, client, mapped>>

\* work: one worker at a time waits in select.
WorkLocks(w) ==
    /\ worker[w].at = "lock" /\ selecting = {}
    /\ selecting' = {w} /\ worker' = [worker EXCEPT ![w].at = "select"]
    /\ UNCHANGED <<listening, tokens, client, file, mapped, httpHistory>>
\* A token ends the worker: read takes one, as the descriptor is a semaphore.
WorkToken(w) ==
    /\ worker[w].at = "select" /\ tokens > 0
    /\ tokens' = tokens - 1 /\ selecting' = {} /\ worker' = [worker EXCEPT ![w] = Gone]
    /\ UNCHANGED <<listening, client, file, mapped, httpHistory>>
\* A connection is accepted; _max starts afresh, the stream goes on as it is.
WorkAccepts(w) ==
    /\ worker[w].at = "select" /\ tokens = 0
    /\ \E c \in Conns :
        /\ client[c].at = "queued"
        /\ client' = [client EXCEPT ![c].at = "taken"]
        /\ worker' = [worker EXCEPT ![w].at = "read", ![w].conn = c, ![w].max = KeepMax]
        /\ httpHistory' = [httpHistory EXCEPT !.unfit = IF worker[w].failed THEN @ \cup {c} ELSE @]
    /\ selecting' = {}
    /\ UNCHANGED <<listening, tokens, file, mapped>>
\* Nothing is accepted, or the TLS session cannot be set up: the socket is closed.
WorkAcceptFails(w) ==
    /\ worker[w].at = "select" /\ tokens = 0
    /\ \E c \in Conns : client[c].at = "queued" /\ client' = [client EXCEPT ![c].at = "ended"]
    /\ selecting' = {} /\ worker' = [worker EXCEPT ![w].at = "read", ![w].max = KeepMax]
    /\ UNCHANGED <<listening, tokens, file, mapped, httpHistory>>
\* select is interrupted: processRequest runs on the socket of the last connection, which is closed.
WorkInterrupted(w) ==
    /\ worker[w].at = "select" /\ tokens = 0
    /\ selecting' = {} /\ worker' = [worker EXCEPT ![w].at = "read", ![w].max = KeepMax]
    /\ UNCHANGED <<listening, tokens, client, file, mapped, httpHistory>>

Ask(w) == IF worker[w].conn = NoConn THEN NoAsk ELSE client[worker[w].conn].ask
Here(w) == worker[w].conn # NoConn /\ client[worker[w].conn].at = "taken"
\* endRequest: disconnect flushes and waits for the peer to close, and fails if it does not; then close.
EndRequest(w, failed) ==
    /\ worker' = [worker EXCEPT ![w] = [Newborn EXCEPT !.failed = failed]]
    /\ IF worker[w].conn = NoConn
       THEN UNCHANGED <<client, httpHistory>>
       ELSE /\ client' = [client EXCEPT ![worker[w].conn].at = "ended"]
            /\ httpHistory' = [httpHistory EXCEPT !.dropped =
                    IF Here(w) /\ Ask(w) # NoAsk THEN @ \cup {worker[w].conn} ELSE @]

\* readRequest: the headers are read from a sound stream; the client's leaving, the timeout and a
\* closed socket make the stream fail.  A malformed request is answered, and ends the connection.
ReadsRequest(w) ==
    /\ worker[w].at = "read" /\ ~worker[w].failed /\ Here(w) /\ Ask(w) # NoAsk
    /\ worker' = [worker EXCEPT ![w].at = IF Ask(w).for = "malformed" THEN "end" ELSE "answer", ![w].ask = Ask(w)]
    /\ client' = [client EXCEPT ![worker[w].conn].ask = NoAsk, ![worker[w].conn].served = @ + 1,
                                ![worker[w].conn].said = @ \/ Ask(w).for = "malformed"]
    /\ UNCHANGED <<listening, tokens, selecting, file, mapped, httpHistory>>

ReadsNothing(w) ==
    /\ worker[w].at = "read"
    /\ \/ worker[w].failed
       \/ ~Here(w)
       \/ Ask(w) = NoAsk    \* _keepTimeout passes
    /\ EndRequest(w, TRUE)
    /\ UNCHANGED <<listening, tokens, selecting, file, mapped>>
WorkEnds(w) ==
    /\ worker[w].at = "end"
    /\ \E failed \in {worker[w].failed, Here(w) \/ worker[w].failed} : EndRequest(w, failed)
    /\ UNCHANGED <<listening, tokens, selecting, file, mapped>>

\* Mutant: _max is compared before it is counted down.
LoopsPost(max) == max < 0 \/ max # 0

\* The loop of processRequest, once an answer is written with _max as it is now.
Loops(max) == max < 0 \/ max - 1 # 0
After(max) == IF max < 0 THEN max ELSE max - 1
\* sendHeaders and sendError: the answer says close, and _max = 0, unless keep-alive goes on.
Answers(w, close) ==
    LET max == IF close THEN 0 ELSE worker[w].max
        lost == ~Here(w)
    IN  /\ \E failed \in {worker[w].failed, worker[w].failed \/ lost} :   \* what is flushed to a client that left may fail
            worker' = [worker EXCEPT ![w].at = IF Loops(max) THEN "read" ELSE "end", ![w].max = After(max),
                                     ![w].failed = failed, ![w].ask = NoAsk, ![w].seen = 0, ![w].map = "none"]
        /\ client' = [client EXCEPT ![worker[w].conn].said = @ \/ close]
SendHeaders(w) == Answers(w, ~(worker[w].max # 0 /\ worker[w].ask.keep))
SendRedirect(w) == SendHeaders(w)
SendError(w) == Answers(w, TRUE)

\* writeResponse but for files: errors, pages and redirections; a refusal that is neither 401 nor 403 is not answered.
WriteResponse(w) ==
    /\ worker[w].at = "answer"
    /\ \/ worker[w].ask.for = "missing" /\ SendError(w)
       \/ worker[w].ask.for = "page" /\ (SendHeaders(w) \/ SendRedirect(w))
       \/ /\ worker[w].ask.for = "refused"
          /\ \/ SendError(w)
             \/ /\ worker' = [worker EXCEPT ![w].at = IF Loops(worker[w].max) THEN "read" ELSE "end",
                                            ![w].max = After(@), ![w].ask = NoAsk]
                /\ UNCHANGED client
    /\ UNCHANGED <<listening, tokens, selecting, file, mapped, httpHistory>>

\* sendFile, and stat in Cache::get, which no lock covers.
CacheStat(w) ==
    /\ worker[w].at = "answer" /\ worker[w].ask.for = "file"
    /\ worker' = [worker EXCEPT ![w].at = "get", ![w].seen = file]
    /\ UNCHANGED <<listening, tokens, selecting, client, file, mapped, httpHistory>>
Unmapping(w, lost) ==
    [v \in HttpWorkers |-> IF v = w THEN [worker[v] EXCEPT !.at = "send", !.map = "held"]
                           ELSE IF lost /\ worker[v].map = "held" THEN [worker[v] EXCEPT !.map = "lost"] ELSE worker[v]]
\* The rest of Cache::get: an entry of another time than the one seen is unmapped, and the file mapped again.
CacheGet(w) ==
    /\ worker[w].at = "get" /\ mapped' = worker[w].seen /\ worker' = Unmapping(w, mapped \notin {0, worker[w].seen})
    /\ UNCHANGED <<listening, tokens, selecting, client, file, httpHistory>>
\* The mapping is written, without a lock.
FileSent(w) ==
    /\ worker[w].at = "send" /\ SendHeaders(w)
    /\ httpHistory' = [httpHistory EXCEPT !.changed = @ /\ \E v \in HttpWorkers \ {w} : worker[v].at \in {"get", "send"}]
    /\ UNCHANGED <<listening, tokens, selecting, file, mapped>>

HttpWork(w) ==
    \/ WorkLocks(w) \/ WorkToken(w) \/ WorkAccepts(w) \/ ReadsRequest(w) \/ ReadsNothing(w)
    \/ WorkEnds(w) \/ WriteResponse(w) \/ CacheStat(w) \/ CacheGet(w) \/ FileSent(w)

HttpInit ==
    /\ listening = "down" /\ tokens = 0 /\ selecting = {} /\ file = 1 /\ mapped = 0
    /\ worker = [w \in HttpWorkers |-> Gone]
    /\ client = [c \in Conns |-> [at |-> "new", ask |-> NoAsk, served |-> 0, said |-> FALSE]]
    /\ httpHistory = [stray |-> FALSE, closes |-> 0, asked |-> 0, unfit |-> {}, dropped |-> {}, changed |-> FALSE]
HttpNext ==
    \/ HttpCreate \/ HttpClose \/ HttpClosed \/ FileChanges
    \/ \E c \in Conns : ClientConnects(c) \/ ClientAsks(c) \/ ClientLeaves(c)
    \/ \E w \in HttpWorkers : HttpWork(w) \/ WorkAcceptFails(w) \/ WorkInterrupted(w)
HttpSpec == HttpInit /\ [][HttpNext]_httpVars

----------------------------------------------------------------------------
(***************************************************************************)
(* As long as no answer has said close, a connection is given no more than *)
(* _keepMax answers.  (Once one has, _max = 0 becomes -1, which is no      *)
(* limit, and the loop goes on.)                                           *)
(***************************************************************************)
KeptWithinMax == \A c \in Conns : client[c].said \/ client[c].served <= KeepMax

(***************************************************************************)
(* Every worker that still runs finds a token when the server closes, and  *)
(* none outlives it, so that the workers of the next create are not ended  *)
(* by it - unless close was called with no server to close.                *)
(***************************************************************************)
TokensMatchWorkers ==
    httpHistory.stray \/ tokens = IF listening = "closing" THEN Cardinality({w \in HttpWorkers : worker[w].at # "none"}) ELSE 0

(***************************************************************************)
(* A client that has asked is turned away without an answer only when it   *)
(* has had its share, was told so, or fell to a worker whose stream an     *)
(* earlier connection left failed: such a worker takes connections and     *)
(* answers none.                                                           *)
(***************************************************************************)
TurnedAwayByUnfit ==
    \A c \in httpHistory.dropped : c \in httpHistory.unfit \/ client[c].said \/ client[c].served = KeepMax

(***************************************************************************)
(* What a worker is sending is mapped, unless the file changed while one   *)
(* was being sent or looked up: then get may have unmapped it, and by the  *)
(* time of an older stat even the newer mapping.                           *)
(***************************************************************************)
SentIsMapped == \A w \in HttpWorkers : worker[w].map = "lost" => httpHistory.changed

(***************************************************************************)
(* The HTTP server: keep-alive within _keepMax, a token for each worker    *)
(* that is to end, nobody turned away without a reason, and files sent     *)
(* from memory that is mapped.                                             *)
(***************************************************************************)
ServerKeepsWord == KeptWithinMax /\ TokensMatchWorkers /\ TurnedAwayByUnfit /\ SentIsMapped
=============================================================================
