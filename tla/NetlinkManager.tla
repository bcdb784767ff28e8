--------------------------- MODULE NetlinkManager ---------------------------
(***************************************************************************)
(* The managers of the kernel's tables (fabric/): requests, dumps and      *)
(* notifications, and how a message is read into an entry.                 *)
(***************************************************************************)
EXTENDS Integers, Sequences, FiniteSets, Functions, SequencesExt

-----------------------------------------------------------------------------
(***************************************************************************)
(* The managers of fabric/ that mirror a table of the kernel: interfaces,  *)
(* neighbours and routes (interface_manager.cpp, neighbor_manager.cpp,     *)
(* route_manager.cpp) over NetlinkManager (netlink_manager.cpp).  Threads  *)
(* send requests, the kernel executes a request when it is written and     *)
(* queues its notifications, then its answer, on the manager's socket, and *)
(* the reactor thread applies them to the cache, tells the listeners and   *)
(* wakes the waiting threads.  Dumps are written by the reactor thread, as *)
(* jobs.  Other programs change the kernel's table too.                    *)
(***************************************************************************)
CONSTANTS Callers, NlKeys, NlValues, Metrics,
          RcvBuffer,            \* bound: messages the socket holds
          MaxSeq, MaxOther      \* bounds: requests, changes by other programs

ASSUME NetlinkAssumption == Metrics \subseteq Nat /\ RcvBuffer \in Nat

VARIABLES flavour,    \* "link", "neighbor" or "route": whose table
          kernel,     \* the kernel's entries: <<key, metric>> -> value
          wire,       \* the messages queued on the socket
          overrun,    \* a message was dropped, the next read fails with ENOBUFS
          cache,      \* _interfaces, _neighbors, _routes: key -> value
          pending,    \* _pending: seq -> "waiting" or the answer
          jobs,       \* _jobs, by caller
          wakeup,     \* the eventfd is readable
          reactor,    \* "loop", "drain" (popping jobs) or "gone" (stop removed the handlers)
          seq,        \* _seq
          call,       \* caller -> its call
          told,       \* history: the table a listener builds from what it is told
          history     \* history: what happened, for the properties

netlinkVars == <<flavour, kernel, wire, overrun, cache, pending, jobs, wakeup, reactor, seq, call, told, history>>
calling == <<jobs, wakeup, seq>>

NoCall == [at |-> "idle", op |-> "none", key |-> "none", val |-> 0, metric |-> 0, seq |-> 0, res |-> "none"]
Without(f, x) == Restrict(f, DOMAIN f \ {x})
With(f, x, v) == [y \in DOMAIN f \cup {x} |-> IF y = x THEN v ELSE f[y]]

----------------------------------------------------------------------------
(* The kernel: a request gives a table, notifications and an answer.       *)

New(k, v) == [type |-> "new", key |-> k, val |-> v]
Del(k) == [type |-> "del", key |-> k, val |-> 0]
Answer(s, e) == [type |-> "answer", key |-> s, val |-> e]

Of(k) == {e \in DOMAIN kernel : e[1] = k}
Refused(e) == [kernel |-> kernel, msgs |-> <<>>, err |-> e]
Changed(t, m) == [kernel |-> t, msgs |-> <<m>>, err |-> "ok"]

\* NLM_F_CREATE | NLM_F_EXCL
KernelAdd(k, m, v) == IF <<k, m>> \in DOMAIN kernel THEN Refused("exists") ELSE Changed(With(kernel, <<k, m>>, v), New(k, v))
\* NLM_F_CREATE | NLM_F_REPLACE
KernelSet(k, m, v) == Changed(With(kernel, <<k, m>>, v), New(k, v))
\* Without a metric in the request, the entry of the lowest metric goes.
KernelDel(k) ==
    IF Of(k) = {} THEN Refused("absent")
    ELSE Changed(Without(kernel, CHOOSE e \in Of(k) : \A d \in Of(k) : e[2] <= d[2]), Del(k))
KernelDump == [kernel |-> kernel, msgs |-> SetToSeq({New(e[1], kernel[e]) : e \in DOMAIN kernel}), err |-> "ok"]

\* A full socket drops the message.
Queue(msgs) ==
    /\ wire' = wire \o SubSeq(msgs, 1, IF Len(msgs) > RcvBuffer - Len(wire) THEN RcvBuffer - Len(wire) ELSE Len(msgs))
    /\ overrun' = (overrun \/ Len(msgs) > RcvBuffer - Len(wire))

\* The keys under which the kernel has two entries.
SharedIn(t) == {k \in NlKeys : \E d, e \in DOMAIN t : d[1] = k /\ e[1] = k /\ d # e}

OtherProgram(r) ==
    /\ history.other < MaxOther /\ r.err = "ok"
    /\ Queue(r.msgs) /\ kernel' = r.kernel
    /\ history' = [history EXCEPT !.other = @ + 1, !.lost = @ \/ overrun',
                                  !.shared = @ \cup SharedIn(r.kernel)]
    /\ UNCHANGED <<flavour, cache, pending, reactor, call, told, calling>>

----------------------------------------------------------------------------
(* The requests, as the managers build them: an operation, what it names.  *)

Request(c, o, k, m, v) ==
    /\ call[c].at = "idle" /\ seq < MaxSeq
    /\ call' = [call EXCEPT ![c] = [NoCall EXCEPT !.at = "insert", !.op = o, !.key = k, !.metric = m, !.val = v, !.seq = seq + 1]]
    /\ seq' = seq + 1
    /\ UNCHANGED <<flavour, kernel, wire, overrun, cache, pending, jobs, wakeup, reactor, told, history>>

AddNeighbor(c, k, v) == flavour = "neighbor" /\ Request(c, "add", k, 0, v)
SetNeighbor(c, k, v) == flavour = "neighbor" /\ Request(c, "set", k, 0, v)
RemoveNeighbor(c, k) == flavour = "neighbor" /\ Request(c, "remove", k, 0, 0)

AddRoute(c, k, m, v) == flavour = "route" /\ Request(c, "add", k, m, v)
SetRoute(c, k, m, v) == flavour = "route" /\ Request(c, "set", k, m, v)
\* Only a route that is cached can be removed: its gateway is part of the request.
RemoveRoute(c, k) == flavour = "route" /\ k \in DOMAIN cache /\ Request(c, "remove", k, 0, 0)

\* dummy, bridge, vlan, veth and gre differ in the attributes.
CreateInterface(c, k, v) == flavour = "link" /\ Request(c, "add", k, 0, v)
RemoveInterface(c, k) == flavour = "link" /\ Request(c, "remove", k, 0, 0)
\* mtu, mac, addToBridge, enable: RTM_SETLINK.
SetInterface(c, k, v) == flavour = "link" /\ Request(c, "set", k, 0, v)

\* refresh empties the cache, and tells the listeners nothing of it.
Refresh(c) ==
    /\ call[c].at = "idle" /\ seq < MaxSeq
    /\ call' = [call EXCEPT ![c] = [NoCall EXCEPT !.at = "insert", !.op = "dump", !.seq = seq + 1]]
    /\ seq' = seq + 1 /\ cache' = <<>>
    /\ history' = [history EXCEPT !.cleared = TRUE]
    /\ UNCHANGED <<flavour, kernel, wire, overrun, pending, jobs, wakeup, reactor, told>>

----------------------------------------------------------------------------
(* sendRequest, step by step.                                              *)

Goes(c, at) == call' = [call EXCEPT ![c].at = at]

\* The request is entered before it is written, so that its answer finds it.
Insert(c) ==
    /\ call[c].at = "insert"
    /\ pending' = With(pending, call[c].seq, "waiting")
    /\ Goes(c, IF call[c].op = "dump" THEN "push" ELSE "write")
    /\ UNCHANGED <<flavour, kernel, wire, overrun, cache, reactor, told, history, calling>>

Execute(o) == CASE o.op = "add" -> KernelAdd(o.key, o.metric, o.val)
                [] o.op = "set" -> IF flavour = "link" /\ Of(o.key) = {} THEN Refused("absent") ELSE KernelSet(o.key, o.metric, o.val)
                [] o.op = "remove" -> KernelDel(o.key)
                [] o.op = "dump" -> KernelDump

\* The notifications of a request are queued before its answer.
WriteRequest(c) ==
    LET r == Execute(call[c])
        m == Append(r.msgs, Answer(call[c].seq, r.err))
    IN  /\ Queue(m)
        /\ kernel' = r.kernel
        /\ history' = [history EXCEPT !.lost = @ \/ overrun', !.answers = With(@, call[c].seq, r.err),
                                      !.shared = @ \cup SharedIn(r.kernel)]

SendDirect(c) ==
    /\ call[c].at = "write" /\ WriteRequest(c) /\ Goes(c, "wait")
    /\ UNCHANGED <<flavour, cache, pending, reactor, told, calling>>

\* pushJob from another thread: queue, wake the reactor, spin until the job is done.
PushJob(c) ==
    /\ call[c].at = "push" /\ jobs' = Append(jobs, c) /\ Goes(c, "signal")
    /\ UNCHANGED <<flavour, kernel, wire, overrun, cache, pending, wakeup, reactor, seq, told, history>>
SignalJob(c) ==
    /\ call[c].at = "signal" /\ wakeup' = TRUE
    /\ call' = [call EXCEPT ![c].at = IF @ = "signal" /\ call[c].res = "written" THEN "wait" ELSE "spin"]
    /\ UNCHANGED <<flavour, kernel, wire, overrun, cache, pending, jobs, reactor, seq, told, history>>

Reply(s) == pending[s]
\* The wait ends with an answer, or with the time that is up: the request is forgotten either way.
WaitEnds(c, r) ==
    /\ call[c].at = "wait"
    /\ \/ r = Reply(call[c].seq) /\ r # "waiting"
       \/ r = "timeout" /\ Reply(call[c].seq) = "waiting"
    /\ pending' = Without(pending, call[c].seq)
    /\ call' = [call EXCEPT ![c] = [NoCall EXCEPT !.seq = call[c].seq, !.res = r]]
    /\ UNCHANGED <<flavour, kernel, wire, overrun, cache, reactor, told, history, calling>>

----------------------------------------------------------------------------
(* The reactor thread: onReadable.                                         *)

DrainBegins ==
    /\ reactor = "loop" /\ wakeup /\ wakeup' = FALSE /\ reactor' = "drain"
    /\ UNCHANGED <<flavour, kernel, wire, overrun, cache, pending, jobs, seq, call, told, history>>

RunJob ==
    /\ reactor = "drain" /\ jobs # <<>>
    /\ LET c == Head(jobs) IN
       /\ WriteRequest(c)
       /\ call' = [call EXCEPT ![c].at = IF @ = "spin" THEN "wait" ELSE @, ![c].res = "written"]
    /\ jobs' = Tail(jobs)
    /\ UNCHANGED <<flavour, cache, pending, wakeup, reactor, seq, told>>

\* Mutant: the drain ends with jobs still queued.
DrainEndsEarly ==
    /\ reactor = "drain" /\ reactor' = "loop"
    /\ UNCHANGED <<flavour, kernel, wire, overrun, cache, pending, jobs, wakeup, seq, call, told, history>>

DrainEnds ==
    /\ reactor = "drain" /\ jobs = <<>> /\ reactor' = "loop"
    /\ UNCHANGED <<flavour, kernel, wire, overrun, cache, pending, jobs, wakeup, seq, call, told, history>>

\* An answer nobody waits for any more is dropped.
NotifyRequest(s, e) == pending' = [p \in DOMAIN pending |-> IF p = s THEN e ELSE pending[p]]
NotifyAllRequests == pending' = [p \in DOMAIN pending |-> "overrun"]

\* acquire and updateValue under the locks, then the listeners.
OnNew(k, v) == cache' = With(cache, k, v) /\ told' = With(told, k, v)

\* Only the interface manager tells of an entry it did not have, and then the listener gets a null interface.
OnDel(k) ==
    /\ cache' = Without(cache, k)
    /\ told' = IF k \in DOMAIN cache THEN Without(told, k) ELSE told
    /\ history' = [history EXCEPT !.nulls = @ \/ (flavour = "link" /\ k \notin DOMAIN cache)]

OnMessage ==
    /\ reactor = "loop" /\ ~overrun /\ wire # <<>> /\ wire' = Tail(wire)
    /\ LET m == Head(wire) IN
       \/ m.type = "new" /\ OnNew(m.key, m.val) /\ UNCHANGED <<pending, history>>
       \/ m.type = "del" /\ OnDel(m.key) /\ UNCHANGED pending
       \/ m.type = "answer" /\ NotifyRequest(m.key, m.val) /\ UNCHANGED <<cache, told, history>>
    /\ UNCHANGED <<flavour, kernel, overrun, reactor, call, calling>>

\* ENOBUFS: every waiting request fails; the cache is not refreshed.
OnOverrun ==
    /\ reactor = "loop" /\ overrun /\ overrun' = FALSE /\ NotifyAllRequests
    /\ UNCHANGED <<flavour, kernel, wire, cache, reactor, call, told, history, calling>>

Stop ==
    /\ reactor = "loop" /\ \A c \in Callers : call[c].at \in {"idle", "insert"}
    /\ reactor' = "gone"
    /\ UNCHANGED <<flavour, kernel, wire, overrun, cache, pending, told, history, call, calling>>

----------------------------------------------------------------------------
NetlinkInit ==
    /\ flavour \in {"link", "neighbor", "route"}
    /\ kernel = <<>> /\ wire = <<>> /\ overrun = FALSE /\ cache = <<>> /\ pending = <<>>
    /\ jobs = <<>> /\ wakeup = FALSE /\ reactor = "loop" /\ seq = 0
    /\ call = [c \in Callers |-> NoCall] /\ told = <<>>
    /\ history = [other |-> 0, lost |-> FALSE, cleared |-> FALSE, nulls |-> FALSE, shared |-> {}, answers |-> <<>>]

MetricsOf == IF flavour = "route" THEN Metrics ELSE {0}

NetlinkNext ==
    \/ \E k \in NlKeys, m \in MetricsOf, v \in NlValues : OtherProgram(KernelSet(k, m, v))
    \/ \E k \in NlKeys : OtherProgram(KernelDel(k))
    \/ \E c \in Callers :
        \/ \E k \in NlKeys, v \in NlValues :
            \/ AddNeighbor(c, k, v) \/ SetNeighbor(c, k, v) \/ CreateInterface(c, k, v) \/ SetInterface(c, k, v)
            \/ \E m \in Metrics : AddRoute(c, k, m, v) \/ SetRoute(c, k, m, v)
        \/ \E k \in NlKeys : RemoveNeighbor(c, k) \/ RemoveRoute(c, k) \/ RemoveInterface(c, k)
        \/ Refresh(c) \/ Insert(c) \/ SendDirect(c) \/ PushJob(c) \/ SignalJob(c)
        \/ \E r \in {"ok", "exists", "absent", "overrun", "timeout"} : WaitEnds(c, r)
    \/ DrainBegins \/ RunJob \/ DrainEnds \/ OnMessage \/ OnOverrun \/ Stop

----------------------------------------------------------------------------
About(k) == {i \in DOMAIN wire : wire[i].type # "answer" /\ wire[i].key = k}
\* What a message says of its key, and what a table holds under a key: a value, or nothing.
Said(m) == IF m.type = "new" THEN {m.val} ELSE {}
Held(t, k) == IF k \in DOMAIN t THEN {t[k]} ELSE {}
\* The cache will hold V under k once the queued messages are read: the last one about k says it.
ReplaysTo(k, V) ==
    \/ About(k) = {} /\ Held(cache, k) = V
    \/ \E i \in About(k) : (\A j \in About(k) : j <= i) /\ Said(wire[i]) = V
Table == [k \in {e[1] : e \in DOMAIN kernel} |-> kernel[CHOOSE e \in Of(k) : TRUE]]
Dumping == \E c \in Callers : call[c].op = "dump" /\ call[c].at # "idle" /\ call[c].seq \notin DOMAIN history.answers

(***************************************************************************)
(* The cache follows the kernel: with the messages still queued on the     *)
(* socket applied to it, it is the kernel's table.  So a request that was  *)
(* answered is visible to the thread that made it, whatever notifications, *)
(* refreshes and other programs do meanwhile.  Not while a refresh has     *)
(* cleared and not yet dumped, not for a prefix that ever had two routes   *)
(* (the cache's key leaves the metric out), and never again after the      *)
(* socket lost a message: nothing refreshes the cache then.                *)
(***************************************************************************)
CacheFollowsKernel ==
    (~history.lost /\ ~Dumping /\ reactor # "gone") =>
        \A k \in NlKeys \ history.shared : ReplaysTo(k, Held(Table, k))

(***************************************************************************)
(* A thread's result is the kernel's answer to its own request, never the  *)
(* answer to another one or a late answer to an earlier one.               *)
(***************************************************************************)
OwnAnswer ==
    \A c \in Callers : (call[c].at = "idle" /\ call[c].res \in {"ok", "exists", "absent"}) => call[c].res = history.answers[call[c].seq]

(***************************************************************************)
(* No job is forgotten: when one is queued, its thread has yet to write    *)
(* the eventfd, or the reactor will look at the queue again.  The threads  *)
(* that spin have no timeout.                                              *)
(***************************************************************************)
JobsNoticed ==
    jobs # <<>> => (wakeup \/ reactor = "drain" \/ \E i \in DOMAIN jobs : call[jobs[i]].at = "signal")

(***************************************************************************)
(* A listener that replays what it is told has the cache, and is never     *)
(* told of an interface that is not there: unless a refresh emptied the    *)
(* cache without telling it, or the socket lost a message.                 *)
(***************************************************************************)
ListenersKeepUp == (~history.cleared /\ ~history.lost) => (told = cache /\ ~history.nulls)

-----------------------------------------------------------------------------
(***************************************************************************)
(* How the managers of fabric/ read the messages of the kernel into their  *)
(* entries: onLinkMessage and onAddressMessage (interface_manager.cpp),    *)
(* onNeighborMessage (neighbor_manager.cpp), onRouteMessage                *)
(* (route_manager.cpp).  One entry of each table; the kernel's side of it  *)
(* changes, and the message of the change is read.  A message carries the  *)
(* attributes that the entry has, in the kernel's order.                   *)
(***************************************************************************)
CONSTANTS Fields,        \* values of a mac, a name, an mtu, a gateway
          Masters,       \* bridges
          Ips, PrefixLengths, \* addresses of an interface
          MaxChanges     \* bound: changes of the kernel's entries

VARIABLES link,      \* the kernel's interface: a record, or Absent
          iface,     \* the manager's Interface, or Absent
          addrs,     \* the kernel's addresses of it: <<ip, prefix>>
          _addresses,\* Interface::_addresses
          route, _route, neigh, _neigh,
          info,      \* the flags of the last notification
          changes,
          twice,     \* history: addresses the interface had with two prefixes
          released   \* history: the interface left a bridge

tableVars == <<link, iface, addrs, _addresses, route, _route, neigh, _neigh, info, changes, twice, released>>
linkVars == <<link, iface, addrs, _addresses, twice, released>>

Absent == [absent |-> TRUE]
NoMaster == 0
Attr(t, v) == [type |-> t, val |-> v]

\* updateValue: a change is stored and flagged.
UpdateValue(entry, f, v) == [entry EXCEPT ![f] = v]
FlagsOf(old, new) == {f \in DOMAIN new : old[f] # new[f]}

FreshInterface == [up |-> FALSE, running |-> FALSE, mac |-> 0, name |-> 0, mtu |-> 0, kind |-> 0, master |-> 0]
Links == [up : BOOLEAN, running : BOOLEAN, mac : Fields, name : {1}, mtu : Fields, kind : {1}, master : Masters \cup {NoMaster}]

\* The kernel names a master only while there is one.
LinkAttrs(l) ==
    <<Attr("name", l.name), Attr("mtu", l.mtu)>> \o (IF l.master = NoMaster THEN <<>> ELSE <<Attr("master", l.master)>>)
    \o <<Attr("mac", l.mac), Attr("kind", l.kind)>>

\* The loop over the attributes: what the message leaves out stays as it was.
ReadAttrs(entry, attrs) == FoldLeft(LAMBDA e, a : UpdateValue(e, a.type, a.val), entry, attrs)

\* Mutant: the message is compared with an empty entry, not with the one before.
OnLinkMessageFresh(l) ==
    LET old == FreshInterface
        new == ReadAttrs([old EXCEPT !.up = l.up, !.running = l.running], LinkAttrs(l))
    IN  /\ iface' = new
        /\ info' = FlagsOf(old, new) \cup (IF iface = Absent THEN {"added"} ELSE {})

\* RTM_NEWLINK: acquire, the two state bits, then the attributes.
OnLinkMessage(l) ==
    LET old == IF iface = Absent THEN FreshInterface ELSE iface
        new == ReadAttrs([old EXCEPT !.up = l.up, !.running = l.running], LinkAttrs(l))
    IN  /\ iface' = new
        /\ info' = FlagsOf(old, new) \cup (IF iface = Absent THEN {"added"} ELSE {})

OneField(l, m) == Cardinality({f \in DOMAIN l : l[f] # m[f]}) <= 1

LinkChanges(l) ==
    /\ changes < MaxChanges /\ changes' = changes + 1
    /\ IF link = Absent THEN ~l.up /\ l.master = NoMaster ELSE link # l /\ OneField(l, link)
    /\ released' = (released \/ (link # Absent /\ link.master # NoMaster /\ l.master = NoMaster))
    /\ link' = l /\ OnLinkMessage(l)
    /\ UNCHANGED <<addrs, _addresses, route, _route, neigh, _neigh, twice>>

LinkDeleted ==
    /\ link # Absent /\ changes < MaxChanges /\ changes' = changes + 1
    /\ link' = Absent /\ iface' = Absent /\ info' = {"deleted"}
    /\ addrs' = {} /\ _addresses' = <<>> /\ twice' = {} /\ released' = FALSE
    /\ UNCHANGED <<route, _route, neigh, _neigh>>

----------------------------------------------------------------------------
Found(ip) == {i \in DOMAIN _addresses : _addresses[i][1] = ip}

\* RTM_NEWADDR: an address that is known takes the new prefix.
OnNewAddress(ip, p) ==
    IF Found(ip) # {} THEN _addresses' = [i \in DOMAIN _addresses |-> IF _addresses[i][1] = ip THEN <<ip, p>> ELSE _addresses[i]] /\ info' = {"modified"}
    ELSE _addresses' = Append(_addresses, <<ip, p>>) /\ info' = {"added"}
\* RTM_DELADDR: whatever the prefix.
OnDelAddress(ip) == _addresses' = SelectSeq(_addresses, LAMBDA a : a[1] # ip) /\ info' = {"deleted"}

AddressAdded(ip, p) ==
    /\ link # Absent /\ <<ip, p>> \notin addrs /\ changes < MaxChanges /\ changes' = changes + 1
    /\ addrs' = addrs \cup {<<ip, p>>} /\ OnNewAddress(ip, p)
    /\ twice' = twice \cup {q[1] : q \in {a \in addrs : a[1] = ip}}
    /\ UNCHANGED <<link, iface, route, _route, neigh, _neigh, released>>
AddressRemoved(ip, p) ==
    /\ <<ip, p>> \in addrs /\ changes < MaxChanges /\ changes' = changes + 1
    /\ addrs' = addrs \ {<<ip, p>>} /\ OnDelAddress(ip)
    /\ UNCHANGED <<link, iface, route, _route, neigh, _neigh, twice, released>>

----------------------------------------------------------------------------
(* Routes and neighbours: what a message leaves out reads as the wildcard. *)

FreshRoute == [gateway |-> 0, metric |-> 0, protocol |-> 0]
Routes == [gateway : Fields \cup {0}, metric : {0, 1}, protocol : {1, 2}]
FreshNeighbor == [mac |-> 0, state |-> 0]
Neighbors == {n \in [mac : Fields \cup {0}, state : {1, 2}] : n.state = 1 <=> n.mac = 0}    \* NUD_INCOMPLETE has no address

Acquired(e, fresh) == IF e = Absent THEN fresh ELSE e
Added(e) == IF e = Absent THEN {"added"} ELSE {"modified"}

OnRouteMessage(r) ==
    LET old == Acquired(_route, FreshRoute) IN _route' = r /\ info' = FlagsOf(old, r) \cup Added(_route)
OnNeighborMessage(n) ==
    LET old == Acquired(_neigh, FreshNeighbor) IN _neigh' = n /\ info' = FlagsOf(old, n) \cup Added(_neigh)

RouteChanges(r) ==
    /\ changes < MaxChanges /\ changes' = changes + 1 /\ route' = r /\ OnRouteMessage(r)
    /\ UNCHANGED <<linkVars, neigh, _neigh>>
NeighborChanges(n) ==
    /\ changes < MaxChanges /\ changes' = changes + 1 /\ neigh' = n /\ OnNeighborMessage(n)
    /\ UNCHANGED <<linkVars, route, _route>>


TableInit ==
    /\ link = Absent /\ iface = Absent /\ addrs = {} /\ _addresses = <<>>
    /\ route = Absent /\ _route = Absent /\ neigh = Absent /\ _neigh = Absent
    /\ info = {} /\ changes = 0 /\ twice = {} /\ released = FALSE

TableNext ==
    \/ \E l \in Links : LinkChanges(l)
    \/ LinkDeleted
    \/ \E ip \in Ips, p \in PrefixLengths : AddressAdded(ip, p) \/ AddressRemoved(ip, p)
    \/ \E r \in Routes : RouteChanges(r)
    \/ \E n \in Neighbors : NeighborChanges(n)

----------------------------------------------------------------------------
(***************************************************************************)
(* The manager's entries are the kernel's, field by field, after any run   *)
(* of changes; the master of an interface is right until it leaves its     *)
(* bridge, because a message without IFLA_MASTER leaves the old one.       *)
(***************************************************************************)
EntriesMirrored ==
    /\ iface = Absent <=> link = Absent
    /\ link # Absent => \A f \in DOMAIN link : (f = "master" /\ released) \/ iface[f] = link[f]
    /\ _route = route /\ _neigh = neigh

(***************************************************************************)
(* The addresses of an interface are the kernel's, each once, when none    *)
(* was ever there with two prefixes: removing one of the two removes the   *)
(* address from the manager's list while the kernel keeps the other.       *)
(***************************************************************************)
AddressesMirrored ==
    /\ \A i, j \in DOMAIN _addresses : _addresses[i][1] = _addresses[j][1] => i = j
    /\ {a \in ToSet(_addresses) : a[1] \notin twice} = {a \in addrs : a[1] \notin twice}
    /\ \A a \in ToSet(_addresses) : a[1] \in {b[1] : b \in addrs}

(***************************************************************************)
(* A listener can skip a notification without flags: they name exactly the *)
(* fields whose value the message changed.                                 *)
(***************************************************************************)
FlagsAreChanges ==
    [][(iface' # iface /\ iface' # Absent /\ iface # Absent) => info' = {f \in DOMAIN iface : iface'[f] # iface[f]}]_iface
=============================================================================
