-------------------------------- MODULE Dhcp --------------------------------
(***************************************************************************)
(* DHCP exchanges (fabric/dhcp.hpp): threads share a client, which matches *)
(* answers by a random 32 bit id, here one of Xids, and keeps one reason   *)
(* for all of them; servers hear broadcasts and answer each request once,  *)
(* or not at all.  Messages are delayed, lost and out of order.            *)
(***************************************************************************)
EXTENDS Integers, Sequences, FiniteSets, Functions

CONSTANTS DhcpUsers, Xids, Servers,
          Messages,        \* what a Nak may say; "" is no Message option
          MaxExchanges     \* bound: exchanges begun

VARIABLES exchanges,   \* thread -> its exchange
          awaited,     \* id -> the answer received (_pending)
          reason,      \* _reason
          reasonRead,        \* thread -> what reason() returned after its refusal
          onWire,      \* requests and answers on the link
          drawn,       \* history: ids drawn
          disturbed    \* history: the threads in whose exchange another one began or was refused
dhcpVars == <<exchanges, awaited, reason, reasonRead, onWire, drawn, disturbed>>

NoReason == ""    \* what a Nak without a Message option says
NoDhcpAnswer == [id |-> -1, num |-> 0, type |-> "none", says |-> NoReason, server |-> "none"]
NoExchange == [at |-> "idle", id |-> 0, num |-> 0, expected |-> "none", to |-> "none", answer |-> NoDhcpAnswer, res |-> "none"]

\* What each operation sends, to whom, and what it waits for.
Discover == [type |-> "Discover", to |-> "all", expected |-> "Offer"]
DhcpRequest(s) == [type |-> "Request", to |-> "all", server |-> s, expected |-> "Ack"]
Renew(s) == [type |-> "Request", to |-> s, expected |-> "Ack"]
Inform == [type |-> "Inform", to |-> "all", expected |-> "Ack"]
Release(s) == [type |-> "Release", to |-> s, expected |-> "none"]
Decline(s) == [type |-> "Decline", to |-> "all", expected |-> "none"]
Operations == {Discover, Inform} \cup {DhcpRequest(s) : s \in Servers} \cup {Renew(s) : s \in Servers}
Notices == {Release(s) : s \in Servers} \cup {Decline(s) : s \in Servers}

\* compose: the fields every message has.
Compose(op, id, num) == [op |-> "BootRequest", id |-> id, num |-> num, type |-> op.type, to |-> op.to, seen |-> {}]

\* exchange: an id in use is refused, and the message sent.
Submit(t, op, id) ==
    LET num == Len(drawn) + 1 IN
    /\ exchanges[t].at = "idle" /\ Len(drawn) < MaxExchanges
    /\ drawn' = Append(drawn, id)
    /\ reasonRead' = [reasonRead EXCEPT ![t] = "unread"]
    /\ disturbed' = (disturbed \ {t}) \cup {u \in DhcpUsers : u # t /\ (exchanges[u].at # "idle" \/ reasonRead[u] = "unread")}
    /\ IF id \in DOMAIN awaited
       THEN exchanges' = [exchanges EXCEPT ![t] = [NoExchange EXCEPT !.res = "inuse"]] /\ UNCHANGED <<awaited, onWire>>
       ELSE /\ exchanges' = [exchanges EXCEPT ![t] = [NoExchange EXCEPT !.at = "wait", !.id = id, !.num = num, !.expected = op.expected]]
            /\ awaited' = [i \in DOMAIN awaited \cup {id} |-> IF i = id THEN NoDhcpAnswer ELSE awaited[i]]
            /\ onWire' = onWire \cup {Compose(op, id, num)}
ExchangeBegins(t, op, id) == Submit(t, op, id) /\ reason' = NoReason

\* release and decline: nothing is waited for.
Notify(op, id) ==
    /\ \A m \in onWire : m.op # "BootRequest" \/ m.num # 0
    /\ onWire' = onWire \cup {Compose(op, id, 0)}
    /\ UNCHANGED <<exchanges, awaited, reason, reasonRead, drawn, disturbed>>

\* Server::onMessage: what its callbacks answer, if anything; offer, ack and nak are replies to the request.
Callbacks(m) == CASE m.type = "Discover" -> {"Offer"} [] m.type = "Request" -> {"Ack", "Nak"} [] m.type = "Inform" -> {"Ack"} [] OTHER -> {}
ServerReplies(s, m, type, says) ==
    /\ m.op = "BootRequest" /\ m.to \in {"all", s} /\ s \notin m.seen
    /\ type \in Callbacks(m) /\ (type # "Nak" => says = NoReason)
    /\ onWire' = (onWire \ {m}) \cup {[m EXCEPT !.seen = @ \cup {s}],
                  [op |-> "BootReply", id |-> m.id, num |-> m.num, type |-> type, says |-> says, server |-> s]}
    /\ UNCHANGED <<exchanges, awaited, reason, reasonRead, drawn, disturbed>>

\* Client::onMessage: the answer of whoever waits for its id, over an earlier one too.
OnDhcpMessage(m) ==
    /\ m.op = "BootReply" /\ onWire' = onWire \ {m}
    /\ awaited' = [id \in DOMAIN awaited |->
                   IF id = m.id THEN [id |-> m.id, num |-> m.num, type |-> m.type, says |-> m.says, server |-> m.server] ELSE awaited[id]]
    /\ UNCHANGED <<exchanges, reason, reasonRead, drawn, disturbed>>

\* The wait ends, with the answer there is then, or late without one (the predicate is looked at again).
ExchangeEnds(t) ==
    LET x == exchanges[t]
        a == awaited[x.id]
        res == IF a = NoDhcpAnswer THEN "timeout" ELSE IF a.type = "Nak" THEN "refused" ELSE IF a.type # x.expected THEN "unknown" ELSE "ok"
    IN
    /\ x.at = "wait"
    /\ awaited' = Restrict(awaited, DOMAIN awaited \ {x.id})
    /\ reason' = IF res = "refused" /\ a.says # NoReason THEN a.says ELSE reason
    /\ disturbed' = IF res = "refused" THEN disturbed \cup {u \in DhcpUsers \ {t} : exchanges[u].at # "idle" \/ reasonRead[u] = "unread"} ELSE disturbed
    /\ exchanges' = [exchanges EXCEPT ![t].at = "idle", ![t].res = res, ![t].answer = a]
    /\ UNCHANGED <<reasonRead, onWire, drawn>>

\* reason(), by a thread that was refused.
ReadReason(t) ==
    /\ exchanges[t].at = "idle" /\ exchanges[t].res = "refused" /\ reasonRead[t] = "unread"
    /\ reasonRead' = [reasonRead EXCEPT ![t] = reason]
    /\ UNCHANGED <<exchanges, awaited, reason, onWire, drawn, disturbed>>

DhcpInit ==
    /\ exchanges = [t \in DhcpUsers |-> NoExchange] /\ awaited = <<>> /\ reason = NoReason /\ reasonRead = [t \in DhcpUsers |-> "unread"]
    /\ onWire = {} /\ drawn = <<>> /\ disturbed = {}
DhcpNext ==
    \/ \E t \in DhcpUsers : ExchangeEnds(t) \/ ReadReason(t) \/ \E op \in Operations, id \in Xids : ExchangeBegins(t, op, id)
    \/ \E op \in Notices, id \in Xids : Notify(op, id)
    \/ \E m \in onWire : OnDhcpMessage(m) \/ \E s \in Servers, type \in {"Offer", "Ack", "Nak"}, says \in Messages : ServerReplies(s, m, type, says)

----------------------------------------------------------------------------
(***************************************************************************)
(* An exchange that succeeds has an answer of the type it waits for, to    *)
(* its own request, and one that is refused has a Nak some server sent for *)
(* its own request, unless its id was drawn before and an answer to that   *)
(* one was still on the way.                                               *)
(***************************************************************************)
ExchangesAnswered ==
    \A t \in DhcpUsers : LET x == exchanges[t] IN
        (x.at = "idle" /\ x.res \in {"ok", "refused"}) =>
            /\ x.answer.id = x.id /\ (x.res = "ok" => x.answer.type = x.expected)
            /\ (Cardinality({n \in DOMAIN drawn : drawn[n] = x.id}) = 1) => x.answer.num = x.num

(***************************************************************************)
(* The reason a thread reads after its refusal is what the Nak that        *)
(* refused it says, and nothing if it says nothing, not a word of an       *)
(* earlier refusal, unless another thread began an exchange or was refused *)
(* since this one began.                                                   *)
(***************************************************************************)
ReasonExplains ==
    \A t \in DhcpUsers : (exchanges[t].at = "idle" /\ exchanges[t].res = "refused" /\ reasonRead[t] # "unread" /\ t \notin disturbed) =>
        reasonRead[t] = exchanges[t].answer.says
=============================================================================
