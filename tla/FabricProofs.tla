---------------------------- MODULE FabricProofs ----------------------------
(***************************************************************************)
(* The parts of the fabric, for any number of threads, addresses, servers, *)
(* identifiers and messages, over a network that loses, delays, copies and *)
(* reorders.                                                               *)
(*                                                                         *)
(* Arp, Dhcp, Ping and the names have one shape, and their proofs one      *)
(* argument: an entry of a table belongs to the one thread that waits      *)
(* under its key, and everything that can reach the entry (the messages    *)
(* under way, the entry itself, the answer the thread took) carries the    *)
(* number of a request that drew this key.  So an answer is of the         *)
(* request, or of an earlier one with the same key.                        *)
(*                                                                         *)
(* The netlink managers, last, mirror a table of the kernel: what a table  *)
(* holds under a key is followed from the kernel over the socket to the    *)
(* cache.                                                                  *)
(***************************************************************************)
EXTENDS Fabric, SequenceTheorems, FiniteSetTheorems, TLAPS

-----------------------------------------------------------------------------
(***************************************************************************)
(* Arp.  The entry of an address holds what was heard since its thread     *)
(* entered it, and only that thread removes it.                            *)
(***************************************************************************)
SeekPc == {"idle", "request", "wait", "woken", "late"}
SeekFrom == {"none", "cache", "request", "refused"}
MacOrNone == Macs \cup {NoMac}
SeekCalls == [at : SeekPc, ip : HostIps \cup {IdleSeek.ip}, mac : MacOrNone, from : SeekFrom]

ArpTypes ==
    /\ \A i \in DOMAIN neighbors : neighbors[i].mac \in MacOrNone
    /\ seeking \in [Seekers -> SeekCalls]
    /\ \A i \in DOMAIN seekers : seekers[i] \in MacOrNone
    /\ replies \in Seq(HostIps \X Macs)
    /\ heard \in [Seekers -> SUBSET (HostIps \X Macs)]

SeekWaits(t) == seeking[t].at \in {"wait", "woken", "late"}

(* What the entry of a waiting thread holds, the thread has heard while it waited. *)
EntryHeard ==
    \A t \in Seekers : SeekWaits(t) =>
        /\ seeking[t].from = "request"
        /\ seekers[seeking[t].ip] # NoMac => <<seeking[t].ip, seekers[seeking[t].ip]>> \in heard[t]

(* Each waiting thread has an entry of its own, and there is no other. *)
SeekersEntered ==
    /\ \A i : i \in DOMAIN seekers <=> \E t \in Seekers : SeekWaits(t) /\ seeking[t].ip = i
    /\ \A t, u \in Seekers : SeekWaits(t) /\ SeekWaits(u) /\ seeking[t].ip = seeking[u].ip => t = u

ArpInv == ArpTypes /\ SeekersEntered /\ EntryHeard /\ MacsAnnounced

(* The fields of a call. *)
LEMMA SeekFields ==
  ASSUME ArpTypes, NEW t \in Seekers
  PROVE  /\ seeking[t] \in SeekCalls /\ seeking[t].at \in SeekPc /\ seeking[t].mac \in MacOrNone
         /\ seeking[t].from \in SeekFrom /\ seeking[t].ip \in HostIps \cup {IdleSeek.ip}
  BY DEF ArpTypes, SeekCalls

(* Nobody asks at first. *)
LEMMA ArpInitInv == ArpInit => ArpInv
<1> SUFFICES ASSUME ArpInit PROVE ArpInv
  OBVIOUS
<1>1. IdleSeek \in SeekCalls /\ IdleSeek.at = "idle" /\ IdleSeek.from = "none" /\ IdleSeek.mac = NoMac
  BY DEF IdleSeek, SeekCalls, SeekPc, SeekFrom, MacOrNone
<1>2. seeking = [t \in Seekers |-> IdleSeek] /\ neighbors = <<>> /\ seekers = <<>> /\ replies = <<>> /\ heard = [t \in Seekers |-> {}]
  BY DEF ArpInit
<1>3. ArpTypes
  BY <1>1, <1>2 DEF ArpTypes
<1> QED BY <1>1, <1>2, <1>3 DEF ArpInv, SeekersEntered, EntryHeard, MacsAnnounced, SeekWaits

(* The neighbour table and the link are not part of what the requests rely on. *)
LEMMA ArpTableStep ==
  ASSUME ArpInv, UNCHANGED <<seeking, seekers, heard>>,
         \A i \in DOMAIN neighbors' : neighbors'[i].mac \in MacOrNone, replies' \in Seq(HostIps \X Macs)
  PROVE  ArpInv'
  BY DEF ArpInv, ArpTypes, SeekersEntered, EntryHeard, MacsAnnounced, SeekWaits

(* get: a thread that has no entry begins, or is served from the neighbour table. *)
LEMMA ArpGetStep == ASSUME ArpInv, NEW t \in Seekers, NEW ip \in HostIps, ArpGet(t, ip) PROVE ArpInv'
<1> DEFINE c == [IdleSeek EXCEPT !.ip = ip, !.mac = CachedMac(ip), !.from = "cache",
                                 !.at = IF CachedMac(ip) = NoMac THEN "request" ELSE "idle"]
<1>1. CachedMac(ip) \in MacOrNone
  BY DEF CachedMac, ArpInv, ArpTypes, MacOrNone
<1>2. IdleSeek \in SeekCalls
  BY DEF IdleSeek, SeekCalls, SeekPc, SeekFrom, MacOrNone
<1>3. c \in SeekCalls /\ c.at \in {"idle", "request"} /\ c.from = "cache"
  BY <1>1, <1>2 DEF SeekCalls, SeekPc, SeekFrom
<1> HIDE DEF c
<1>4. seeking' = [seeking EXCEPT ![t] = c] /\ heard' = [heard EXCEPT ![t] = {}] /\ UNCHANGED <<neighbors, seekers, replies>> /\ seeking[t].at = "idle"
  BY DEF ArpGet, c
<1>5. ArpTypes'
  BY <1>3, <1>4 DEF ArpInv, ArpTypes
<1>6. \A u \in Seekers : IF u = t THEN seeking'[u] = c /\ ~SeekWaits(u) /\ ~SeekWaits(u)' ELSE seeking'[u] = seeking[u] /\ heard'[u] = heard[u] /\ SeekWaits(u)' = SeekWaits(u)
  BY <1>3, <1>4 DEF ArpInv, ArpTypes, SeekWaits
<1>7. SeekersEntered'
  BY <1>4, <1>6 DEF ArpInv, SeekersEntered
<1>8. EntryHeard'
  BY <1>4, <1>6 DEF ArpInv, EntryHeard
<1>9. MacsAnnounced'
  BY <1>3, <1>4, <1>6 DEF ArpInv, MacsAnnounced
<1> QED BY <1>5, <1>7, <1>8, <1>9 DEF ArpInv

(* request: the address gets an entry unless another thread waits for it. *)
LEMMA ArpRequestStep == ASSUME ArpInv, NEW t \in Seekers, ArpRequest(t) PROVE ArpInv'
<1> DEFINE ip == seeking[t].ip
<1>0. seeking \in [Seekers -> SeekCalls] /\ seeking[t].at = "request" /\ UNCHANGED <<neighbors, replies, heard>>
  BY DEF ArpRequest, ArpInv, ArpTypes
<1>1. CASE ip \in DOMAIN seekers
  <2>1. seeking' = [seeking EXCEPT ![t] = [seeking[t] EXCEPT !.at = "idle", !.from = "refused"]] /\ UNCHANGED seekers
    BY <1>1 DEF ArpRequest
  <2>2. seeking' \in [Seekers -> SeekCalls] /\ seeking'[t].at = "idle" /\ seeking'[t].from = "refused"
    BY <1>0, <2>1 DEF SeekCalls, SeekPc, SeekFrom
  <2>3. \A u \in Seekers : IF u = t THEN ~SeekWaits(u) /\ ~SeekWaits(u)' ELSE seeking'[u] = seeking[u] /\ SeekWaits(u)' = SeekWaits(u)
    BY <1>0, <2>1, <2>2 DEF SeekWaits
  <2>4. ArpTypes' /\ SeekersEntered' /\ EntryHeard'
    BY <1>0, <2>1, <2>2, <2>3 DEF ArpInv, ArpTypes, SeekersEntered, EntryHeard
  <2>5. MacsAnnounced'
    BY <1>0, <2>2, <2>3 DEF ArpInv, MacsAnnounced
  <2> QED BY <2>4, <2>5 DEF ArpInv
<1>2. CASE ip \notin DOMAIN seekers
  <2>1. seeking' = [seeking EXCEPT ![t] = [seeking[t] EXCEPT !.at = "wait", !.from = "request"]] /\ seekers' = Entered(seekers, ip, NoMac)
    BY <1>2 DEF ArpRequest
  <2>2. seeking' \in [Seekers -> SeekCalls] /\ seeking'[t].at = "wait" /\ seeking'[t].from = "request" /\ seeking'[t].ip = ip
    BY <1>0, <2>1 DEF SeekCalls, SeekPc, SeekFrom
  <2>3. DOMAIN seekers' = DOMAIN seekers \cup {ip} /\ \A i \in DOMAIN seekers' : seekers'[i] = IF i = ip THEN NoMac ELSE seekers[i]
    BY <2>1 DEF Entered
  <2>4. \A u \in Seekers : IF u = t THEN ~SeekWaits(u) /\ SeekWaits(u)' ELSE seeking'[u] = seeking[u] /\ SeekWaits(u)' = SeekWaits(u)
    BY <1>0, <2>1, <2>2 DEF SeekWaits
  <2>5. ArpTypes'
    BY <1>0, <2>2, <2>3 DEF ArpInv, ArpTypes, MacOrNone
  <2>6. SeekersEntered'
    BY <1>2, <2>2, <2>3, <2>4 DEF ArpInv, SeekersEntered
  <2>7. EntryHeard'
    <3> SUFFICES ASSUME NEW u \in Seekers, SeekWaits(u)'
                 PROVE  seeking'[u].from = "request" /\ (seekers'[seeking'[u].ip] # NoMac => <<seeking'[u].ip, seekers'[seeking'[u].ip]>> \in heard'[u])
      BY DEF EntryHeard
    <3>1. CASE u = t
      BY <3>1, <2>2, <2>3
    <3>2. CASE u # t
      <4>1. seeking'[u] = seeking[u] /\ SeekWaits(u) /\ seeking[u].ip \in DOMAIN seekers
        BY <3>2, <2>4 DEF ArpInv, SeekersEntered
      <4> QED BY <4>1, <1>0, <1>2, <2>3 DEF ArpInv, EntryHeard
    <3> QED BY <3>1, <3>2
  <2>8. MacsAnnounced'
    BY <1>0, <2>2, <2>4 DEF ArpInv, MacsAnnounced
  <2> QED BY <2>5, <2>6, <2>7, <2>8 DEF ArpInv
<1> QED BY <1>1, <1>2

(* A reply fills the entry of its sender's address; every thread that waits hears it. *)
LEMMA OnReplyStep == ASSUME ArpInv, OnReply PROVE ArpInv'
<1> DEFINE r == Head(replies)
<1>0. seeking \in [Seekers -> SeekCalls] /\ replies \in Seq(HostIps \X Macs) /\ replies # <<>> /\ heard \in [Seekers -> SUBSET (HostIps \X Macs)]
  BY DEF ArpInv, ArpTypes, OnReply
<1>1. r \in HostIps \X Macs /\ Tail(replies) \in Seq(HostIps \X Macs)
  BY <1>0, HeadTailProperties
<1>2. r = <<r[1], r[2]>> /\ r[2] \in MacOrNone
  BY <1>1 DEF MacOrNone
<1> HIDE DEF r
<1>3. /\ replies' = Tail(replies) /\ neighbors' = neighbors
      /\ seekers' = [i \in DOMAIN seekers |-> IF i = r[1] THEN r[2] ELSE seekers[i]]
      /\ heard' = [t \in Seekers |-> IF SeekWaits(t) THEN heard[t] \cup {r} ELSE heard[t]]
      /\ seeking' = [t \in Seekers |-> IF seeking[t].at = "wait" /\ seeking[t].ip \in {r[1]} THEN [seeking[t] EXCEPT !.at = "woken"] ELSE seeking[t]]
  BY DEF OnReply, Hears, Wakes, SeekWaits, r
<1>4. \A t \in Seekers : /\ seeking'[t] \in SeekCalls /\ seeking'[t].ip = seeking[t].ip /\ seeking'[t].from = seeking[t].from /\ seeking'[t].mac = seeking[t].mac
                         /\ SeekWaits(t)' = SeekWaits(t) /\ (seeking'[t].at = "idle" <=> seeking[t].at = "idle")
  <2> SUFFICES ASSUME NEW t \in Seekers
               PROVE  /\ seeking'[t] \in SeekCalls /\ seeking'[t].ip = seeking[t].ip /\ seeking'[t].from = seeking[t].from /\ seeking'[t].mac = seeking[t].mac
                      /\ SeekWaits(t)' = SeekWaits(t) /\ (seeking'[t].at = "idle" <=> seeking[t].at = "idle")
    OBVIOUS
  <2>1. seeking[t] \in SeekCalls
    BY <1>0
  <2>2. seeking'[t] = IF seeking[t].at = "wait" /\ seeking[t].ip \in {r[1]} THEN [seeking[t] EXCEPT !.at = "woken"] ELSE seeking[t]
    BY <1>3
  <2> QED BY <2>1, <2>2 DEF SeekCalls, SeekPc, SeekWaits
<1>5. ArpTypes'
  <2>1. seeking' \in [Seekers -> SeekCalls]
    BY <1>3, <1>4
  <2>2. heard' \in [Seekers -> SUBSET (HostIps \X Macs)]
    BY <1>0, <1>1, <1>3 DEF r
  <2> QED BY <1>1, <1>2, <1>3, <2>1, <2>2 DEF ArpInv, ArpTypes
<1>6. DOMAIN seekers' = DOMAIN seekers
  BY <1>3
<1>7. SeekersEntered'
  BY <1>4, <1>6 DEF ArpInv, SeekersEntered
<1>8. EntryHeard'
  <2> SUFFICES ASSUME NEW t \in Seekers, SeekWaits(t)
               PROVE  seeking[t].from = "request" /\ (seekers'[seeking[t].ip] # NoMac => <<seeking[t].ip, seekers'[seeking[t].ip]>> \in heard'[t])
    BY <1>4 DEF EntryHeard
  <2>1. seeking[t].ip \in DOMAIN seekers /\ heard'[t] = heard[t] \cup {r}
    BY <1>3 DEF ArpInv, SeekersEntered
  <2> QED BY <1>2, <1>3, <2>1 DEF ArpInv, EntryHeard
<1>9. MacsAnnounced'
  <2>1. \A t \in Seekers : heard[t] \subseteq heard'[t]
    BY <1>3
  <2> QED BY <1>4, <2>1 DEF ArpInv, MacsAnnounced
<1> QED BY <1>5, <1>7, <1>8, <1>9 DEF ArpInv

(* A wait ends; its entry stays until the lock is taken again. *)
LEMMA SeekEndsStep == ASSUME ArpInv, NEW t \in Seekers, NEW how \in {"woken", "late"}, SeekEnds(t, how) PROVE ArpInv'
<1>1. /\ seeking \in [Seekers -> SeekCalls] /\ seeking[t].at = "wait" /\ UNCHANGED <<neighbors, seekers, replies, heard>>
      /\ seeking' = [seeking EXCEPT ![t] = [seeking[t] EXCEPT !.at = how]]
  BY DEF SeekEnds, ArpInv, ArpTypes
<1>2. \A u \in Seekers : /\ seeking'[u] \in SeekCalls /\ seeking'[u].ip = seeking[u].ip /\ seeking'[u].from = seeking[u].from /\ seeking'[u].mac = seeking[u].mac
                         /\ SeekWaits(u)' = SeekWaits(u) /\ (seeking'[u].at = "idle" <=> seeking[u].at = "idle")
  BY <1>1 DEF SeekCalls, SeekPc, SeekWaits
<1>3. ArpTypes'
  BY <1>1, <1>2 DEF ArpInv, ArpTypes
<1>4. SeekersEntered' /\ EntryHeard' /\ MacsAnnounced'
  BY <1>1, <1>2 DEF ArpInv, SeekersEntered, EntryHeard, MacsAnnounced
<1> QED BY <1>3, <1>4 DEF ArpInv

(* The call returns with what its entry holds, and removes it. *)
LEMMA ArpReturnsStep == ASSUME ArpInv, NEW t \in Seekers, ArpReturns(t) PROVE ArpInv'
<1> DEFINE ip == seeking[t].ip
           m == IF seeking[t].at = "late" THEN NoMac ELSE seekers[ip]
<1>0. seeking \in [Seekers -> SeekCalls] /\ SeekWaits(t) /\ UNCHANGED <<neighbors, replies, heard>> /\ ip \in DOMAIN seekers /\ seeking[t].from = "request"
  BY DEF ArpReturns, ArpInv, ArpTypes, SeekWaits, SeekersEntered, EntryHeard
<1>1. m \in MacOrNone
  BY <1>0 DEF ArpInv, ArpTypes, MacOrNone
<1>2. seeking' = [seeking EXCEPT ![t] = [seeking[t] EXCEPT !.at = "idle", !.mac = m]]
  BY DEF ArpReturns
<1>3. DOMAIN seekers' = DOMAIN seekers \ {ip} /\ \A i \in DOMAIN seekers' : seekers'[i] = seekers[i]
  BY DEF ArpReturns, Restrict
<1>4. m # NoMac => <<ip, m>> \in heard[t]
  BY <1>0 DEF ArpInv, EntryHeard
<1> HIDE DEF m
<1>5. seeking' \in [Seekers -> SeekCalls] /\ seeking'[t].at = "idle" /\ seeking'[t].ip = ip /\ seeking'[t].mac = m /\ ~SeekWaits(t)'
  BY <1>0, <1>1, <1>2 DEF SeekCalls, SeekPc, SeekWaits
<1>6. \A u \in Seekers \ {t} : seeking'[u] = seeking[u] /\ SeekWaits(u)' = SeekWaits(u)
  BY <1>0, <1>2 DEF SeekWaits
<1>7. ArpTypes'
  BY <1>0, <1>3, <1>5 DEF ArpInv, ArpTypes
<1>8. SeekersEntered'
  BY <1>0, <1>3, <1>5, <1>6 DEF ArpInv, SeekersEntered
<1>9. EntryHeard'
  <2> SUFFICES ASSUME NEW u \in Seekers, SeekWaits(u)'
               PROVE  seeking'[u].from = "request" /\ (seekers'[seeking'[u].ip] # NoMac => <<seeking'[u].ip, seekers'[seeking'[u].ip]>> \in heard'[u])
    BY DEF EntryHeard
  <2>1. u # t /\ seeking'[u] = seeking[u] /\ SeekWaits(u) /\ seeking[u].ip \in DOMAIN seekers /\ seeking[u].ip # ip
    BY <1>0, <1>5, <1>6 DEF ArpInv, SeekersEntered
  <2> QED BY <1>0, <1>3, <2>1 DEF ArpInv, EntryHeard
<1>10. MacsAnnounced'
  BY <1>0, <1>4, <1>5, <1>6 DEF ArpInv, MacsAnnounced
<1> QED BY <1>7, <1>8, <1>9, <1>10 DEF ArpInv

(* The invariant of Arp is inductive. *)
LEMMA ArpStep == ArpInv /\ [ArpNext]_arpVars => ArpInv'
<1> SUFFICES ASSUME ArpInv, [ArpNext]_arpVars PROVE ArpInv'
  OBVIOUS
<1>1. CASE UNCHANGED arpVars
  BY <1>1 DEF arpVars, ArpInv, ArpTypes, SeekersEntered, EntryHeard, MacsAnnounced, SeekWaits
<1>2. ASSUME NEW ip \in HostIps, ArpRemove(ip) PROVE ArpInv'
  BY <1>2, ArpTableStep DEF ArpRemove, Restrict, ArpInv, ArpTypes
<1>3. ASSUME NEW ip \in HostIps, NEW mac \in Macs, ArpAdd(ip, mac) \/ EntryFails(ip, mac) PROVE ArpInv'
  BY <1>3, ArpTableStep DEF ArpAdd, EntryFails, AddEntry, Entered, ArpInv, ArpTypes, MacOrNone
<1>4. ASSUME NEW ip \in HostIps, NEW mac \in Macs, HostReplies(ip, mac) PROVE ArpInv'
  <2>1. replies \in Seq(HostIps \X Macs) /\ <<ip, mac>> \in HostIps \X Macs /\ replies' = Append(replies, <<ip, mac>>) /\ UNCHANGED <<neighbors, seeking, seekers, heard>>
    BY <1>4 DEF HostReplies, ArpInv, ArpTypes
  <2>2. replies' \in Seq(HostIps \X Macs)
    BY <2>1, AppendProperties
  <2> QED BY <2>1, <2>2, ArpTableStep DEF ArpInv, ArpTypes
<1> QED BY <1>1, <1>2, <1>3, <1>4, ArpGetStep, ArpRequestStep, ArpReturnsStep, SeekEndsStep, OnReplyStep DEF ArpNext

(* The invariant is what the run checks, and more. *)
LEMMA ArpHolds == ArpInv => MacsAnnounced /\ SeekersWait
<1> SUFFICES ASSUME ArpInv PROVE SeekersWait
  BY DEF ArpInv
<1> QED BY DEF ArpInv, SeekersEntered, SeekersWait, SeekWaits

-----------------------------------------------------------------------------
(***************************************************************************)
(* Dhcp.  An answer in the table or on the link stems from a request that  *)
(* drew its id, and the reason is the one of the last refusal as long as   *)
(* nobody disturbs it.                                                     *)
(***************************************************************************)
SaysOrNot == Messages \cup {NoReason}
DhcpAnswers == [id : Xids \cup {-1}, num : Nat, type : {"none", "Offer", "Ack", "Nak"}, says : SaysOrNot, server : Servers \cup {"none"}]
DhcpResults == {"none", "inuse", "timeout", "refused", "unknown", "ok"}
DhcpCalls == [at : {"idle", "wait"}, id : Xids \cup {0}, num : Nat, expected : {"none", "Offer", "Ack"}, to : {"none"},
              answer : DhcpAnswers, res : DhcpResults]
BootRequests == [op : {"BootRequest"}, id : Xids, num : Nat, type : {"Discover", "Request", "Inform", "Release", "Decline"},
                 to : Servers \cup {"all"}, seen : SUBSET Servers]
BootReplies == [op : {"BootReply"}, id : Xids, num : Nat, type : {"Offer", "Ack", "Nak"}, says : SaysOrNot, server : Servers]

DhcpTypes ==
    /\ exchanges \in [DhcpUsers -> DhcpCalls]
    /\ \A i \in DOMAIN awaited : awaited[i] \in DhcpAnswers
    /\ reason \in SaysOrNot /\ reasonRead \in [DhcpUsers -> SaysOrNot \cup {"unread"}]
    /\ onWire \subseteq BootRequests \cup BootReplies
    /\ drawn \in Seq(Xids) /\ disturbed \subseteq DhcpUsers

(* The exchange of that number drew the id. *)
Drew(d, num, id) == num \in DOMAIN d /\ d[num] = id

(* Only release and decline have no number, and no server answers them. *)
WireDrawn ==
    \A m \in onWire : IF m.op = "BootRequest" THEN (IF m.num = 0 THEN m.type \in {"Release", "Decline"} ELSE Drew(drawn, m.num, m.id))
                      ELSE Drew(drawn, m.num, m.id)
TableDrawn == \A i \in DOMAIN awaited : awaited[i] = NoDhcpAnswer \/ (awaited[i].type # "none" /\ awaited[i].id = i /\ Drew(drawn, awaited[i].num, i))

DhcpWaits(t) == exchanges[t].at = "wait"
ExchangesEntered ==
    /\ \A t \in DhcpUsers : DhcpWaits(t) => exchanges[t].id \in DOMAIN awaited /\ Drew(drawn, exchanges[t].num, exchanges[t].id)
    /\ \A t, u \in DhcpUsers : DhcpWaits(t) /\ DhcpWaits(u) /\ exchanges[t].id = exchanges[u].id => t = u

(* An exchange that is over has the answer of an exchange that drew its id. *)
EndedDrawn ==
    \A t \in DhcpUsers : (~DhcpWaits(t) /\ exchanges[t].res \in {"ok", "refused"}) =>
        /\ exchanges[t].answer.id = exchanges[t].id /\ (exchanges[t].res = "ok" => exchanges[t].answer.type = exchanges[t].expected)
        /\ Drew(drawn, exchanges[t].num, exchanges[t].id) /\ Drew(drawn, exchanges[t].answer.num, exchanges[t].id)

(* A thread reads its reason once its exchange is over. *)
UnreadWhileWaiting == \A t \in DhcpUsers : DhcpWaits(t) => reasonRead[t] = "unread"

(* The reason is that of a thread that nobody disturbed. *)
ReasonKept ==
    \A t \in DhcpUsers \ disturbed :
        /\ DhcpWaits(t) => reason = NoReason
        /\ ~DhcpWaits(t) /\ exchanges[t].res = "refused" /\ reasonRead[t] = "unread" => reason = exchanges[t].answer.says

DhcpInv == DhcpTypes /\ WireDrawn /\ TableDrawn /\ ExchangesEntered /\ EndedDrawn /\ UnreadWhileWaiting /\ ReasonKept /\ ReasonExplains

(* What a call consists of. *)
LEMMA DhcpFields ==
  ASSUME DhcpTypes, NEW t \in DhcpUsers
  PROVE  /\ exchanges[t] \in DhcpCalls /\ exchanges[t].at \in {"idle", "wait"} /\ exchanges[t].num \in Nat
         /\ exchanges[t].answer \in DhcpAnswers /\ exchanges[t].id \in Xids \cup {0}
  BY DEF DhcpTypes, DhcpCalls

(* The records a call begins with. *)
LEMMA NoExchangeTyped ==
  /\ NoDhcpAnswer \in DhcpAnswers /\ NoDhcpAnswer.type = "none"
  /\ NoExchange \in DhcpCalls /\ NoExchange.at = "idle" /\ NoExchange.res = "none"
<1>1. NoDhcpAnswer \in DhcpAnswers /\ NoDhcpAnswer.type = "none"
  BY DEF NoDhcpAnswer, DhcpAnswers, SaysOrNot
<1> QED BY <1>1 DEF NoExchange, DhcpCalls, DhcpResults

(* Nothing is drawn at first. *)
LEMMA DhcpInitInv == DhcpInit => DhcpInv
<1> SUFFICES ASSUME DhcpInit PROVE DhcpInv
  OBVIOUS
<1>0. /\ exchanges = [t \in DhcpUsers |-> NoExchange] /\ awaited = <<>> /\ reason = NoReason /\ reasonRead = [t \in DhcpUsers |-> "unread"]
      /\ onWire = {} /\ drawn = <<>> /\ disturbed = {}
  BY DEF DhcpInit
<1>1. DhcpTypes
  <2>1. exchanges \in [DhcpUsers -> DhcpCalls]
    BY <1>0, NoExchangeTyped
  <2>2. \A i \in DOMAIN awaited : awaited[i] \in DhcpAnswers
    BY <1>0
  <2>3. reason \in SaysOrNot /\ reasonRead \in [DhcpUsers -> SaysOrNot \cup {"unread"}]
    BY <1>0 DEF SaysOrNot
  <2>4. drawn \in Seq(Xids)
    BY <1>0
  <2> QED BY <1>0, <2>1, <2>2, <2>3, <2>4 DEF DhcpTypes
<1>2. \A t \in DhcpUsers : exchanges[t] = NoExchange /\ reasonRead[t] = "unread"
  BY <1>0
<1>3. ExchangesEntered /\ EndedDrawn /\ UnreadWhileWaiting /\ ReasonKept /\ ReasonExplains
  BY <1>2, NoExchangeTyped DEF UnreadWhileWaiting, ExchangesEntered, EndedDrawn, ReasonKept, ReasonExplains, DhcpWaits
<1> QED BY <1>0, <1>1, <1>3 DEF DhcpInv, WireDrawn, TableDrawn

(* What was drawn stays so. *)
LEMMA DrewMore ==
  ASSUME drawn \in Seq(Xids), NEW id \in Xids, drawn' = Append(drawn, id)
  PROVE  /\ drawn' \in Seq(Xids) /\ Len(drawn) + 1 \in Nat /\ Drew(drawn', Len(drawn) + 1, id)
         /\ \A n, i : Drew(drawn, n, i) => Drew(drawn', n, i)
<1>1. /\ drawn' \in Seq(Xids) /\ Len(drawn') = Len(drawn) + 1
      /\ \A i \in 1..Len(drawn) : drawn'[i] = drawn[i]
      /\ drawn'[Len(drawn) + 1] = id /\ Len(drawn) \in Nat
  BY AppendProperties, LenProperties
<1>2. DOMAIN drawn = 1..Len(drawn) /\ DOMAIN drawn' = 1..Len(drawn')
  BY <1>1, LenProperties
<1> QED BY <1>1, <1>2 DEF Drew

(* The messages that operations compose. *)
LEMMA ComposeTyped ==
  ASSUME NEW op \in Operations \cup Notices, NEW id \in Xids, NEW num \in Nat
  PROVE  /\ Compose(op, id, num) \in BootRequests /\ Compose(op, id, num).op = "BootRequest" /\ Compose(op, id, num).num = num
         /\ Compose(op, id, num).id = id /\ (op \in Notices => Compose(op, id, num).type \in {"Release", "Decline"})
         /\ op.expected \in {"none", "Offer", "Ack"}
<1>1. op.type \in {"Discover", "Request", "Inform", "Release", "Decline"} /\ op.to \in Servers \cup {"all"} /\ op.expected \in {"none", "Offer", "Ack"}
  BY DEF Operations, Notices, Discover, Inform, DhcpRequest, Renew, Release, Decline
<1>2. op \in Notices => op.type \in {"Release", "Decline"}
  BY DEF Notices, Release, Decline
<1> QED BY <1>1, <1>2 DEF Compose, BootRequests

(* An exchange begins, or is refused because its id is in use: either disturbs the others. *)
LEMMA ExchangeBeginsStep ==
  ASSUME DhcpInv, NEW t \in DhcpUsers, NEW op \in Operations, NEW id \in Xids, ExchangeBegins(t, op, id)
  PROVE  DhcpInv'
<1> DEFINE num == Len(drawn) + 1
           others == {u \in DhcpUsers : u # t /\ (exchanges[u].at # "idle" \/ reasonRead[u] = "unread")}
<1>0. /\ DhcpTypes /\ exchanges \in [DhcpUsers -> DhcpCalls] /\ drawn \in Seq(Xids) /\ drawn' = Append(drawn, id) /\ exchanges[t].at = "idle"
      /\ reasonRead' = [reasonRead EXCEPT ![t] = "unread"] /\ disturbed' = (disturbed \ {t}) \cup others /\ reason' = NoReason
  BY DEF DhcpInv, DhcpTypes, ExchangeBegins, Submit
<1>1. /\ drawn' \in Seq(Xids) /\ num \in Nat /\ Drew(drawn', num, id) /\ \A n, i : Drew(drawn, n, i) => Drew(drawn', n, i)
  BY <1>0, DrewMore
<1>2. \A u \in DhcpUsers \ {t} : u \notin disturbed' => u \notin disturbed /\ ~DhcpWaits(u) /\ reasonRead[u] # "unread" /\ reasonRead'[u] = reasonRead[u]
  BY <1>0, DhcpFields DEF DhcpTypes, DhcpWaits
<1>3. reason' \in SaysOrNot /\ reasonRead' \in [DhcpUsers -> SaysOrNot \cup {"unread"}] /\ disturbed' \subseteq DhcpUsers /\ reasonRead'[t] = "unread"
  BY <1>0 DEF DhcpTypes, SaysOrNot
<1>4. CASE id \in DOMAIN awaited
  <2> DEFINE x == [NoExchange EXCEPT !.res = "inuse"]
  <2>1. x \in DhcpCalls /\ x.at = "idle" /\ x.res = "inuse"
    BY NoExchangeTyped DEF DhcpCalls, DhcpResults
  <2>2. exchanges' = [exchanges EXCEPT ![t] = x] /\ UNCHANGED <<awaited, onWire>>
    BY <1>4 DEF ExchangeBegins, Submit
  <2> HIDE DEF x
  <2>3. exchanges' \in [DhcpUsers -> DhcpCalls] /\ exchanges'[t] = x /\ ~DhcpWaits(t)' /\ ~DhcpWaits(t)
    BY <1>0, <2>1, <2>2 DEF DhcpWaits
  <2>4. \A u \in DhcpUsers \ {t} : exchanges'[u] = exchanges[u] /\ DhcpWaits(u)' = DhcpWaits(u)
    BY <1>0, <2>2 DEF DhcpWaits
  <2>5. DhcpTypes'
    BY <1>0, <1>1, <1>3, <2>2, <2>3 DEF DhcpTypes
  <2>6. WireDrawn' /\ TableDrawn'
    BY <1>1, <2>2 DEF DhcpInv, WireDrawn, TableDrawn
  <2>7. ExchangesEntered'
    BY <1>1, <2>2, <2>3, <2>4 DEF DhcpInv, ExchangesEntered
  <2>8. EndedDrawn'
    BY <1>1, <2>1, <2>3, <2>4 DEF DhcpInv, EndedDrawn
  <2>9. ReasonKept' /\ ReasonExplains'
    <3>1. ReasonKept /\ ReasonExplains
      BY DEF DhcpInv
    <3>2. ReasonKept'
      <4> SUFFICES ASSUME NEW u \in DhcpUsers, u \notin disturbed'
                   PROVE  /\ DhcpWaits(u)' => reason' = NoReason
                          /\ ~DhcpWaits(u)' /\ exchanges'[u].res = "refused" /\ reasonRead'[u] = "unread" => reason' = exchanges'[u].answer.says
        BY DEF ReasonKept
      <4>1. CASE u = t
        BY <1>0, <2>1, <2>3, <4>1
      <4>2. CASE u # t
        BY <1>2, <2>4, <4>2
      <4> QED BY <4>1, <4>2
    <3>3. ReasonExplains'
      <4> SUFFICES ASSUME NEW u \in DhcpUsers, exchanges'[u].at = "idle", exchanges'[u].res = "refused", reasonRead'[u] # "unread", u \notin disturbed'
                   PROVE  reasonRead'[u] = exchanges'[u].answer.says
        BY DEF ReasonExplains
      <4>1. u # t
        BY <1>3
      <4> QED BY <1>2, <2>4, <3>1, <4>1 DEF ReasonExplains
    <3> QED BY <3>2, <3>3
  <2>10. UnreadWhileWaiting'
    BY <1>0, <2>3, <2>4 DEF DhcpInv, DhcpTypes, UnreadWhileWaiting
  <2> QED BY <2>5, <2>6, <2>7, <2>8, <2>9, <2>10 DEF DhcpInv
<1>5. CASE id \notin DOMAIN awaited
  <2> DEFINE x == [NoExchange EXCEPT !.at = "wait", !.id = id, !.num = num, !.expected = op.expected]
             m == Compose(op, id, num)
  <2>1. x \in DhcpCalls /\ x.at = "wait" /\ x.id = id /\ x.num = num
    BY <1>1, NoExchangeTyped, ComposeTyped DEF DhcpCalls
  <2>2. /\ exchanges' = [exchanges EXCEPT ![t] = x] /\ onWire' = onWire \cup {m}
        /\ awaited' = [i \in DOMAIN awaited \cup {id} |-> IF i = id THEN NoDhcpAnswer ELSE awaited[i]]
    BY <1>5 DEF ExchangeBegins, Submit
  <2>2a. m \in BootRequests /\ m.op = "BootRequest" /\ m.num = num /\ m.id = id /\ num # 0
    <3>1. op \in Operations \cup Notices /\ num # 0
      BY <1>0, LenProperties
    <3> QED BY <1>1, <3>1, ComposeTyped
  <2> HIDE DEF x, m
  <2>3. exchanges' \in [DhcpUsers -> DhcpCalls] /\ exchanges'[t] = x /\ DhcpWaits(t)' /\ ~DhcpWaits(t)
    BY <1>0, <2>1, <2>2 DEF DhcpWaits
  <2>4. \A u \in DhcpUsers \ {t} : exchanges'[u] = exchanges[u] /\ DhcpWaits(u)' = DhcpWaits(u)
    BY <1>0, <2>2 DEF DhcpWaits
  <2>5. DhcpTypes'
    <3>1. \A i \in DOMAIN awaited' : awaited'[i] \in DhcpAnswers
      BY <1>0, <2>2, NoExchangeTyped DEF DhcpTypes
    <3>2. onWire' \subseteq BootRequests \cup BootReplies
      BY <1>0, <2>2, <2>2a DEF DhcpTypes
    <3> QED BY <1>1, <1>3, <2>3, <3>1, <3>2 DEF DhcpTypes
  <2>6. WireDrawn'
    <3>1. \A k \in onWire : IF k.op = "BootRequest" THEN (IF k.num = 0 THEN k.type \in {"Release", "Decline"} ELSE Drew(drawn', k.num, k.id)) ELSE Drew(drawn', k.num, k.id)
      BY <1>1 DEF DhcpInv, WireDrawn
    <3>2. Drew(drawn', m.num, m.id)
      BY <1>1, <2>2a
    <3> QED BY <2>2, <2>2a, <3>1, <3>2 DEF WireDrawn
  <2>6a. TableDrawn'
    BY <1>1, <2>2 DEF DhcpInv, TableDrawn
  <2>7. ExchangesEntered'
    BY <1>1, <1>5, <2>1, <2>2, <2>3, <2>4 DEF DhcpInv, ExchangesEntered
  <2>8. EndedDrawn'
    BY <1>1, <2>1, <2>3, <2>4 DEF DhcpInv, EndedDrawn
  <2>9. ReasonKept' /\ ReasonExplains'
    <3>1. ReasonKept /\ ReasonExplains
      BY DEF DhcpInv
    <3>2. ReasonKept'
      <4> SUFFICES ASSUME NEW u \in DhcpUsers, u \notin disturbed'
                   PROVE  /\ DhcpWaits(u)' => reason' = NoReason
                          /\ ~DhcpWaits(u)' /\ exchanges'[u].res = "refused" /\ reasonRead'[u] = "unread" => reason' = exchanges'[u].answer.says
        BY DEF ReasonKept
      <4>1. CASE u = t
        BY <1>0, <2>1, <2>3, <4>1
      <4>2. CASE u # t
        BY <1>2, <2>4, <4>2
      <4> QED BY <4>1, <4>2
    <3>3. ReasonExplains'
      <4> SUFFICES ASSUME NEW u \in DhcpUsers, exchanges'[u].at = "idle", exchanges'[u].res = "refused", reasonRead'[u] # "unread", u \notin disturbed'
                   PROVE  reasonRead'[u] = exchanges'[u].answer.says
        BY DEF ReasonExplains
      <4>1. u # t
        BY <1>3
      <4> QED BY <1>2, <2>4, <3>1, <4>1 DEF ReasonExplains
    <3> QED BY <3>2, <3>3
  <2>10. UnreadWhileWaiting'
    BY <1>0, <1>3, <2>3, <2>4 DEF DhcpInv, DhcpTypes, UnreadWhileWaiting
  <2> QED BY <2>5, <2>6, <2>6a, <2>7, <2>8, <2>9, <2>10 DEF DhcpInv
<1> QED BY <1>4, <1>5

(* Steps of the network leave the threads alone. *)
LEMMA DhcpWireStep ==
  ASSUME DhcpInv, UNCHANGED <<exchanges, awaited, reason, reasonRead, drawn, disturbed>>,
         onWire' \subseteq BootRequests \cup BootReplies, WireDrawn'
  PROVE  DhcpInv'
  BY DEF DhcpInv, DhcpTypes, TableDrawn, ExchangesEntered, EndedDrawn, UnreadWhileWaiting, ReasonKept, ReasonExplains, Drew, DhcpWaits

(* release and decline. *)
LEMMA NotifyStep == ASSUME DhcpInv, NEW op \in Notices, NEW id \in Xids, Notify(op, id) PROVE DhcpInv'
<1> DEFINE m == Compose(op, id, 0)
<1>1. m \in BootRequests /\ m.op = "BootRequest" /\ m.num = 0 /\ m.type \in {"Release", "Decline"}
  BY ComposeTyped
<1>2. onWire' = onWire \cup {m} /\ UNCHANGED <<exchanges, awaited, reason, reasonRead, drawn, disturbed>>
  BY DEF Notify
<1> HIDE DEF m
<1>3. onWire' \subseteq BootRequests \cup BootReplies
  BY <1>1, <1>2 DEF DhcpInv, DhcpTypes
<1>4. WireDrawn'
  BY <1>1, <1>2 DEF DhcpInv, WireDrawn, Drew
<1> QED BY <1>2, <1>3, <1>4, DhcpWireStep

(* A server answers a request, which has a number then. *)
LEMMA ServerRepliesStep ==
  ASSUME DhcpInv, NEW s \in Servers, NEW m \in onWire, NEW type \in {"Offer", "Ack", "Nak"}, NEW says \in Messages, ServerReplies(s, m, type, says)
  PROVE  DhcpInv'
<1> DEFINE k == [m EXCEPT !.seen = @ \cup {s}]
           r == [op |-> "BootReply", id |-> m.id, num |-> m.num, type |-> type, says |-> says, server |-> s]
<1>1. m \in BootRequests
  BY DEF ServerReplies, DhcpInv, DhcpTypes, BootReplies
<1>2. m.type \notin {"Release", "Decline"}
  BY <1>1 DEF ServerReplies, Callbacks
<1>3. Drew(drawn, m.num, m.id) /\ m.num # 0
  BY <1>1, <1>2 DEF DhcpInv, WireDrawn, BootRequests, DhcpTypes, Drew
<1>4. k \in BootRequests /\ k.op = "BootRequest" /\ k.num = m.num /\ k.id = m.id
  BY <1>1 DEF BootRequests
<1>5. r \in BootReplies /\ r.op = "BootReply" /\ r.num = m.num /\ r.id = m.id
  BY <1>1 DEF BootRequests, BootReplies, SaysOrNot
<1>6. onWire' = (onWire \ {m}) \cup {k, r} /\ UNCHANGED <<exchanges, awaited, reason, reasonRead, drawn, disturbed>>
  BY DEF ServerReplies
<1> HIDE DEF k, r
<1>7. onWire' \subseteq BootRequests \cup BootReplies
  BY <1>4, <1>5, <1>6 DEF DhcpInv, DhcpTypes
<1>8. WireDrawn'
  <2>1. \A n, i : Drew(drawn', n, i) = Drew(drawn, n, i)
    BY <1>6 DEF Drew
  <2> QED BY <1>3, <1>4, <1>5, <1>6, <2>1 DEF DhcpInv, WireDrawn
<1> QED BY <1>6, <1>7, <1>8, DhcpWireStep

(* An answer fills the entry of its id, if there is one. *)
LEMMA OnDhcpMessageStep == ASSUME DhcpInv, NEW m \in onWire, OnDhcpMessage(m) PROVE DhcpInv'
<1> DEFINE a == [id |-> m.id, num |-> m.num, type |-> m.type, says |-> m.says, server |-> m.server]
<1>1. m \in BootReplies /\ Drew(drawn, m.num, m.id)
  BY DEF OnDhcpMessage, DhcpInv, DhcpTypes, BootRequests, WireDrawn
<1>2. a \in DhcpAnswers /\ a.type # "none" /\ a.id = m.id /\ Drew(drawn, a.num, m.id)
  BY <1>1 DEF BootReplies, DhcpAnswers
<1>3. /\ onWire' = onWire \ {m} /\ UNCHANGED <<exchanges, reason, reasonRead, drawn, disturbed>>
      /\ awaited' = [i \in DOMAIN awaited |-> IF i = m.id THEN a ELSE awaited[i]]
  BY DEF OnDhcpMessage
<1> HIDE DEF a
<1>4. DhcpTypes'
  BY <1>2, <1>3 DEF DhcpInv, DhcpTypes
<1>5. WireDrawn' /\ TableDrawn' /\ ExchangesEntered' /\ EndedDrawn'
  BY <1>2, <1>3 DEF DhcpInv, WireDrawn, TableDrawn, ExchangesEntered, EndedDrawn, Drew, DhcpWaits
<1>6. ReasonKept' /\ ReasonExplains' /\ UnreadWhileWaiting'
  BY <1>3 DEF DhcpInv, UnreadWhileWaiting, ReasonKept, ReasonExplains, DhcpWaits
<1> QED BY <1>4, <1>5, <1>6 DEF DhcpInv

(* The wait ends: the answer of the table is the thread's, and a refusal leaves its reason. *)
LEMMA ExchangeEndsStep == ASSUME DhcpInv, NEW t \in DhcpUsers, ExchangeEnds(t) PROVE DhcpInv'
<1> DEFINE x == exchanges[t]
           a == awaited[x.id]
           res == IF a = NoDhcpAnswer THEN "timeout" ELSE IF a.type = "Nak" THEN "refused" ELSE IF a.type # x.expected THEN "unknown" ELSE "ok"
           y == [x EXCEPT !.at = "idle", !.res = res, !.answer = a]
<1>0. /\ DhcpTypes /\ exchanges \in [DhcpUsers -> DhcpCalls] /\ x \in DhcpCalls /\ DhcpWaits(t) /\ UNCHANGED <<reasonRead, onWire, drawn>>
      /\ x.id \in DOMAIN awaited /\ a \in DhcpAnswers /\ Drew(drawn, x.num, x.id)
  BY DEF DhcpInv, DhcpTypes, ExchangeEnds, ExchangesEntered, DhcpWaits
<1>1. exchanges' = [exchanges EXCEPT ![t] = y]
  BY DEF ExchangeEnds
<1>2. /\ reason' = IF res = "refused" /\ a.says # NoReason THEN a.says ELSE reason
      /\ disturbed' = IF res = "refused" THEN disturbed \cup {u \in DhcpUsers \ {t} : exchanges[u].at # "idle" \/ reasonRead[u] = "unread"} ELSE disturbed
  BY DEF ExchangeEnds
<1>3. DOMAIN awaited' = DOMAIN awaited \ {x.id} /\ \A i \in DOMAIN awaited' : awaited'[i] = awaited[i]
  BY DEF ExchangeEnds, Restrict
<1>4. a.says \in SaysOrNot
  BY <1>0 DEF DhcpAnswers
<1>5. y \in DhcpCalls /\ y.at = "idle" /\ y.res = res /\ y.answer = a /\ y.id = x.id /\ y.num = x.num /\ y.expected = x.expected
  BY <1>0 DEF DhcpCalls, DhcpResults
<1>6. res \in {"ok", "refused"} => a.id = x.id /\ Drew(drawn, a.num, x.id)
  BY <1>0 DEF DhcpInv, TableDrawn
<1>7. res = "ok" => a.type = x.expected
  OBVIOUS
<1> HIDE DEF y, res
<1>8. exchanges' \in [DhcpUsers -> DhcpCalls] /\ exchanges'[t] = y /\ ~DhcpWaits(t)'
  BY <1>0, <1>1, <1>5 DEF DhcpWaits
<1>9. \A u \in DhcpUsers \ {t} : exchanges'[u] = exchanges[u] /\ DhcpWaits(u)' = DhcpWaits(u)
  BY <1>0, <1>1 DEF DhcpWaits
<1>10. \A n, i : Drew(drawn', n, i) = Drew(drawn, n, i)
  BY <1>0 DEF Drew
<1>11. DhcpTypes'
  BY <1>0, <1>2, <1>3, <1>4, <1>8 DEF DhcpTypes
<1>12. WireDrawn' /\ TableDrawn'
  BY <1>0, <1>3, <1>10 DEF DhcpInv, WireDrawn, TableDrawn
<1>13. ExchangesEntered'
  BY <1>0, <1>3, <1>8, <1>9, <1>10 DEF DhcpInv, ExchangesEntered
<1>14. EndedDrawn'
  BY <1>0, <1>5, <1>6, <1>7, <1>8, <1>9, <1>10 DEF DhcpInv, EndedDrawn
<1>15. ReasonKept'
  <2> SUFFICES ASSUME NEW u \in DhcpUsers, u \notin disturbed'
               PROVE  /\ DhcpWaits(u)' => reason' = NoReason
                      /\ ~DhcpWaits(u)' /\ exchanges'[u].res = "refused" /\ reasonRead'[u] = "unread" => reason' = exchanges'[u].answer.says
    BY DEF ReasonKept
  <2>0. u \notin disturbed
    BY <1>2
  <2>1. CASE u = t
    BY <1>0, <1>2, <1>5, <1>8, <2>0, <2>1 DEF DhcpInv, ReasonKept
  <2>2. CASE u # t /\ res = "refused"
    BY <1>0, <1>2, <1>9, <2>2, DhcpFields DEF DhcpWaits
  <2>3. CASE u # t /\ res # "refused"
    BY <1>0, <1>2, <1>9, <2>0, <2>3 DEF DhcpInv, ReasonKept
  <2> QED BY <2>1, <2>2, <2>3
<1>16. ReasonExplains'
  <2> SUFFICES ASSUME NEW u \in DhcpUsers, exchanges'[u].at = "idle", exchanges'[u].res = "refused", reasonRead'[u] # "unread", u \notin disturbed'
               PROVE  reasonRead'[u] = exchanges'[u].answer.says
    BY DEF ReasonExplains
  <2>0. u \notin disturbed
    BY <1>2
  <2>1. CASE u # t
    BY <1>0, <1>9, <2>0, <2>1 DEF DhcpInv, ReasonExplains
  <2>2. CASE u = t
    BY <1>0, <2>2 DEF DhcpInv, UnreadWhileWaiting
  <2> QED BY <2>1, <2>2
<1>17. UnreadWhileWaiting'
  BY <1>0, <1>8, <1>9 DEF DhcpInv, UnreadWhileWaiting
<1> QED BY <1>11, <1>12, <1>13, <1>14, <1>15, <1>16, <1>17 DEF DhcpInv

(* reason() after a refusal. *)
LEMMA ReadReasonStep == ASSUME DhcpInv, NEW t \in DhcpUsers, ReadReason(t) PROVE DhcpInv'
<1>1. /\ UNCHANGED <<exchanges, awaited, reason, onWire, drawn, disturbed>> /\ reasonRead' = [reasonRead EXCEPT ![t] = reason]
      /\ ~DhcpWaits(t) /\ exchanges[t].res = "refused" /\ reasonRead[t] = "unread"
  BY DEF ReadReason, DhcpWaits
<1>2. DhcpTypes'
  BY <1>1 DEF DhcpInv, DhcpTypes
<1>3. WireDrawn' /\ TableDrawn' /\ ExchangesEntered' /\ EndedDrawn'
  BY <1>1 DEF DhcpInv, WireDrawn, TableDrawn, ExchangesEntered, EndedDrawn, Drew, DhcpWaits
<1>4. \A u \in DhcpUsers : reasonRead'[u] = IF u = t THEN reason ELSE reasonRead[u]
  BY <1>1 DEF DhcpInv, DhcpTypes
<1>5. ReasonKept'
  <2>1. ReasonKept /\ \A u \in DhcpUsers : DhcpWaits(u)' = DhcpWaits(u)
    BY <1>1 DEF DhcpInv, DhcpWaits
  <2> SUFFICES ASSUME NEW u \in DhcpUsers, u \notin disturbed
               PROVE  /\ DhcpWaits(u) => reason = NoReason
                      /\ ~DhcpWaits(u) /\ exchanges[u].res = "refused" /\ reasonRead'[u] = "unread" => reason = exchanges[u].answer.says
    BY <1>1, <2>1 DEF ReasonKept
  <2> QED BY <1>1, <1>4, <2>1 DEF ReasonKept
<1>7. UnreadWhileWaiting'
  <2>1. UnreadWhileWaiting /\ \A u \in DhcpUsers : DhcpWaits(u)' = DhcpWaits(u)
    BY <1>1 DEF DhcpInv, DhcpWaits
  <2> QED BY <1>1, <1>4, <2>1 DEF UnreadWhileWaiting
<1>6. ReasonExplains'
  BY <1>1, <1>4 DEF DhcpInv, ReasonKept, ReasonExplains, DhcpWaits
<1> QED BY <1>2, <1>3, <1>5, <1>6, <1>7 DEF DhcpInv

(* The invariant of Dhcp is inductive. *)
LEMMA DhcpStep == DhcpInv /\ [DhcpNext]_dhcpVars => DhcpInv'
<1> SUFFICES ASSUME DhcpInv, [DhcpNext]_dhcpVars PROVE DhcpInv'
  OBVIOUS
<1>1. CASE UNCHANGED dhcpVars
  BY <1>1 DEF dhcpVars, DhcpInv, DhcpTypes, WireDrawn, TableDrawn, ExchangesEntered, EndedDrawn, ReasonKept, ReasonExplains,
              UnreadWhileWaiting, Drew, DhcpWaits
<1>2. CASE DhcpNext
  BY <1>2, ExchangeBeginsStep, NotifyStep, ServerRepliesStep, OnDhcpMessageStep, ExchangeEndsStep, ReadReasonStep DEF DhcpNext
<1> QED BY <1>1, <1>2

(* The places at which v occurs in s. *)
Occurs(s, v) == {n \in DOMAIN s : s[n] = v}

(* A value that occurs once in a sequence has one place there. *)
LEMMA OnePlace ==
  ASSUME NEW S, NEW s \in Seq(S), NEW v, Cardinality(Occurs(s, v)) = 1,
         NEW i \in DOMAIN s, NEW j \in DOMAIN s, s[i] = v, s[j] = v
  PROVE  i = j
<1> DEFINE P == {n \in DOMAIN s : s[n] = v}
<1>0. Cardinality(P) = 1
  BY DEF Occurs
<1>1. DOMAIN s = 1..Len(s) /\ Len(s) \in Nat
  BY LenProperties
<1>2. IsFiniteSet(1..Len(s))
  BY <1>1, FS_Interval
<1>3. IsFiniteSet(P)
  BY <1>1, <1>2, FS_Subset
<1>4. PICK x : P = {x}
  BY <1>0, <1>3, FS_Singleton
<1> QED BY <1>4

(* The invariant is what the run checks, and more. *)
LEMMA DhcpHolds == DhcpInv => ExchangesAnswered /\ ReasonExplains
<1> SUFFICES ASSUME DhcpInv, NEW t \in DhcpUsers, exchanges[t].at = "idle", exchanges[t].res \in {"ok", "refused"}
             PROVE  /\ exchanges[t].answer.id = exchanges[t].id /\ (exchanges[t].res = "ok" => exchanges[t].answer.type = exchanges[t].expected)
                    /\ (Cardinality({n \in DOMAIN drawn : drawn[n] = exchanges[t].id}) = 1) => exchanges[t].answer.num = exchanges[t].num
  BY DEF DhcpInv, ExchangesAnswered
<1>1. /\ exchanges[t].answer.id = exchanges[t].id /\ (exchanges[t].res = "ok" => exchanges[t].answer.type = exchanges[t].expected)
      /\ Drew(drawn, exchanges[t].num, exchanges[t].id) /\ Drew(drawn, exchanges[t].answer.num, exchanges[t].id)
  BY DEF DhcpInv, EndedDrawn, DhcpWaits
<1>2. drawn \in Seq(Xids)
  BY DEF DhcpInv, DhcpTypes
<1>3. ASSUME Cardinality({n \in DOMAIN drawn : drawn[n] = exchanges[t].id}) = 1 PROVE exchanges[t].answer.num = exchanges[t].num
  <2>1. PICK d \in Seq(Xids) : d = drawn
    BY <1>2
  <2>2. PICK v : v = exchanges[t].id
    OBVIOUS
  <2>3. PICK i \in DOMAIN d, j \in DOMAIN d : i = exchanges[t].num /\ j = exchanges[t].answer.num /\ d[i] = v /\ d[j] = v
    BY <1>1, <2>1, <2>2 DEF Drew
  <2>4. Cardinality(Occurs(d, v)) = 1
    BY <1>3, <2>1, <2>2 DEF Occurs
  <2>5. i = j
    BY <2>3, <2>4, OnePlace
  <2> QED BY <2>3, <2>5
<1> QED BY <1>1, <1>3

-----------------------------------------------------------------------------
(***************************************************************************)
(* Ping.  A sequence number is a request's number up to whole laps of      *)
(* SeqSpace; while a request waits no later request has its number, so     *)
(* whatever arrives under it is of that request or some laps older.        *)
(***************************************************************************)
Lap(n, s) == \E k \in Nat : n = k * SeqSpace + s
LapsBefore(m, n) == \E k \in Nat : m + k * SeqSpace = n

EchoAnswers == [answered : BOOLEAN, from : Nat, error : {"none", "expired"}, kinds : SUBSET Kinds]
EchoCalls == [at : {"idle", "write", "wait"}, seq : Nat, id : Nat, attempt : Nat,
              res : {"none", "inuse", "failed", "timeout", "ok", "expired"}, ans : EchoAnswers,
              sent : Nat, received : Nat, samples : Nat]
EchoMessages == [seq : Nat, id : Nat, kind : Kinds]

PingTypes ==
    /\ _sequence \in Nat /\ _sequence < SeqSpace /\ echoes \in Nat
    /\ echo \in [Pingers -> EchoCalls] /\ net \subseteq EchoMessages
    /\ \A s \in DOMAIN _pending : _pending[s] \in EchoAnswers

Echoing(p) == echo[p].at # "idle"

(* The numbers, of requests and of messages. *)
NumbersLap ==
    /\ Lap(echoes, _sequence)
    /\ \A p \in Pingers : Echoing(p) => Lap(echo[p].id, echo[p].seq) /\ echo[p].id <= echoes
    /\ \A m \in net : Lap(m.id, m.seq) /\ m.id <= echoes

EchoesEntered ==
    /\ \A s : s \in DOMAIN _pending <=> \E p \in Pingers : Echoing(p) /\ echo[p].seq = s
    /\ \A p, q \in Pingers : Echoing(p) /\ Echoing(q) /\ echo[p].seq = echo[q].seq => p = q

(* What is in the table, or may still get there, is of the request that waits or laps older. *)
WaitingOwn ==
    \A p \in Pingers : Echoing(p) =>
        /\ _pending[echo[p].seq].answered => LapsBefore(_pending[echo[p].seq].from, echo[p].id)
        /\ \A m \in net : m.seq = echo[p].seq => LapsBefore(m.id, echo[p].id)

(* An entry without an error has been filled by replies only. *)
Unspoilt(a) == a.error = "none" => a.kinds = IF a.answered THEN {"reply"} ELSE {}
KindsRight == \A s \in DOMAIN _pending : Unspoilt(_pending[s])

SamplesCounted ==
    \A p \in Pingers : /\ echo[p].received <= echo[p].samples /\ echo[p].samples <= echo[p].sent
                       /\ echo[p].at = "wait" => echo[p].samples < echo[p].sent

EndedOwn ==
    \A p \in Pingers : (~Echoing(p) /\ echo[p].res \in {"ok", "expired"}) =>
        /\ LapsBefore(echo[p].ans.from, echo[p].id) /\ echo[p].id <= echoes
        /\ echo[p].res = "ok" => echo[p].ans.kinds = {"reply"}

PingInv == PingTypes /\ NumbersLap /\ EchoesEntered /\ WaitingOwn /\ KindsRight /\ SamplesCounted /\ EndedOwn

(* The number after the last one. *)
LEMMA NextLap ==
  ASSUME NEW n \in Nat, NEW s \in Nat, s < SeqSpace, Lap(n, s)
  PROVE  (s + 1) % SeqSpace \in Nat /\ (s + 1) % SeqSpace < SeqSpace /\ Lap(n + 1, (s + 1) % SeqSpace)
<1>0. SeqSpace \in Nat /\ SeqSpace # 0
  BY PingAssumption
<1>1. PICK k \in Nat : n = k * SeqSpace + s
  BY DEF Lap
<1>2. CASE s + 1 < SeqSpace
  <2>1. (s + 1) % SeqSpace = s + 1
    BY <1>0, <1>2
  <2>2. n + 1 = k * SeqSpace + (s + 1)
    BY <1>0, <1>1
  <2> QED BY <1>2, <2>1, <2>2 DEF Lap
<1>3. CASE s + 1 = SeqSpace
  <2>1. (s + 1) % SeqSpace = 0
    BY <1>0, <1>3
  <2>2. (k + 1) * SeqSpace = k * SeqSpace + SeqSpace /\ k * SeqSpace \in Nat
    BY <1>0
  <2>3. n + 1 = (k + 1) * SeqSpace + 0 /\ k + 1 \in Nat
    BY <1>0, <1>1, <1>3, <2>2
  <2>4. Lap(n + 1, 0)
    BY <2>3 DEF Lap
  <2> QED BY <1>0, <2>1, <2>4
<1> QED BY <1>0, <1>2, <1>3

(* Two numbers with one sequence number are laps apart. *)
LEMMA SameLap ==
  ASSUME NEW m \in Nat, NEW n \in Nat, NEW s \in Nat, Lap(m, s), Lap(n, s), m <= n
  PROVE  LapsBefore(m, n)
<1>0. SeqSpace \in Nat /\ SeqSpace # 0
  BY PingAssumption
<1>1. PICK j \in Nat : m = j * SeqSpace + s
  BY DEF Lap
<1>2. PICK k \in Nat : n = k * SeqSpace + s
  BY DEF Lap
<1> DEFINE d == j - k
<1>3. d * SeqSpace = j * SeqSpace - k * SeqSpace /\ d * SeqSpace <= 0 /\ d \in Int
  BY <1>0, <1>1, <1>2
<1>4. d <= 0
  <2> SUFFICES ASSUME d >= 1 PROVE FALSE
    BY <1>3
  <2> HIDE DEF d
  <2>1. d * SeqSpace >= SeqSpace
    BY <1>0, <1>3
  <2> QED BY <1>0, <1>3, <2>1
<1>5. k - j \in Nat
  BY <1>4
<1>6. m + (k - j) * SeqSpace = n
  BY <1>0, <1>1, <1>2
<1> QED BY <1>5, <1>6 DEF LapsBefore

(* The laps are no more than the requests. *)
LEMMA FewLaps ==
  ASSUME NEW m \in Nat, NEW n \in Nat, NEW e \in Nat, LapsBefore(m, n), n <= e
  PROVE  \E k \in 0..e : m + k * SeqSpace = n
<1>0. SeqSpace \in Nat /\ SeqSpace >= 1
  BY PingAssumption
<1>1. PICK k \in Nat : m + k * SeqSpace = n
  BY DEF LapsBefore
<1>2. k * SeqSpace >= k
  BY <1>0
<1>3. k * SeqSpace \in Nat
  BY <1>0
<1>4. k <= e
  BY <1>1, <1>2, <1>3
<1> QED BY <1>1, <1>4

(* What a call consists of. *)
LEMMA EchoFields ==
  ASSUME PingTypes, NEW p \in Pingers
  PROVE  /\ echo[p] \in EchoCalls /\ echo[p].at \in {"idle", "write", "wait"} /\ echo[p].seq \in Nat /\ echo[p].id \in Nat
         /\ echo[p].sent \in Nat /\ echo[p].received \in Nat /\ echo[p].samples \in Nat /\ echo[p].ans \in EchoAnswers
  BY DEF PingTypes, EchoCalls

(* An empty answer. *)
LEMMA NoAnswerTyped == NoAnswer \in EchoAnswers /\ ~NoAnswer.answered /\ Unspoilt(NoAnswer)
  BY DEF NoAnswer, EchoAnswers, Unspoilt

(* Nothing is asked at first. *)
LEMMA PingInitInv == PingInit => PingInv
<1> SUFFICES ASSUME PingInit PROVE PingInv
  OBVIOUS
<1>0. _sequence = 0 /\ _pending = <<>> /\ net = {} /\ echoes = 0 /\ echo = [p \in Pingers |-> NoEcho] /\ SeqSpace \in Nat /\ SeqSpace > 0
  BY PingAssumption DEF PingInit
<1>1. NoEcho \in EchoCalls /\ NoEcho.at = "idle" /\ NoEcho.res = "none" /\ NoEcho.sent = 0 /\ NoEcho.received = 0 /\ NoEcho.samples = 0
  BY NoAnswerTyped DEF NoEcho, EchoCalls
<1>2. PingTypes
  BY <1>0, <1>1 DEF PingTypes
<1>3. \A p \in Pingers : echo[p] = NoEcho /\ ~Echoing(p)
  BY <1>0, <1>1 DEF Echoing
<1>4. NumbersLap
  <2>1. 0 = 0 * SeqSpace + 0
    BY <1>0
  <2>2. Lap(0, 0)
    BY <2>1 DEF Lap
  <2> QED BY <1>0, <1>3, <2>2 DEF NumbersLap
<1>5. EchoesEntered /\ WaitingOwn /\ KindsRight /\ SamplesCounted /\ EndedOwn
  BY <1>0, <1>1, <1>3 DEF EchoesEntered, WaitingOwn, KindsRight, SamplesCounted, EndedOwn
<1> QED BY <1>2, <1>4, <1>5 DEF PingInv

(* Begin: a number that nobody waits for is entered. *)
LEMMA EchoBeginsStep == ASSUME PingInv, NEW p \in Pingers, EchoBegins(p) PROVE PingInv'
<1> DEFINE s == (_sequence + 1) % SeqSpace
<1>0. /\ PingTypes /\ echo \in [Pingers -> EchoCalls] /\ echo[p].at = "idle" /\ echoes' = echoes + 1 /\ net' = net
      /\ _sequence' = s /\ echoes \in Nat /\ ~Echoing(p)
  BY DEF PingInv, PingTypes, EchoBegins, Echoing
<1>1. s \in Nat /\ s < SeqSpace /\ Lap(echoes + 1, s)
  BY NextLap DEF PingInv, PingTypes, NumbersLap
<1> HIDE DEF s
<1>2. \A m \in net : m \in EchoMessages /\ m.id \in Nat /\ m.seq \in Nat /\ Lap(m.id, m.seq) /\ m.id <= echoes + 1
  BY <1>0 DEF PingInv, PingTypes, NumbersLap, EchoMessages
<1>3. CASE s \in DOMAIN _pending
  <2>1. echo' = [echo EXCEPT ![p] = [echo[p] EXCEPT !.res = "inuse"]] /\ _pending' = _pending
    BY <1>0, <1>3 DEF EchoBegins, s
  <2>2. echo' \in [Pingers -> EchoCalls] /\ echo'[p].at = "idle" /\ echo'[p].res = "inuse" /\ echo'[p].sent = echo[p].sent
        /\ echo'[p].samples = echo[p].samples /\ echo'[p].received = echo[p].received /\ ~Echoing(p)'
    BY <1>0, <2>1 DEF EchoCalls, Echoing
  <2>3. \A q \in Pingers \ {p} : echo'[q] = echo[q] /\ Echoing(q)' = Echoing(q)
    BY <1>0, <2>1 DEF Echoing
  <2>4. PingTypes'
    BY <1>0, <1>1, <2>1, <2>2 DEF PingTypes
  <2>5. NumbersLap'
    <3>1. \A q \in Pingers : Echoing(q)' => Lap(echo'[q].id, echo'[q].seq) /\ echo'[q].id <= echoes'
      BY <1>0, <2>2, <2>3, EchoFields DEF PingInv, NumbersLap
    <3> QED BY <1>0, <1>1, <1>2, <3>1 DEF NumbersLap
  <2>6. EchoesEntered' /\ WaitingOwn' /\ KindsRight'
    BY <1>0, <2>1, <2>2, <2>3 DEF PingInv, EchoesEntered, WaitingOwn, KindsRight
  <2>7. SamplesCounted'
    BY <2>2, <2>3 DEF PingInv, SamplesCounted
  <2>8. EndedOwn'
    BY <1>0, <2>2, <2>3, EchoFields DEF PingInv, EndedOwn
  <2> QED BY <2>4, <2>5, <2>6, <2>7, <2>8 DEF PingInv
<1>4. CASE s \notin DOMAIN _pending
  <2>1. /\ echo' = [echo EXCEPT ![p] = [echo[p] EXCEPT !.at = "write", !.seq = s, !.id = echoes + 1, !.attempt = 0]]
        /\ _pending' = [x \in DOMAIN _pending \cup {s} |-> IF x = s THEN NoAnswer ELSE _pending[x]]
    BY <1>0, <1>4 DEF EchoBegins, s
  <2>2. /\ echo' \in [Pingers -> EchoCalls] /\ echo'[p].at = "write" /\ echo'[p].seq = s /\ echo'[p].id = echoes + 1
        /\ echo'[p].sent = echo[p].sent /\ echo'[p].samples = echo[p].samples /\ echo'[p].received = echo[p].received /\ Echoing(p)'
    <3> DEFINE c == [echo[p] EXCEPT !.at = "write", !.seq = s, !.id = echoes + 1, !.attempt = 0]
    <3>0. echo[p] \in EchoCalls /\ echoes + 1 \in Nat
      BY <1>0
    <3>1. c \in EchoCalls
      BY <1>1, <3>0 DEF EchoCalls
    <3>2. c.at = "write" /\ c.seq = s /\ c.id = echoes + 1 /\ c.sent = echo[p].sent /\ c.samples = echo[p].samples /\ c.received = echo[p].received
      BY <3>0 DEF EchoCalls
    <3> HIDE DEF c
    <3>3. echo' = [echo EXCEPT ![p] = c]
      BY <2>1 DEF c
    <3>4. echo' \in [Pingers -> EchoCalls] /\ echo'[p] = c
      BY <1>0, <3>1, <3>3
    <3> QED BY <3>2, <3>4 DEF Echoing
  <2>3. \A q \in Pingers \ {p} : echo'[q] = echo[q] /\ Echoing(q)' = Echoing(q)
    BY <1>0, <2>1 DEF Echoing
  <2>3a. \A q \in Pingers \ {p} : Echoing(q) => echo[q].seq \in DOMAIN _pending /\ echo[q].seq # s
    BY <1>4 DEF PingInv, EchoesEntered
  <2>4. PingTypes'
    BY <1>0, <1>1, <2>1, <2>2, NoAnswerTyped DEF PingTypes
  <2>5. NumbersLap'
    <3>1. \A q \in Pingers : Echoing(q)' => Lap(echo'[q].id, echo'[q].seq) /\ echo'[q].id <= echoes'
      BY <1>0, <1>1, <2>2, <2>3, EchoFields DEF PingInv, NumbersLap
    <3> QED BY <1>0, <1>1, <1>2, <3>1 DEF NumbersLap
  <2>6. EchoesEntered'
    BY <2>1, <2>2, <2>3, <2>3a, <1>0 DEF PingInv, EchoesEntered
  <2>7. WaitingOwn'
    <3> SUFFICES ASSUME NEW q \in Pingers, Echoing(q)'
                 PROVE  /\ _pending'[echo'[q].seq].answered => LapsBefore(_pending'[echo'[q].seq].from, echo'[q].id)
                        /\ \A m \in net : m.seq = echo'[q].seq => LapsBefore(m.id, echo'[q].id)
      BY <1>0 DEF WaitingOwn
    <3>1. CASE q = p
      <4>1. _pending'[s] = NoAnswer
        BY <2>1
      <4>2. ASSUME NEW m \in net, m.seq = s PROVE LapsBefore(m.id, echoes + 1)
        BY <1>0, <1>1, <1>2, <4>2, SameLap
      <4> QED BY <2>2, <3>1, <4>1, <4>2, NoAnswerTyped
    <3>2. CASE q # p
      <4>1. echo'[q] = echo[q] /\ Echoing(q) /\ _pending'[echo[q].seq] = _pending[echo[q].seq]
        BY <2>1, <2>3, <2>3a, <3>2
      <4> QED BY <4>1 DEF PingInv, WaitingOwn
    <3> QED BY <3>1, <3>2
  <2>8. KindsRight'
    BY <2>1, NoAnswerTyped DEF PingInv, KindsRight
  <2>9. SamplesCounted'
    BY <2>2, <2>3 DEF PingInv, SamplesCounted
  <2>10. EndedOwn'
    BY <1>0, <2>2, <2>3, EchoFields DEF PingInv, EndedOwn
  <2> QED BY <2>4, <2>5, <2>6, <2>7, <2>8, <2>9, <2>10 DEF PingInv
<1> QED BY <1>3, <1>4

(* Write: answers to this request are on their way. *)
LEMMA EchoWritesStep == ASSUME PingInv, NEW p \in Pingers, NEW answers \in Answers, EchoWrites(p, answers) PROVE PingInv'
<1> DEFINE new == {[seq |-> echo[p].seq, id |-> echo[p].id, kind |-> k] : k \in answers}
<1>0. /\ PingTypes /\ echo \in [Pingers -> EchoCalls] /\ echo[p].at = "write" /\ UNCHANGED <<_sequence, _pending, echoes>>
      /\ net' = net \cup new /\ echo' = [echo EXCEPT ![p] = [echo[p] EXCEPT !.at = "wait", !.sent = echo[p].sent + 1]]
  BY DEF PingInv, PingTypes, EchoWrites
<1>1. answers \subseteq Kinds
  BY DEF Answers, Kinds
<1>2. \A m \in new : m \in EchoMessages /\ m.seq = echo[p].seq /\ m.id = echo[p].id
  BY <1>0, <1>1, EchoFields DEF EchoMessages
<1> HIDE DEF new
<1>3. /\ echo' \in [Pingers -> EchoCalls] /\ echo'[p].at = "wait" /\ echo'[p].seq = echo[p].seq /\ echo'[p].id = echo[p].id
      /\ echo'[p].sent = echo[p].sent + 1 /\ echo'[p].samples = echo[p].samples /\ echo'[p].received = echo[p].received /\ Echoing(p)' /\ Echoing(p)
  <2> DEFINE c == [echo[p] EXCEPT !.at = "wait", !.sent = echo[p].sent + 1]
  <2>0. echo[p] \in EchoCalls /\ echo[p].sent + 1 \in Nat
    BY <1>0, EchoFields
  <2>1. c \in EchoCalls
    BY <2>0 DEF EchoCalls
  <2>2. c.at = "wait" /\ c.seq = echo[p].seq /\ c.id = echo[p].id /\ c.sent = echo[p].sent + 1 /\ c.samples = echo[p].samples /\ c.received = echo[p].received
    BY <2>0 DEF EchoCalls
  <2> HIDE DEF c
  <2>3. echo' = [echo EXCEPT ![p] = c]
    BY <1>0 DEF c
  <2>4. echo' \in [Pingers -> EchoCalls] /\ echo'[p] = c
    BY <1>0, <2>1, <2>3
  <2> QED BY <1>0, <2>2, <2>4 DEF Echoing
<1>4. \A q \in Pingers \ {p} : echo'[q] = echo[q]
  BY <1>0
<1>5. \A q \in Pingers : echo'[q].seq = echo[q].seq /\ echo'[q].id = echo[q].id /\ Echoing(q)' = Echoing(q)
  BY <1>3, <1>4 DEF Echoing
<1>6. PingTypes'
  BY <1>0, <1>2, <1>3 DEF PingTypes
<1>7. NumbersLap' /\ EchoesEntered' /\ KindsRight'
  BY <1>0, <1>2, <1>3, <1>5 DEF PingInv, NumbersLap, EchoesEntered, KindsRight
<1>8. WaitingOwn'
  <2>1. SeqSpace \in Nat
    BY PingAssumption
  <2>2. ASSUME NEW n \in Nat PROVE LapsBefore(n, n)
    <3>1. n + 0 * SeqSpace = n
      BY <2>1
    <3> QED BY <3>1 DEF LapsBefore
  <2> SUFFICES ASSUME NEW q \in Pingers, Echoing(q), NEW m \in net', m.seq = echo[q].seq PROVE LapsBefore(m.id, echo[q].id)
    BY <1>0, <1>5 DEF PingInv, WaitingOwn
  <2>3. CASE m \in net
    BY <2>3 DEF PingInv, WaitingOwn
  <2>4. CASE m \in new
    <3>1. q = p
      BY <1>2, <1>3, <2>4 DEF PingInv, EchoesEntered
    <3> QED BY <1>0, <1>2, <2>2, <2>4, <3>1, EchoFields
  <2> QED BY <1>0, <2>3, <2>4
<1>9. SamplesCounted'
  BY <1>0, <1>3, <1>4, EchoFields DEF PingInv, SamplesCounted
<1>10. EndedOwn'
  BY <1>0, <1>3, <1>4, <1>5 DEF PingInv, EndedOwn
<1> QED BY <1>6, <1>7, <1>8, <1>9, <1>10 DEF PingInv

(* A write that is tried again. *)
LEMMA EchoRetriesStep == ASSUME PingInv, NEW p \in Pingers, EchoRetries(p) PROVE PingInv'
<1>0. /\ PingTypes /\ echo \in [Pingers -> EchoCalls] /\ UNCHANGED <<_sequence, _pending, net, echoes>>
      /\ echo' = [echo EXCEPT ![p] = [echo[p] EXCEPT !.attempt = 1]]
  BY DEF PingInv, PingTypes, EchoRetries
<1>1. echo' \in [Pingers -> EchoCalls]
  BY <1>0 DEF EchoCalls
<1>2. \A q \in Pingers : /\ echo'[q].at = echo[q].at /\ echo'[q].seq = echo[q].seq /\ echo'[q].id = echo[q].id /\ echo'[q].res = echo[q].res
                         /\ echo'[q].sent = echo[q].sent /\ echo'[q].samples = echo[q].samples /\ echo'[q].received = echo[q].received
                         /\ echo'[q].ans = echo[q].ans /\ Echoing(q)' = Echoing(q)
  BY <1>0 DEF EchoCalls, Echoing
<1>3. PingTypes'
  BY <1>0, <1>1 DEF PingTypes
<1>4. NumbersLap' /\ EchoesEntered' /\ KindsRight' /\ WaitingOwn' /\ SamplesCounted' /\ EndedOwn'
  BY <1>0, <1>2 DEF PingInv, NumbersLap, EchoesEntered, KindsRight, WaitingOwn, SamplesCounted, EndedOwn
<1> QED BY <1>3, <1>4 DEF PingInv

(* A call ends and takes its entry along. *)
LEMMA EchoEnds ==
  ASSUME PingInv, NEW p \in Pingers, Echoing(p), NEW c \in EchoCalls, c.at = "idle", UNCHANGED <<_sequence, net, echoes>>,
         _pending' = Drop(_pending, echo[p].seq), echo' = [echo EXCEPT ![p] = c],
         c.received <= c.samples, c.samples <= c.sent,
         c.res \in {"ok", "expired"} => LapsBefore(c.ans.from, c.id) /\ c.id <= echoes,
         c.res = "ok" => c.ans.kinds = {"reply"}
  PROVE  PingInv'
<1>1. DOMAIN _pending' = DOMAIN _pending \ {echo[p].seq} /\ \A s \in DOMAIN _pending' : _pending'[s] = _pending[s]
  BY DEF Drop, Restrict
<1>2. echo' \in [Pingers -> EchoCalls] /\ echo'[p] = c /\ ~Echoing(p)' /\ \A q \in Pingers \ {p} : echo'[q] = echo[q] /\ Echoing(q)' = Echoing(q)
  BY DEF PingInv, PingTypes, Echoing
<1>3. \A q \in Pingers \ {p} : Echoing(q) => echo[q].seq \in DOMAIN _pending'
  BY <1>1 DEF PingInv, EchoesEntered
<1>4. PingTypes'
  BY <1>1, <1>2 DEF PingInv, PingTypes
<1>5. NumbersLap' /\ KindsRight' /\ SamplesCounted' /\ EndedOwn'
  BY <1>1, <1>2 DEF PingInv, NumbersLap, KindsRight, SamplesCounted, EndedOwn
<1>6. EchoesEntered'
  BY <1>1, <1>2 DEF PingInv, EchoesEntered
<1>7. WaitingOwn'
  BY <1>1, <1>2, <1>3 DEF PingInv, WaitingOwn
<1> QED BY <1>4, <1>5, <1>6, <1>7 DEF PingInv

(* The write fails, or the time is up. *)
LEMMA EchoFailsStep == ASSUME PingInv, NEW p \in Pingers, EchoWriteFails(p) \/ EchoTimesOut(p) PROVE PingInv'
<1>1. PICK r \in {"failed", "timeout"} : echo' = [echo EXCEPT ![p] = [echo[p] EXCEPT !.at = "idle", !.res = r, !.ans = NoAnswer]]
  BY DEF EchoWriteFails, EchoTimesOut, Ends
<1>2. Echoing(p) /\ UNCHANGED <<_sequence, net, echoes>> /\ _pending' = Drop(_pending, echo[p].seq) /\ echo[p] \in EchoCalls
  BY EchoFields DEF EchoWriteFails, EchoTimesOut, Echoing, PingInv
<1> DEFINE c == [echo[p] EXCEPT !.at = "idle", !.res = r, !.ans = NoAnswer]
<1>3. c \in EchoCalls /\ c.at = "idle" /\ c.res = r /\ c.received = echo[p].received /\ c.samples = echo[p].samples /\ c.sent = echo[p].sent
  BY <1>2, NoAnswerTyped DEF EchoCalls
<1>4. c.received <= c.samples /\ c.samples <= c.sent
  BY <1>3 DEF PingInv, SamplesCounted
<1> HIDE DEF c
<1> QED BY <1>1, <1>2, <1>3, <1>4, EchoEnds DEF c

(* The thread wakes with an answer. *)
LEMMA EchoAnsweredStep == ASSUME PingInv, NEW p \in Pingers, EchoAnswered(p) PROVE PingInv'
<1> DEFINE a == _pending[echo[p].seq]
           c == [echo[p] EXCEPT !.at = "idle", !.res = IF a.error = "none" THEN "ok" ELSE a.error, !.ans = a,
                                !.received = echo[p].received + (IF a.error = "none" THEN 1 ELSE 0),
                                !.samples = echo[p].samples + (IF a.error \in {"none", "expired"} THEN 1 ELSE 0)]
<1>1. /\ Echoing(p) /\ echo[p].at = "wait" /\ UNCHANGED <<_sequence, net, echoes>> /\ _pending' = Drop(_pending, echo[p].seq) /\ echo[p] \in EchoCalls
      /\ a.answered /\ echo' = [echo EXCEPT ![p] = c]
  BY EchoFields DEF EchoAnswered, Echoing, PingInv
<1>2. echo[p].seq \in DOMAIN _pending /\ a \in EchoAnswers /\ Unspoilt(a)
  BY <1>1 DEF PingInv, PingTypes, EchoesEntered, KindsRight
<1>3. LapsBefore(a.from, echo[p].id) /\ echo[p].id <= echoes
  BY <1>1 DEF PingInv, WaitingOwn, NumbersLap
<1>4. echo[p].samples < echo[p].sent /\ echo[p].received <= echo[p].samples
  BY <1>1 DEF PingInv, SamplesCounted
<1> HIDE DEF a
<1>5. a.error \in {"none", "expired"} /\ echo[p].received \in Nat /\ echo[p].samples \in Nat /\ echo[p].sent \in Nat
  BY <1>1, <1>2 DEF EchoAnswers, EchoCalls
<1>6. /\ c \in EchoCalls /\ c.at = "idle" /\ c.res = (IF a.error = "none" THEN "ok" ELSE a.error) /\ c.ans = a /\ c.id = echo[p].id
      /\ c.received = echo[p].received + (IF a.error = "none" THEN 1 ELSE 0) /\ c.samples = echo[p].samples + 1 /\ c.sent = echo[p].sent
  <2> DEFINE r == echo[p].received + (IF a.error = "none" THEN 1 ELSE 0)
             w == echo[p].samples + (IF a.error \in {"none", "expired"} THEN 1 ELSE 0)
             e == IF a.error = "none" THEN "ok" ELSE a.error
  <2>1. r \in Nat /\ w \in Nat /\ w = echo[p].samples + 1 /\ e \in {"ok", "expired"}
    BY <1>5
  <2>2. c = [echo[p] EXCEPT !.at = "idle", !.res = e, !.ans = a, !.received = r, !.samples = w]
    OBVIOUS
  <2>3. r = echo[p].received + (IF a.error = "none" THEN 1 ELSE 0) /\ e = IF a.error = "none" THEN "ok" ELSE a.error
    OBVIOUS
  <2> HIDE DEF r, w, e, c
  <2>4. c \in EchoCalls
    BY <1>1, <1>2, <2>1, <2>2 DEF EchoCalls
  <2>5. c.at = "idle" /\ c.res = e /\ c.ans = a /\ c.id = echo[p].id /\ c.received = r /\ c.samples = w /\ c.sent = echo[p].sent
    BY <1>1, <2>2 DEF EchoCalls
  <2> QED BY <2>1, <2>3, <2>4, <2>5
<1> HIDE DEF c
<1>7. c.received <= c.samples /\ c.samples <= c.sent
  BY <1>4, <1>5, <1>6
<1>8. c.res = "ok" => c.ans.kinds = {"reply"}
  BY <1>1, <1>2, <1>5, <1>6 DEF Unspoilt
<1> QED BY <1>1, <1>3, <1>6, <1>7, <1>8, EchoEnds

(* What arrives is entered under its number, if somebody waits there. *)
LEMMA ArrivesStep == ASSUME PingInv, NEW m \in net, NEW copied \in BOOLEAN, Arrives(m, copied) PROVE PingInv'
<1>0. /\ PingTypes /\ UNCHANGED <<_sequence, echo, echoes>> /\ net' \subseteq net /\ m \in EchoMessages
      /\ DOMAIN _pending' = DOMAIN _pending
      /\ \A s \in DOMAIN _pending : _pending'[s] = IF s # m.seq THEN _pending[s] ELSE IF m.kind = "reply" THEN OnReadable(_pending[s], m) ELSE OnError(_pending[s], m)
  BY DEF PingInv, PingTypes, Arrives
<1>1. \A s \in DOMAIN _pending : s # m.seq => _pending'[s] = _pending[s]
  BY <1>0
<1>2. ASSUME m.seq \in DOMAIN _pending
      PROVE  /\ _pending'[m.seq] \in EchoAnswers /\ _pending'[m.seq].answered /\ _pending'[m.seq].from = m.id /\ Unspoilt(_pending'[m.seq])
  <2> DEFINE a == _pending[m.seq]
             b == _pending'[m.seq]
  <2>1. a \in EchoAnswers /\ Unspoilt(a) /\ m.id \in Nat /\ m.kind \in Kinds
    BY <1>0, <1>2 DEF PingInv, PingTypes, KindsRight, EchoMessages
  <2>2. CASE m.kind = "reply"
    <3>1. b = [a EXCEPT !.answered = TRUE, !.from = m.id, !.kinds = a.kinds \cup {m.kind}]
      BY <1>0, <1>2, <2>2 DEF OnReadable
    <3> HIDE DEF a, b
    <3>2. b \in EchoAnswers /\ b.answered /\ b.from = m.id /\ b.kinds = a.kinds \cup {"reply"} /\ b.error = a.error
      BY <2>1, <2>2, <3>1 DEF EchoAnswers
    <3>3. a.error = "none" => a.kinds \subseteq {"reply"}
      BY <2>1 DEF Unspoilt
    <3>4. Unspoilt(b)
      BY <3>2, <3>3 DEF Unspoilt
    <3> QED BY <3>2, <3>4 DEF b
  <2>3. CASE m.kind # "reply"
    <3>1. b = [a EXCEPT !.answered = TRUE, !.from = m.id, !.error = m.kind, !.kinds = a.kinds \cup {m.kind}]
      BY <1>0, <1>2, <2>3 DEF OnError
    <3>2. m.kind = "expired"
      BY <2>1, <2>3 DEF Kinds
    <3> HIDE DEF a, b
    <3>3. b \in EchoAnswers /\ b.answered /\ b.from = m.id /\ b.error = "expired"
      BY <2>1, <3>1, <3>2 DEF EchoAnswers
    <3> QED BY <3>3 DEF b, Unspoilt
  <2> QED BY <2>2, <2>3
<1>3. PingTypes'
  BY <1>0, <1>1, <1>2 DEF PingTypes
<1>4. \A p \in Pingers : Echoing(p)' = Echoing(p)
  BY <1>0 DEF Echoing
<1>5. NumbersLap' /\ EchoesEntered' /\ SamplesCounted' /\ EndedOwn'
  BY <1>0, <1>4 DEF PingInv, NumbersLap, EchoesEntered, SamplesCounted, EndedOwn
<1>6. KindsRight'
  BY <1>0, <1>1, <1>2 DEF PingInv, KindsRight
<1>7. WaitingOwn'
  <2> SUFFICES ASSUME NEW p \in Pingers, Echoing(p), _pending'[echo[p].seq].answered
               PROVE  LapsBefore(_pending'[echo[p].seq].from, echo[p].id)
    BY <1>0, <1>4 DEF PingInv, WaitingOwn
  <2>1. echo[p].seq \in DOMAIN _pending
    BY DEF PingInv, EchoesEntered
  <2> QED BY <1>1, <1>2, <2>1 DEF PingInv, WaitingOwn
<1> QED BY <1>3, <1>5, <1>6, <1>7 DEF PingInv

(* The invariant of Ping is inductive. *)
LEMMA PingStep == PingInv /\ [PingNext]_pingVars => PingInv'
<1> SUFFICES ASSUME PingInv, [PingNext]_pingVars PROVE PingInv'
  OBVIOUS
<1>1. CASE UNCHANGED pingVars
  BY <1>1 DEF pingVars, PingInv, PingTypes, NumbersLap, EchoesEntered, WaitingOwn, KindsRight, SamplesCounted, EndedOwn, Echoing
<1>2. CASE PingNext
  BY <1>2, EchoBeginsStep, EchoWritesStep, EchoRetriesStep, EchoFailsStep, EchoAnsweredStep, ArrivesStep DEF PingNext
<1> QED BY <1>1, <1>2

(* The invariant is what the run checks, and more. *)
LEMMA PingHolds == PingInv => OwnEcho /\ PendingAreWaiting /\ RepliesCounted
<1> SUFFICES ASSUME PingInv PROVE OwnEcho /\ PendingAreWaiting /\ RepliesCounted
  OBVIOUS
<1>1. OwnEcho
  <2> SUFFICES ASSUME NEW p \in Pingers, echo[p].at = "idle", echo[p].res \in Kinds \cup {"ok"}
               PROVE  \E n \in 0..echoes : echo[p].ans.from + n * SeqSpace = echo[p].id
    BY DEF OwnEcho
  <2>1. echo[p] \in EchoCalls /\ echoes \in Nat
    BY DEF PingInv, PingTypes
  <2>2. echo[p].res \in {"ok", "expired"} /\ echo[p].id \in Nat /\ echo[p].ans.from \in Nat
    BY <2>1 DEF EchoCalls, EchoAnswers, Kinds
  <2>3. LapsBefore(echo[p].ans.from, echo[p].id) /\ echo[p].id <= echoes
    BY <2>2 DEF PingInv, EndedOwn, Echoing
  <2> QED BY <2>1, <2>2, <2>3, FewLaps
<1>2. PendingAreWaiting
  <2>1. \A s : s \in DOMAIN _pending <=> s \in {echo[p].seq : p \in {q \in Pingers : echo[q].at # "idle"}}
    BY DEF PingInv, EchoesEntered, Echoing
  <2>2. DOMAIN _pending = {echo[p].seq : p \in {q \in Pingers : echo[q].at # "idle"}}
    BY <2>1, Zenon
  <2>3. \A p, q \in Pingers : (echo[p].at # "idle" /\ echo[q].at # "idle" /\ echo[p].seq = echo[q].seq) => p = q
    BY DEF PingInv, EchoesEntered, Echoing
  <2> QED BY <2>2, <2>3 DEF PendingAreWaiting
<1>3. RepliesCounted
  BY DEF PingInv, SamplesCounted, EndedOwn, Echoing, RepliesCounted
<1> QED BY <1>1, <1>2, <1>3

-----------------------------------------------------------------------------
(***************************************************************************)
(* Names.  A packet is known by the question it answers, or is one nobody  *)
(* asked for, which has id 0: what waits under a key is of that id.        *)
(***************************************************************************)
DnsTypes == {"A", "AAAA", "PTR", "NS", "SOA", "MX"}
DnsErrors == {"none", "refused", "toolong"}
CallSteps == {"idle", "query", "del", "disc", "conn", "add", "send", "wait", "woken", "late"}
DnsAnswers == [type : DnsTypes, blank : BOOLEAN]
Packets == [req : Nat, id : QueryIds \cup {0, -1}, answers : SUBSET DnsAnswers, ec : DnsErrors]
QueryCalls == [at : CallSteps, todo : Seq(DnsTypes), fn : Seq(DnsTypes), lookup : BOOLEAN, server : Nat,
               id : QueryIds \cup {0}, req : Nat, found : SUBSET DnsAnswers, got : Packets]

\* A call under way has a question left to ask.
HasQuestion(c) == c.at # "idle" => c.todo # <<>> /\ c.fn # <<>>
NameTypes ==
    /\ through \in {"resolver", "peer"} /\ topic \in DOMAIN Called /\ asked \in Seq(QueryIds)
    /\ asker \in [Askers -> QueryCalls] /\ \A t \in Askers : HasQuestion(asker[t])
    /\ \A k \in DOMAIN tabled : tabled[k] \in Packets
    /\ \A m \in inFlight : m.answers \in SUBSET DnsAnswers /\ m.rcode \in {"none", "refused"} /\ m.req \in Nat /\ m.id \in QueryIds \cup {0}
    /\ dnsLink \in [connected : BOOLEAN, watched : BOOLEAN]

Asking(t) == asker[t].at \in {"wait", "woken", "late"}
QuestionsEntered ==
    /\ \A k : k \in DOMAIN tabled <=> \E t \in Askers : Asking(t) /\ Key(t) = k
    /\ \A t, u \in Askers : Asking(t) /\ Asking(u) /\ Key(t) = Key(u) => t = u

\* Packet number n is about question n, which drew id i, or about none.
Origin(h, n, i) == IF n = 0 THEN i = 0 ELSE Drew(h, n, i)
\* What a call keeps of its last question.
CallOwn(h, c) ==
    IF c.at \in {"wait", "woken", "late"} THEN Drew(h, c.req, c.id)
    ELSE c.got # NoPacket => c.got.id = c.id /\ Origin(h, c.got.req, c.id) /\ Drew(h, c.req, c.id)
PacketsOwn ==
    /\ \A m \in inFlight : Origin(asked, m.req, m.id)
    /\ \A k \in DOMAIN tabled : tabled[k] # NoPacket => tabled[k].id = k[2] /\ Origin(asked, tabled[k].req, k[2])
    /\ \A t \in Askers : CallOwn(asked, asker[t])

NameInv == NameTypes /\ QuestionsEntered /\ PacketsOwn /\ WatchedWhenConnected

(* What a call consists of. *)
LEMMA CallFields ==
  ASSUME NEW c \in QueryCalls
  PROVE  /\ c.at \in CallSteps /\ c.todo \in Seq(DnsTypes) /\ c.fn \in Seq(DnsTypes) /\ c.lookup \in BOOLEAN /\ c.server \in Nat
         /\ c.id \in QueryIds \cup {0} /\ c.req \in Nat /\ c.found \in SUBSET DnsAnswers /\ c.got \in Packets
  BY DEF QueryCalls

(* The empty packet, and the thread that asks nothing. *)
LEMMA NoPacketTyped == NoPacket \in Packets
  BY DEF NoPacket, Packets, DnsErrors

LEMMA NoQueryTyped == NoQuery \in QueryCalls /\ NoQuery.at = "idle" /\ NoQuery.got = NoPacket
<1>1. <<>> \in Seq(DnsTypes) /\ {} \in SUBSET DnsAnswers
  OBVIOUS
<1> QED BY <1>1, NoPacketTyped DEF NoQuery, QueryCalls, CallSteps

(* The functions ask at least one question. *)
LEMMA CalledTyped ==
  ASSUME NameTypes, NEW what \in Called[topic]
  PROVE  what[1] \in Seq(DnsTypes) /\ what[1] # <<>> /\ what[2] \in BOOLEAN
<1>1. topic \in {"address", "server", "authority", "mail"}
  BY DEF NameTypes, Called
<1>2. PICK f \in {ResolveAnyAddress, ResolveAllName, ResolveAllNameServer, ResolveAuthority, ResolveAllMailExchanger}, b \in BOOLEAN :
           what = <<f, b>>
  <2>1. /\ Called["address"] = {<<ResolveAnyAddress, FALSE>>, <<ResolveAllName, TRUE>>} /\ Called["server"] = {<<ResolveAllNameServer, FALSE>>}
        /\ Called["authority"] = {<<ResolveAuthority, FALSE>>} /\ Called["mail"] = {<<ResolveAllMailExchanger, FALSE>>}
    BY DEF Called
  <2>2. \/ what = <<ResolveAnyAddress, FALSE>> \/ what = <<ResolveAllName, TRUE>> \/ what = <<ResolveAllNameServer, FALSE>>
        \/ what = <<ResolveAuthority, FALSE>> \/ what = <<ResolveAllMailExchanger, FALSE>>
    BY <1>1, <2>1, Zenon
  <2> QED BY <2>2
<1>3. ResolveAnyAddress = <<"A">> \o <<"AAAA">>
  BY DEF ResolveAnyAddress, ResolveAllAddress
<1>4. /\ ResolveAnyAddress \in Seq(DnsTypes) /\ ResolveAllName \in Seq(DnsTypes) /\ ResolveAllNameServer \in Seq(DnsTypes)
      /\ ResolveAuthority \in Seq(DnsTypes) /\ ResolveAllMailExchanger \in Seq(DnsTypes)
  BY <1>3 DEF ResolveAllName, ResolveAllNameServer, ResolveAuthority, ResolveAllMailExchanger, DnsTypes
<1>5. /\ Len(ResolveAnyAddress) > 0 /\ Len(ResolveAllName) > 0 /\ Len(ResolveAllNameServer) > 0
      /\ Len(ResolveAuthority) > 0 /\ Len(ResolveAllMailExchanger) > 0
  BY <1>3 DEF ResolveAllName, ResolveAllNameServer, ResolveAuthority, ResolveAllMailExchanger
<1>6. f \in Seq(DnsTypes) /\ Len(f) > 0
  BY <1>2, <1>4, <1>5
<1>7. what[1] = f /\ what[2] = b
  BY <1>2
<1> QED BY <1>6, <1>7

(* Nothing is asked at first. *)
LEMMA NameInitInv == NameInit => NameInv
<1> SUFFICES ASSUME NameInit PROVE NameInv
  OBVIOUS
<1>1. /\ through \in {"resolver", "peer"} /\ topic \in DOMAIN Called /\ tabled = <<>> /\ inFlight = {} /\ asked = <<>>
      /\ dnsLink = [connected |-> FALSE, watched |-> FALSE] /\ asker = [t \in Askers |-> NoQuery]
  BY DEF NameInit, Called
<1>2. \A t \in Askers : asker[t] = NoQuery /\ ~Asking(t)
  BY <1>1, NoQueryTyped DEF Asking
<1>3. NameTypes
  BY <1>1, <1>2, NoQueryTyped DEF NameTypes, HasQuestion
<1>4. QuestionsEntered /\ PacketsOwn
  BY <1>1, <1>2, NoQueryTyped DEF QuestionsEntered, PacketsOwn, CallOwn
<1>5. WatchedWhenConnected
  BY <1>1 DEF WatchedWhenConnected
<1> QED BY <1>3, <1>4, <1>5 DEF NameInv

(* What comes after a question keeps what the question brought. *)
LEMMA AfterKeeps ==
  ASSUME NEW c \in QueryCalls, c.todo # <<>>, c.fn # <<>>
  PROVE  /\ After(c) \in QueryCalls /\ HasQuestion(After(c)) /\ After(c).at \in {"idle", "query"}
         /\ After(c).id = c.id /\ After(c).req = c.req /\ After(c).got = c.got
<1> DEFINE rest == Tail(c.todo)
<1>1. rest \in Seq(DnsTypes)
  BY CallFields
<1> HIDE DEF rest
<1>2. CASE rest # <<>>
  <2>1. After(c) = [c EXCEPT !.at = "query", !.todo = rest]
    BY <1>2 DEF After, rest
  <2> QED BY <1>1, <1>2, <2>1 DEF QueryCalls, CallSteps, HasQuestion
<1>3. CASE rest = <<>> /\ c.lookup /\ c.found = {} /\ c.server < NameServers
  <2>1. After(c) = [c EXCEPT !.at = "query", !.todo = c.fn, !.server = c.server + 1] /\ c.server + 1 \in Nat /\ c.fn \in Seq(DnsTypes)
    BY <1>3, CallFields DEF After, rest
  <2> QED BY <2>1 DEF QueryCalls, CallSteps, HasQuestion
<1>4. CASE rest = <<>> /\ ~(c.lookup /\ c.found = {} /\ c.server < NameServers)
  <2>1. After(c) = [NoQuery EXCEPT !.id = c.id, !.req = c.req, !.got = c.got]
    BY <1>4 DEF After, rest
  <2> QED BY <2>1, CallFields, NoQueryTyped DEF QueryCalls, CallSteps, HasQuestion
<1> QED BY <1>2, <1>3, <1>4

(* A question more. *)
LEMMA AskedMore ==
  ASSUME NEW h \in Seq(QueryIds), NEW id \in QueryIds
  PROVE  /\ Append(h, id) \in Seq(QueryIds) /\ Len(h) + 1 \in Nat /\ Len(h) + 1 # 0 /\ Drew(Append(h, id), Len(h) + 1, id)
         /\ \A n, i : Drew(h, n, i) => Drew(Append(h, id), n, i)
         /\ \A n, i : Origin(h, n, i) => Origin(Append(h, id), n, i)
         /\ \A c : CallOwn(h, c) => CallOwn(Append(h, id), c)
<1>1. Append(h, id) \in Seq(QueryIds) /\ Len(h) \in Nat /\ Len(Append(h, id)) = Len(h) + 1
  BY AppendProperties, LenProperties
<1>2. DOMAIN h = 1..Len(h) /\ DOMAIN Append(h, id) = 1..(Len(h) + 1)
  BY <1>1, LenProperties
<1>3. Append(h, id)[Len(h) + 1] = id /\ \A n \in 1..Len(h) : Append(h, id)[n] = h[n]
  BY AppendProperties
<1>4. Drew(Append(h, id), Len(h) + 1, id) /\ \A n, i : Drew(h, n, i) => Drew(Append(h, id), n, i)
  BY <1>1, <1>2, <1>3 DEF Drew
<1>5. \A n, i : Origin(h, n, i) => Origin(Append(h, id), n, i)
  BY <1>4 DEF Origin
<1> QED BY <1>1, <1>4, <1>5 DEF CallOwn

(* A thread that is in no table goes on, and still is in none. *)
LEMMA GoesOn ==
  ASSUME NameInv, NEW t \in Askers, ~Asking(t), NEW c \in QueryCalls, HasQuestion(c), c.at \notin {"wait", "woken", "late"},
         asker' = [asker EXCEPT ![t] = c], CallOwn(asked', c), UNCHANGED <<through, topic, tabled, inFlight>>,
         asked' = asked \/ \E id \in QueryIds : asked' = Append(asked, id),
         dnsLink' \in [connected : BOOLEAN, watched : BOOLEAN]
  PROVE  NameTypes' /\ QuestionsEntered' /\ PacketsOwn'
<1>0. NameTypes /\ asker \in [Askers -> QueryCalls] /\ asked \in Seq(QueryIds)
  BY DEF NameInv, NameTypes
<1>1. asker' \in [Askers -> QueryCalls] /\ asker'[t] = c /\ \A u \in Askers \ {t} : asker'[u] = asker[u]
  BY <1>0
<1>2. /\ asked' \in Seq(QueryIds) /\ \A n, i : Origin(asked, n, i) => Origin(asked', n, i)
      /\ \A d : CallOwn(asked, d) => CallOwn(asked', d)
  <2>1. CASE asked' = asked
    BY <1>0, <2>1
  <2>2. ASSUME NEW id \in QueryIds, asked' = Append(asked, id)
        PROVE  /\ asked' \in Seq(QueryIds) /\ \A n, i : Origin(asked, n, i) => Origin(asked', n, i)
               /\ \A d : CallOwn(asked, d) => CallOwn(asked', d)
    BY <1>0, <2>2, AskedMore
  <2> QED BY <2>1, <2>2
<1>3. NameTypes'
  BY <1>0, <1>1, <1>2 DEF NameTypes
<1>4. ~Asking(t)' /\ \A u \in Askers \ {t} : Asking(u)' = Asking(u) /\ Key(u)' = Key(u)
  BY <1>1 DEF Asking, Key, SocketOf
<1>5. QuestionsEntered'
  BY <1>4 DEF NameInv, QuestionsEntered
<1>6. PacketsOwn'
  BY <1>1, <1>2 DEF NameInv, PacketsOwn
<1> QED BY <1>3, <1>5, <1>6

(* A call that gives up its question. *)
LEMMA FailsTyped ==
  ASSUME NameTypes, NEW t \in Askers, asker[t].at # "idle"
  PROVE  LET c == After([asker[t] EXCEPT !.got = NoPacket])
         IN  c \in QueryCalls /\ HasQuestion(c) /\ c.at \in {"idle", "query"} /\ c.got = NoPacket
<1> DEFINE d == [asker[t] EXCEPT !.got = NoPacket]
<1>1. asker[t] \in QueryCalls /\ asker[t].todo # <<>> /\ asker[t].fn # <<>>
  BY DEF NameTypes, HasQuestion
<1>2. d \in QueryCalls /\ d.todo = asker[t].todo /\ d.fn = asker[t].fn /\ d.got = NoPacket
  BY <1>1, NoPacketTyped DEF QueryCalls
<1> HIDE DEF d
<1>3. After(d) \in QueryCalls /\ HasQuestion(After(d)) /\ After(d).at \in {"idle", "query"} /\ After(d).got = NoPacket
  BY <1>1, <1>2, AfterKeeps
<1> QED BY <1>3 DEF d

(* A call begins. *)
LEMMA CallBeginsStep == ASSUME NameInv, NEW t \in Askers, NEW what \in Called[topic], CallBegins(t, what[1], what[2]) PROVE NameInv'
<1> DEFINE c == [NoQuery EXCEPT !.at = "query", !.todo = what[1], !.fn = what[1], !.lookup = what[2], !.server = 1]
<1>0. NameTypes /\ asker[t].at = "idle" /\ asker' = [asker EXCEPT ![t] = c] /\ UNCHANGED <<through, topic, tabled, inFlight, dnsLink, closing, asked>>
  BY DEF NameInv, CallBegins
<1>1. c \in QueryCalls /\ HasQuestion(c) /\ c.at = "query" /\ c.got = NoPacket
  BY <1>0, CalledTyped, NoQueryTyped DEF QueryCalls, CallSteps, HasQuestion
<1> HIDE DEF c
<1>2. ~Asking(t) /\ CallOwn(asked', c) /\ dnsLink' \in [connected : BOOLEAN, watched : BOOLEAN]
  BY <1>0, <1>1 DEF Asking, CallOwn, NameTypes
<1>3. NameTypes' /\ QuestionsEntered' /\ PacketsOwn'
  BY <1>0, <1>1, <1>2, GoesOn
<1>4. WatchedWhenConnected'
  BY <1>0 DEF NameInv, NameTypes, WatchedWhenConnected
<1> QED BY <1>3, <1>4 DEF NameInv

(* A thread that only moves on to another step of connecting. *)
LEMMA MovesOn ==
  ASSUME NameInv, NEW t \in Askers, ~Asking(t), asker[t].at # "idle", NEW at \in {"disc", "conn", "add", "send"},
         asker' = [asker EXCEPT ![t] = [asker[t] EXCEPT !.at = at]], UNCHANGED <<through, topic, tabled, inFlight, asked>>,
         dnsLink' \in [connected : BOOLEAN, watched : BOOLEAN]
  PROVE  /\ NameTypes' /\ QuestionsEntered' /\ PacketsOwn'
         /\ asker'[t].at = at /\ \A u \in Askers \ {t} : asker'[u] = asker[u]
<1> DEFINE c == [asker[t] EXCEPT !.at = at]
<1>1. asker \in [Askers -> QueryCalls] /\ asker[t] \in QueryCalls /\ HasQuestion(asker[t]) /\ CallOwn(asked, asker[t])
  BY DEF NameInv, NameTypes, PacketsOwn
<1>2. /\ c \in QueryCalls /\ HasQuestion(c) /\ c.at = at /\ c.got = asker[t].got /\ c.id = asker[t].id /\ c.req = asker[t].req
  BY <1>1 DEF QueryCalls, CallSteps, HasQuestion
<1>3. asker' = [asker EXCEPT ![t] = c]
  OBVIOUS
<1> HIDE DEF c
<1>4. CallOwn(asked', c)
  BY <1>1, <1>2 DEF CallOwn, Asking
<1>5. NameTypes' /\ QuestionsEntered' /\ PacketsOwn'
  BY <1>2, <1>3, <1>4, GoesOn
<1> QED BY <1>1, <1>2, <1>3, <1>5

(* The question before the connection: the last one is forgotten. *)
LEMMA NeedReconnectionStep == ASSUME NameInv, NEW t \in Askers, NeedReconnection(t) PROVE NameInv'
<1> DEFINE at == IF SocketOf(t) # Shared \/ through = "peer" \/ dnsLink.connected THEN "send" ELSE "del"
           c == [asker[t] EXCEPT !.got = NoPacket, !.id = 0, !.req = 0, !.at = at]
<1>0. NameTypes /\ asker[t].at = "query" /\ asker' = [asker EXCEPT ![t] = c] /\ UNCHANGED <<through, topic, tabled, inFlight, dnsLink, closing, asked>>
  BY DEF NameInv, NeedReconnection
<1>1. asker \in [Askers -> QueryCalls] /\ asker[t] \in QueryCalls /\ HasQuestion(asker[t]) /\ at \in {"send", "del"} /\ (at = "send" \/ ~dnsLink.connected)
  BY <1>0 DEF NameTypes
<1> HIDE DEF at
<1>2. c \in QueryCalls /\ HasQuestion(c) /\ c.at = at /\ c.got = NoPacket
  BY <1>0, <1>1, NoPacketTyped DEF QueryCalls, CallSteps, HasQuestion
<1> HIDE DEF c
<1>3. ~Asking(t) /\ CallOwn(asked', c) /\ dnsLink' \in [connected : BOOLEAN, watched : BOOLEAN]
  BY <1>0, <1>1, <1>2 DEF Asking, CallOwn, NameTypes
<1>4. NameTypes' /\ QuestionsEntered' /\ PacketsOwn'
  BY <1>0, <1>1, <1>2, <1>3, GoesOn
<1>5. WatchedWhenConnected'
  BY <1>0, <1>1, <1>2 DEF NameInv, WatchedWhenConnected
<1> QED BY <1>4, <1>5 DEF NameInv

(* The handler is removed, the socket closed. *)
LEMMA DelHandlerStep == ASSUME NameInv, NEW t \in Askers, DelHandler(t) PROVE NameInv'
<1>1. /\ asker[t].at = "del" /\ asker' = [asker EXCEPT ![t] = [asker[t] EXCEPT !.at = "disc"]] /\ ~Asking(t)
      /\ UNCHANGED <<through, topic, tabled, inFlight, closing, asked>> /\ dnsLink' \in [connected : BOOLEAN, watched : BOOLEAN]
  BY DEF NameInv, NameTypes, DelHandler, Asking
<1>2. NameTypes' /\ QuestionsEntered' /\ PacketsOwn' /\ asker'[t].at = "disc"
  BY <1>1, MovesOn
<1>3. WatchedWhenConnected'
  BY <1>2 DEF WatchedWhenConnected
<1> QED BY <1>2, <1>3 DEF NameInv

LEMMA DisconnectStep == ASSUME NameInv, NEW t \in Askers, Disconnect(t) PROVE NameInv'
<1>1. /\ asker[t].at = "disc" /\ asker' = [asker EXCEPT ![t] = [asker[t] EXCEPT !.at = "conn"]] /\ ~Asking(t)
      /\ UNCHANGED <<through, topic, tabled, inFlight, closing, asked>> /\ dnsLink' \in [connected : BOOLEAN, watched : BOOLEAN]
  BY DEF NameInv, NameTypes, Disconnect, Asking
<1>2. NameTypes' /\ QuestionsEntered' /\ PacketsOwn' /\ asker'[t].at = "conn"
  BY <1>1, MovesOn
<1>3. WatchedWhenConnected'
  BY <1>2 DEF WatchedWhenConnected
<1> QED BY <1>2, <1>3 DEF NameInv

(* The socket is connected, or given up by this thread and for all others. *)
LEMMA ConnectStep == ASSUME NameInv, NEW t \in Askers, NEW fails \in BOOLEAN, Connect(t, fails) PROVE NameInv'
<1>0. NameTypes /\ asker[t].at = "conn" /\ ~Asking(t) /\ UNCHANGED <<through, topic, tabled, inFlight, closing, asked>>
  BY DEF NameInv, Connect, Asking
<1>1. CASE fails \/ dnsLink.connected
  <2> DEFINE c == After([asker[t] EXCEPT !.got = NoPacket])
  <2>1. dnsLink' = [connected |-> FALSE, watched |-> FALSE] /\ asker' = [asker EXCEPT ![t] = c]
    BY <1>1 DEF Connect, Fails
  <2>2. c \in QueryCalls /\ HasQuestion(c) /\ c.at \in {"idle", "query"} /\ c.got = NoPacket
    BY <1>0, FailsTyped
  <2> HIDE DEF c
  <2>3. CallOwn(asked', c) /\ dnsLink' \in [connected : BOOLEAN, watched : BOOLEAN] /\ ~dnsLink'.connected
    BY <2>1, <2>2 DEF CallOwn
  <2>4. NameTypes' /\ QuestionsEntered' /\ PacketsOwn'
    BY <1>0, <2>1, <2>2, <2>3, GoesOn
  <2> QED BY <2>3, <2>4 DEF NameInv, WatchedWhenConnected
<1>2. CASE ~(fails \/ dnsLink.connected)
  <2>1. asker' = [asker EXCEPT ![t] = [asker[t] EXCEPT !.at = "add"]] /\ dnsLink' \in [connected : BOOLEAN, watched : BOOLEAN]
    BY <1>0, <1>2 DEF Connect, NameTypes
  <2>2. NameTypes' /\ QuestionsEntered' /\ PacketsOwn' /\ asker'[t].at = "add"
    BY <1>0, <2>1, MovesOn
  <2> QED BY <2>2 DEF NameInv, WatchedWhenConnected
<1> QED BY <1>1, <1>2

(* The handler is added, unless the socket is closed again. *)
LEMMA AddHandlerStep == ASSUME NameInv, NEW t \in Askers, AddHandler(t) PROVE NameInv'
<1>1. /\ asker[t].at = "add" /\ asker' = [asker EXCEPT ![t] = [asker[t] EXCEPT !.at = "send"]] /\ ~Asking(t)
      /\ UNCHANGED <<through, topic, tabled, inFlight, closing, asked>> /\ dnsLink' \in [connected : BOOLEAN, watched : BOOLEAN]
      /\ dnsLink'.watched = dnsLink'.connected
  BY DEF NameInv, NameTypes, AddHandler, Asking
<1>2. NameTypes' /\ QuestionsEntered' /\ PacketsOwn'
  BY <1>1, MovesOn
<1> QED BY <1>1, <1>2 DEF NameInv, WatchedWhenConnected

(* The reactor thread takes the connection down. *)
LEMMA OnCloseStep == ASSUME NameInv, NEW step \in {"idle", "disc"}, OnClose(step) PROVE NameInv'
<1>1. UNCHANGED <<through, topic, tabled, asker, inFlight, asked>> /\ dnsLink' \in [connected : BOOLEAN, watched : BOOLEAN]
      /\ (closing' = "idle" => ~dnsLink'.connected)
  BY DEF NameInv, NameTypes, OnClose
<1>2. NameTypes' /\ QuestionsEntered' /\ PacketsOwn'
  BY <1>1 DEF NameInv, NameTypes, QuestionsEntered, PacketsOwn, Asking, Key, SocketOf
<1> QED BY <1>1, <1>2 DEF NameInv, WatchedWhenConnected

(* A message nobody asked for. *)
LEMMA AnnounceStep ==
  ASSUME NameInv, NEW message \in {AnnounceRecords, GoodbyeRecords, ProbeRecords, BrowseService}, Announce(message) PROVE NameInv'
<1>1. UNCHANGED <<through, topic, tabled, asker, dnsLink, closing, asked>> /\ inFlight' = inFlight \cup {message}
  BY DEF Announce
<1>2. PICK r \in BOOLEAN : message = Unasked(r)
  BY DEF AnnounceRecords, GoodbyeRecords, ProbeRecords, BrowseService
<1>3. /\ message.req = 0 /\ message.id = 0 /\ message.answers = {[type |-> "A", blank |-> FALSE]} /\ message.rcode = "none"
  BY <1>2 DEF Unasked
<1>4. message.answers \in SUBSET DnsAnswers
  BY <1>3 DEF DnsAnswers, DnsTypes
<1>5. Origin(asked, message.req, message.id)
  BY <1>3 DEF Origin
<1>6. NameTypes'
  <2>1. message.rcode \in {"none", "refused"} /\ message.req \in Nat /\ message.id \in QueryIds \cup {0}
    BY <1>3
  <2>2. \A m \in inFlight' : m.answers \in SUBSET DnsAnswers /\ m.rcode \in {"none", "refused"} /\ m.req \in Nat /\ m.id \in QueryIds \cup {0}
    BY <1>1, <1>4, <2>1 DEF NameInv, NameTypes
  <2> QED BY <1>1, <2>2 DEF NameInv, NameTypes
<1>7. QuestionsEntered' /\ PacketsOwn' /\ WatchedWhenConnected'
  BY <1>1, <1>5 DEF NameInv, QuestionsEntered, PacketsOwn, Asking, Key, SocketOf, WatchedWhenConnected
<1> QED BY <1>6, <1>7 DEF NameInv

(* The wait ends by itself, or at its time. *)
LEMMA WaitEndsStep == ASSUME NameInv, NEW t \in Askers, WakesAlone(t) \/ TimesOut(t) PROVE NameInv'
<1>1. PICK at \in {"woken", "late"} : asker' = [asker EXCEPT ![t] = [asker[t] EXCEPT !.at = at]]
  BY DEF WakesAlone, TimesOut
<1>2. asker[t].at = "wait" /\ UNCHANGED <<through, topic, tabled, inFlight, dnsLink, closing, asked>> /\ asker \in [Askers -> QueryCalls]
  BY DEF WakesAlone, TimesOut, NameInv, NameTypes
<1> DEFINE c == [asker[t] EXCEPT !.at = at]
<1>3. /\ c \in QueryCalls /\ c.at = at /\ c.todo = asker[t].todo /\ c.fn = asker[t].fn /\ c.id = asker[t].id /\ c.req = asker[t].req
      /\ c.lookup = asker[t].lookup /\ c.server = asker[t].server
  BY <1>2 DEF QueryCalls, CallSteps
<1> HIDE DEF c
<1>4. asker' \in [Askers -> QueryCalls] /\ asker'[t] = c /\ \A u \in Askers \ {t} : asker'[u] = asker[u]
  BY <1>1, <1>2, <1>3 DEF c
<1>5. NameTypes'
  BY <1>2, <1>3, <1>4 DEF NameInv, NameTypes, HasQuestion
<1>6. \A u \in Askers : Asking(u)' = Asking(u) /\ Key(u)' = Key(u)
  BY <1>1, <1>2, <1>3, <1>4 DEF Asking, Key, SocketOf
<1>7. QuestionsEntered'
  BY <1>2, <1>6 DEF NameInv, QuestionsEntered
<1>8. PacketsOwn'
  <2>1. CallOwn(asked, c)
    BY <1>1, <1>2, <1>3 DEF NameInv, PacketsOwn, CallOwn
  <2> QED BY <1>2, <1>4, <2>1 DEF NameInv, PacketsOwn
<1>9. WatchedWhenConnected'
  BY <1>1, <1>2, <1>3, <1>4 DEF NameInv, WatchedWhenConnected
<1> QED BY <1>5, <1>7, <1>8, <1>9 DEF NameInv

(* The question is asked: it is entered under an id nobody waits for, or given up. *)
LEMMA SendStep ==
  ASSUME NameInv, NEW t \in Askers, asker[t].at = "send", NEW id \in QueryIds, NEW r \in Responses(Head(asker[t].todo)), Send(t, id, r)
  PROVE  NameInv'
<1> DEFINE n == Len(asked) + 1
           key == <<SocketOf(t), id>>
           refused == key \in DOMAIN tabled
           unsent == through = "resolver" /\ SocketOf(t) = Shared /\ ~dnsLink.connected
<1>0. NameTypes /\ UNCHANGED <<through, topic, dnsLink, closing>> /\ asked' = Append(asked, id) /\ asked \in Seq(QueryIds) /\ asker \in [Askers -> QueryCalls] /\ ~Asking(t)
  BY DEF NameInv, NameTypes, Send, Asking
<1>1. /\ asked' \in Seq(QueryIds) /\ n \in Nat /\ n # 0 /\ Drew(asked', n, id) /\ \A k, i : Origin(asked, k, i) => Origin(asked', k, i)
      /\ \A d : CallOwn(asked, d) => CallOwn(asked', d)
  BY <1>0, AskedMore
<1>2. CASE refused \/ unsent
  <2> DEFINE c == After([asker[t] EXCEPT !.got = NoPacket])
  <2>1. asker' = [asker EXCEPT ![t] = c] /\ UNCHANGED <<tabled, inFlight>>
    BY <1>2 DEF Send, Fails
  <2>2. c \in QueryCalls /\ HasQuestion(c) /\ c.at \in {"idle", "query"} /\ c.got = NoPacket
    BY <1>0, FailsTyped
  <2> HIDE DEF c, n, key, refused, unsent
  <2>3. CallOwn(asked', c) /\ dnsLink' \in [connected : BOOLEAN, watched : BOOLEAN]
    BY <1>0, <2>2 DEF CallOwn, NameTypes
  <2>4. NameTypes' /\ QuestionsEntered' /\ PacketsOwn'
    BY <1>0, <2>1, <2>2, <2>3, GoesOn
  <2>5. WatchedWhenConnected'
    BY <1>0, <2>1 DEF NameInv, WatchedWhenConnected
  <2> QED BY <2>4, <2>5 DEF NameInv
<1>3. CASE ~(refused \/ unsent)
  <2> DEFINE c == [asker[t] EXCEPT !.at = "wait", !.id = id, !.req = n]
             m == [r EXCEPT !.to = SocketOf(t), !.id = id, !.req = n]
  <2>1. /\ tabled' = [k \in DOMAIN tabled \cup {key} |-> IF k = key THEN NoPacket ELSE tabled[k]]
        /\ asker' = [asker EXCEPT ![t] = c] /\ inFlight' = inFlight \cup {m} /\ key \notin DOMAIN tabled
    BY <1>3 DEF Send
  <2>2. /\ c \in QueryCalls /\ HasQuestion(c) /\ c.at = "wait" /\ c.id = id /\ c.req = n /\ c.lookup = asker[t].lookup /\ c.server = asker[t].server
    BY <1>0, <1>1 DEF NameTypes, QueryCalls, CallSteps, HasQuestion
  <2>3. m.answers \in SUBSET DnsAnswers /\ m.rcode \in {"none", "refused"} /\ m.req = n /\ m.id = id
    <3>1. asker[t].todo \in Seq(DnsTypes) /\ asker[t].todo # <<>>
      BY <1>0 DEF NameTypes, HasQuestion, QueryCalls
    <3>2. Head(asker[t].todo) \in DnsTypes
      BY <3>1
    <3>3. AnswersTo(Head(asker[t].todo)) \in SUBSET DnsAnswers
      BY <3>2 DEF AnswersTo, DnsAnswers, DnsTypes
    <3>4. PICK a \in SUBSET DnsAnswers, e \in {"none", "refused"}, tc \in BOOLEAN : r = DnsReply(a, e, tc)
      BY <3>3 DEF Responses
    <3> QED BY <3>4 DEF DnsReply
  <2> HIDE DEF c, m, n, key, refused, unsent
  <2>4. asker' \in [Askers -> QueryCalls] /\ asker'[t] = c /\ \A u \in Askers \ {t} : asker'[u] = asker[u]
    BY <1>0, <2>1, <2>2
  <2>5. /\ Asking(t)' /\ Key(t)' = key /\ \A u \in Askers \ {t} : Asking(u)' = Asking(u) /\ Key(u)' = Key(u)
    BY <2>2, <2>4 DEF Asking, Key, SocketOf, key
  <2>6. DOMAIN tabled' = DOMAIN tabled \cup {key} /\ tabled'[key] = NoPacket /\ \A k \in DOMAIN tabled : tabled'[k] = tabled[k]
    BY <2>1
  <2>7. NameTypes'
    <3>1. \A k \in inFlight' : k.answers \in SUBSET DnsAnswers /\ k.rcode \in {"none", "refused"} /\ k.req \in Nat /\ k.id \in QueryIds \cup {0}
      BY <1>0, <1>1, <2>1, <2>3 DEF NameTypes
    <3>2. \A k \in DOMAIN tabled' : tabled'[k] \in Packets
      BY <1>0, <2>6, NoPacketTyped DEF NameTypes
    <3> QED BY <1>0, <1>1, <2>2, <2>4, <3>1, <3>2 DEF NameTypes
  <2>8. QuestionsEntered'
    BY <1>0, <2>1, <2>5, <2>6 DEF NameInv, QuestionsEntered
  <2>9. PacketsOwn'
    <3>1. \A k \in inFlight' : Origin(asked', k.req, k.id)
      BY <1>1, <2>1, <2>3 DEF NameInv, PacketsOwn, Origin
    <3>2. \A k \in DOMAIN tabled' : tabled'[k] # NoPacket => tabled'[k].id = k[2] /\ Origin(asked', tabled'[k].req, k[2])
      BY <1>1, <2>6 DEF NameInv, PacketsOwn
    <3>3. CallOwn(asked', c)
      BY <1>1, <2>2 DEF CallOwn
    <3>4. \A u \in Askers : CallOwn(asked', asker'[u])
      BY <1>1, <2>4, <3>3 DEF NameInv, PacketsOwn
    <3> QED BY <3>1, <3>2, <3>4 DEF PacketsOwn
  <2>10. WatchedWhenConnected'
    BY <1>0, <2>4 DEF NameInv, WatchedWhenConnected
  <2> QED BY <2>7, <2>8, <2>9, <2>10 DEF NameInv
<1> QED BY <1>2, <1>3

(* A response fills the entry of its id, whatever it answers. *)
LEMMA OnDnsReadableStep == ASSUME NameInv, NEW r \in inFlight, NEW copied \in BOOLEAN, OnDnsReadable(r, copied) PROVE NameInv'
<1> DEFINE p == [req |-> r.req, id |-> r.id, answers |-> r.answers, ec |-> DecodeError(r)]
           key == <<r.to, r.id>>
<1>0. /\ NameTypes /\ UNCHANGED <<through, topic, dnsLink, closing, asked>> /\ inFlight' \subseteq inFlight /\ asker \in [Askers -> QueryCalls]
      /\ tabled' = [k \in DOMAIN tabled |-> IF r.response /\ k = key THEN p ELSE tabled[k]]
      /\ asker' = [t \in Askers |-> IF r.response /\ asker[t].at = "wait" /\ Key(t) = key THEN [asker[t] EXCEPT !.at = "woken"] ELSE asker[t]]
  BY DEF NameInv, NameTypes, OnDnsReadable
<1>1. p \in Packets /\ p.id = key[2] /\ Origin(asked, p.req, key[2])
  <2>1. DecodeError(r) \in DnsErrors
    BY <1>0 DEF NameTypes, DecodeError, DnsErrors
  <2>2. r.req \in Nat /\ r.id \in QueryIds \cup {0} /\ r.answers \in SUBSET DnsAnswers /\ Origin(asked, r.req, r.id)
    BY <1>0 DEF NameInv, NameTypes, PacketsOwn
  <2> QED BY <2>1, <2>2 DEF Packets
<1> HIDE DEF p
<1>2. \A t \in Askers : /\ asker'[t] \in QueryCalls /\ asker'[t].todo = asker[t].todo /\ asker'[t].fn = asker[t].fn /\ asker'[t].lookup = asker[t].lookup
                        /\ asker'[t].server = asker[t].server /\ asker'[t].id = asker[t].id /\ asker'[t].req = asker[t].req /\ asker'[t].got = asker[t].got
                        /\ (asker'[t].at = asker[t].at \/ (asker[t].at = "wait" /\ asker'[t].at = "woken"))
  <2> SUFFICES ASSUME NEW t \in Askers
               PROVE  /\ asker'[t] \in QueryCalls /\ asker'[t].todo = asker[t].todo /\ asker'[t].fn = asker[t].fn /\ asker'[t].lookup = asker[t].lookup
                      /\ asker'[t].server = asker[t].server /\ asker'[t].id = asker[t].id /\ asker'[t].req = asker[t].req /\ asker'[t].got = asker[t].got
                      /\ (asker'[t].at = asker[t].at \/ (asker[t].at = "wait" /\ asker'[t].at = "woken"))
    OBVIOUS
  <2>1. asker[t] \in QueryCalls /\ (asker'[t] = asker[t] \/ (asker[t].at = "wait" /\ asker'[t] = [asker[t] EXCEPT !.at = "woken"]))
    BY <1>0
  <2> QED BY <2>1 DEF QueryCalls, CallSteps
<1>3. asker' \in [Askers -> QueryCalls]
  BY <1>0, <1>2
<1>4. \A t \in Askers : Asking(t)' = Asking(t) /\ Key(t)' = Key(t)
  BY <1>2 DEF Asking, Key, SocketOf
<1>5. DOMAIN tabled' = DOMAIN tabled /\ \A k \in DOMAIN tabled : tabled'[k] = tabled[k] \/ (k = key /\ tabled'[k] = p)
  BY <1>0
<1>6. NameTypes'
  <2>1. \A k \in DOMAIN tabled' : tabled'[k] \in Packets
    BY <1>0, <1>1, <1>5 DEF NameTypes
  <2>2. \A t \in Askers : HasQuestion(asker[t])'
    BY <1>0, <1>2 DEF NameTypes, HasQuestion
  <2> QED BY <1>0, <1>3, <2>1, <2>2 DEF NameTypes
<1>7. QuestionsEntered'
  BY <1>4, <1>5 DEF NameInv, QuestionsEntered
<1>8. PacketsOwn'
  <2>1. \A t \in Askers : CallOwn(asked, asker[t]) => CallOwn(asked, asker'[t])
    BY <1>2 DEF CallOwn
  <2>2. \A k \in DOMAIN tabled' : tabled'[k] # NoPacket => tabled'[k].id = k[2] /\ Origin(asked, tabled'[k].req, k[2])
    BY <1>1, <1>5 DEF NameInv, PacketsOwn
  <2> QED BY <1>0, <2>1, <2>2 DEF NameInv, PacketsOwn
<1>9. WatchedWhenConnected'
  BY <1>0, <1>2 DEF NameInv, WatchedWhenConnected
<1> QED BY <1>6, <1>7, <1>8, <1>9 DEF NameInv

(* The thread takes what is entered now, and the entry goes. *)
LEMMA QueryEndsStep == ASSUME NameInv, NEW t \in Askers, QueryEnds(t) PROVE NameInv'
<1> DEFINE e == tabled[Key(t)]
           d == [asker[t] EXCEPT !.got = e, !.found = @ \cup Kept(Head(asker[t].todo), e.answers)]
<1>0. /\ NameTypes /\ UNCHANGED <<through, topic, inFlight, dnsLink, closing, asked>> /\ asker \in [Askers -> QueryCalls] /\ Asking(t)
      /\ asker[t].at \in {"woken", "late"} /\ Key(t) \in DOMAIN tabled
  BY DEF NameInv, NameTypes, QueryEnds, Asking, QuestionsEntered
<1>1. DOMAIN tabled' = DOMAIN tabled \ {Key(t)} /\ \A k \in DOMAIN tabled' : tabled'[k] = tabled[k]
  BY DEF QueryEnds, Restrict
<1>2. asker[t] \in QueryCalls /\ asker[t].todo # <<>> /\ asker[t].fn # <<>> /\ CallOwn(asked, asker[t])
  BY <1>0 DEF NameTypes, HasQuestion, NameInv, PacketsOwn
<1>3. e \in Packets /\ (e # NoPacket => e.id = asker[t].id /\ Origin(asked, e.req, asker[t].id)) /\ Drew(asked, asker[t].req, asker[t].id)
  BY <1>0, <1>2 DEF NameInv, NameTypes, PacketsOwn, Key, CallOwn
<1>4. PICK c \in QueryCalls : /\ asker' = [asker EXCEPT ![t] = c] /\ HasQuestion(c) /\ c.at \in {"idle", "query"} /\ CallOwn(asked, c)
  <2>1. CASE asker[t].at = "late" \/ e.ec # "none"
    <3> DEFINE c == After([asker[t] EXCEPT !.got = NoPacket])
    <3>1. asker' = [asker EXCEPT ![t] = c]
      BY <2>1 DEF QueryEnds, Fails
    <3>2. c \in QueryCalls /\ HasQuestion(c) /\ c.at \in {"idle", "query"} /\ c.got = NoPacket
      BY <1>0, FailsTyped
    <3> HIDE DEF c
    <3>3. CallOwn(asked, c)
      BY <3>2 DEF CallOwn
    <3> QED BY <3>1, <3>2, <3>3
  <2>2. CASE ~(asker[t].at = "late" \/ e.ec # "none")
    <3> DEFINE f == asker[t].found \cup Kept(Head(asker[t].todo), e.answers)
    <3>1. asker' = [asker EXCEPT ![t] = After(d)]
      BY <2>2 DEF QueryEnds
    <3>2. f \in SUBSET DnsAnswers /\ d = [asker[t] EXCEPT !.got = e, !.found = f]
      BY <1>2, <1>3 DEF Kept, QueryCalls, Packets
    <3> HIDE DEF e, f, d
    <3>3. d \in QueryCalls /\ d.todo = asker[t].todo /\ d.fn = asker[t].fn /\ d.id = asker[t].id /\ d.req = asker[t].req /\ d.got = e
      BY <1>2, <1>3, <3>2 DEF QueryCalls
    <3> DEFINE c == After(d)
    <3>4. c \in QueryCalls /\ HasQuestion(c) /\ c.at \in {"idle", "query"} /\ c.id = asker[t].id /\ c.req = asker[t].req /\ c.got = e
      BY <1>2, <3>3, AfterKeeps
    <3> HIDE DEF c
    <3>5. CallOwn(asked, c)
      BY <1>3, <3>4 DEF CallOwn
    <3> QED BY <3>1, <3>4, <3>5 DEF c
  <2> QED BY <2>1, <2>2
<1>5. asker' \in [Askers -> QueryCalls] /\ asker'[t] = c /\ \A u \in Askers \ {t} : asker'[u] = asker[u]
  BY <1>0, <1>4
<1>6. ~Asking(t)' /\ \A u \in Askers \ {t} : Asking(u)' = Asking(u) /\ Key(u)' = Key(u)
  BY <1>4, <1>5 DEF Asking, Key, SocketOf
<1>7. NameTypes'
  BY <1>0, <1>1, <1>4, <1>5 DEF NameTypes
<1>8. QuestionsEntered'
  BY <1>0, <1>1, <1>6 DEF NameInv, QuestionsEntered
<1>9. PacketsOwn'
  BY <1>0, <1>1, <1>4, <1>5 DEF NameInv, PacketsOwn
<1>10. WatchedWhenConnected'
  BY <1>0, <1>5 DEF NameInv, WatchedWhenConnected
<1> QED BY <1>7, <1>8, <1>9, <1>10 DEF NameInv

(* The invariant of the names is inductive. *)
LEMMA NameStep == NameInv /\ [NameNext]_nameVars => NameInv'
<1> SUFFICES ASSUME NameInv, [NameNext]_nameVars PROVE NameInv'
  OBVIOUS
<1>1. CASE UNCHANGED nameVars
  BY <1>1 DEF nameVars, NameInv, NameTypes, QuestionsEntered, PacketsOwn, WatchedWhenConnected, Asking, Key, SocketOf
<1>2. ASSUME NEW t \in Askers,
             \/ \E what \in Called[topic] : CallBegins(t, what[1], what[2])
             \/ NeedReconnection(t) \/ DelHandler(t) \/ Disconnect(t) \/ AddHandler(t)
             \/ \E fails \in BOOLEAN : Connect(t, fails)
             \/ asker[t].at = "send" /\ \E id \in QueryIds, r \in Responses(Head(asker[t].todo)) : Send(t, id, r)
             \/ WakesAlone(t) \/ TimesOut(t) \/ QueryEnds(t)
      PROVE  NameInv'
  BY <1>2, CallBeginsStep, NeedReconnectionStep, DelHandlerStep, DisconnectStep, AddHandlerStep, ConnectStep, SendStep, WaitEndsStep, QueryEndsStep
<1> QED BY <1>1, <1>2, OnCloseStep, AnnounceStep, OnDnsReadableStep DEF NameNext

(* The invariant is what the run checks, and more. *)
LEMMA NameHolds == NameInv => AnswersById /\ WatchedWhenConnected /\ TabledAreAsked
<1> SUFFICES ASSUME NameInv PROVE AnswersById /\ TabledAreAsked
  BY DEF NameInv
<1>1. AnswersById
  <2> SUFFICES ASSUME NEW t \in Askers, asker[t].at \notin {"wait", "woken", "late"}, asker[t].got # NoPacket
               PROVE  /\ asker[t].got.id = asker[t].id
                      /\ (asker[t].id # 0 /\ Cardinality({n \in DOMAIN asked : asked[n] = asker[t].id}) = 1) => asker[t].got.req = asker[t].req
    BY DEF AnswersById
  <2>1. asker[t].got.id = asker[t].id /\ Origin(asked, asker[t].got.req, asker[t].id) /\ Drew(asked, asker[t].req, asker[t].id) /\ asked \in Seq(QueryIds)
    BY DEF NameInv, NameTypes, PacketsOwn, CallOwn
  <2>2. asker[t].id # 0 => Drew(asked, asker[t].got.req, asker[t].id)
    BY <2>1 DEF Origin
  <2>3. ASSUME asker[t].id # 0, Cardinality({n \in DOMAIN asked : asked[n] = asker[t].id}) = 1
        PROVE  asker[t].got.req = asker[t].req
    <3>1. PICK d \in Seq(QueryIds) : d = asked
      BY <2>1
    <3>2. PICK v : v = asker[t].id
      OBVIOUS
    <3>3. PICK i \in DOMAIN d, j \in DOMAIN d : i = asker[t].req /\ j = asker[t].got.req /\ d[i] = v /\ d[j] = v
      BY <2>1, <2>2, <2>3, <3>1, <3>2 DEF Drew
    <3>4. Cardinality(Occurs(d, v)) = 1
      BY <2>3, <3>1, <3>2 DEF Occurs
    <3>5. i = j
      BY <3>3, <3>4, OnePlace
    <3> QED BY <3>3, <3>5
  <2> QED BY <2>1, <2>3
<1>2. TabledAreAsked
  <2>1. \A k : k \in DOMAIN tabled <=> k \in {Key(t) : t \in {u \in Askers : asker[u].at \in {"wait", "woken", "late"}}}
    BY DEF NameInv, QuestionsEntered, Asking
  <2> QED BY <2>1, Zenon DEF TabledAreAsked
<1> QED BY <1>1, <1>2
-----------------------------------------------------------------------------
(***************************************************************************)
(* DNS over TLS.  A stream of messages, from some byte of the first one    *)
(* on: every byte is followed by the rest of its message, the last byte of *)
(* a message by the first of another.  Reading and writing take bytes off  *)
(* the front of such a stream, in parts of any size.                       *)
(***************************************************************************)
ByteOf(f, i, z) == [frame |-> f, at |-> i, size |-> z]
Bytes == [frame : Nat, at : Nat, size : Nat \ {0}]
BytesLeft(b) == HeaderSize + b.size - b.at
Stream(s) ==
    /\ s \in Seq(Bytes)
    /\ \A i \in 1..Len(s) : BytesLeft(s[i]) >= 0
    /\ \A i \in 1..Len(s) : \A j \in 1..BytesLeft(s[i]) : i + j <= Len(s) /\ s[i + j] = ByteOf(s[i].frame, s[i].at + j, s[i].size)
    /\ \A i \in 1..Len(s) : BytesLeft(s[i]) = 0 /\ i < Len(s) => s[i + 1].at = 1

(* How what is written goes on with what is left to write. *)
EndsMessage(s) == s = <<>> \/ BytesLeft(s[Len(s)]) = 0
Joins(s, w) ==
    IF w = <<>> THEN EndsMessage(s)
    ELSE IF EndsMessage(s) THEN w[1].at = 1 ELSE w[1] = ByteOf(s[Len(s)].frame, s[Len(s)].at + 1, s[Len(s)].size)
WriteInv ==
    /\ frames \in Nat /\ Stream(writing)
    /\ ~crossed => sent \in Seq(Bytes) /\ WholeFrames(sent) /\ (encrypted => Joins(sent, writing))

(* The bytes of message f behind byte a. *)
Run(d, f, a, z) == d \in Seq(Bytes) /\ \A i \in 1..Len(d) : d[i] = ByteOf(f, a + i, z)

(* Inside message f of size z, `offset` bytes of which are read. *)
Inside(f, z) ==
    /\ place.offset \in Nat /\ place.offset < HeaderSize + z
    /\ peerSent # <<>> /\ peerSent[1] = ByteOf(f, place.offset + 1, z)
    /\ IF place.offset = 1 THEN place.data = <<ByteOf(f, 1, z)>>
       ELSE place.size = z /\ Run(place.data, f, HeaderSize, z) /\ Len(place.data) = place.offset - HeaderSize
Between == place = NoPlace /\ (peerSent # <<>> => peerSent[1].at = 1)
ReadPlace == Between \/ (place.offset # 0 /\ \E f \in 1..frames, z \in Nat \ {0} : Inside(f, z))
ReadInv ==
    /\ frames \in Nat /\ (~encrypted => place = NoPlace)
    /\ ~outStep => /\ Stream(peerSent) /\ \A i \in 1..Len(peerSent) : peerSent[i].frame \in 1..frames
                   /\ delivered \in Seq(Seq(Bytes)) /\ \A k \in 1..Len(delivered) : IsPayload(delivered[k])
                   /\ ReadPlace

DotInv == WriteInv /\ ReadInv

(* A byte. *)
LEMMA ByteFields ==
  ASSUME NEW b \in Bytes
  PROVE  b.frame \in Nat /\ b.at \in Nat /\ b.size \in Nat /\ b.size >= 1 /\ b = ByteOf(b.frame, b.at, b.size) /\ BytesLeft(b) \in Int
  BY DEF Bytes, ByteOf, BytesLeft, HeaderSize

LEMMA ByteOfFields == \A f, i, z : ByteOf(f, i, z).frame = f /\ ByteOf(f, i, z).at = i /\ ByteOf(f, i, z).size = z
  BY DEF ByteOf

(* The empty stream. *)
LEMMA EmptyStream == Stream(<<>>)
  BY EmptySeq DEF Stream

(* A message is a stream. *)
LEMMA FrameIsStream ==
  ASSUME NEW f \in Nat, NEW z \in Nat \ {0}
  PROVE  /\ Stream(Frame(f, z)) /\ Len(Frame(f, z)) = HeaderSize + z /\ Frame(f, z) # <<>> /\ Frame(f, z)[1].at = 1
         /\ \A i \in 1..(HeaderSize + z) : Frame(f, z)[i] = ByteOf(f, i, z)
<1> DEFINE s == Frame(f, z)
           n == HeaderSize + z
<1>1. n \in Nat /\ n >= 3 /\ n = 2 + z
  BY DEF HeaderSize
<1>2. \A i \in 1..n : ByteOf(f, i, z) \in Bytes
  BY <1>1 DEF ByteOf, Bytes
<1>3. s = [i \in 1..n |-> ByteOf(f, i, z)]
  BY DEF Frame, ByteOf
<1> HIDE DEF s
<1>4. s \in [1..n -> Bytes]
  BY <1>2, <1>3
<1>5. s \in Seq(Bytes) /\ Len(s) = n
  BY <1>1, <1>4, SeqDef, LenProperties
<1>6. \A i \in 1..n : s[i] = ByteOf(f, i, z) /\ BytesLeft(s[i]) = n - i
  BY <1>1, <1>3, ByteOfFields DEF BytesLeft, HeaderSize
<1>7. ASSUME NEW i \in 1..n, NEW j \in 1..BytesLeft(s[i])
      PROVE  i + j <= Len(s) /\ s[i + j] = ByteOf(s[i].frame, s[i].at + j, s[i].size)
  <2>1. i + j \in 1..n
    BY <1>1, <1>6
  <2> QED BY <1>5, <1>6, <2>1, ByteOfFields
<1>8. Stream(s)
  BY <1>1, <1>5, <1>6, <1>7 DEF Stream
<1>9. s # <<>>
  BY <1>1, <1>5, EmptySeq
<1> QED BY <1>1, <1>5, <1>6, <1>8, <1>9, ByteOfFields DEF s

(* What is left of a stream is a stream. *)
LEMMA StreamRest ==
  ASSUME NEW s, Stream(s), NEW n \in 0..Len(s)
  PROVE  /\ Stream(SubSeq(s, n + 1, Len(s))) /\ Len(SubSeq(s, n + 1, Len(s))) = Len(s) - n
         /\ \A i \in 1..(Len(s) - n) : SubSeq(s, n + 1, Len(s))[i] = s[n + i]
<1> DEFINE r == SubSeq(s, n + 1, Len(s))
<1>1. s \in Seq(Bytes) /\ Len(s) \in Nat /\ n \in Nat /\ n <= Len(s)
  BY DEF Stream
<1>2. \A i \in (n + 1)..Len(s) : s[i] \in Bytes
  BY <1>1
<1>3. r \in Seq(Bytes) /\ Len(r) = Len(s) - n /\ \A i \in 1..(Len(s) - n) : r[i] = s[n + i]
  BY <1>1, <1>2, SubSeqProperties
<1> HIDE DEF r
<1>4. \A i \in 1..Len(r) : n + i \in 1..Len(s) /\ r[i] = s[n + i]
  BY <1>1, <1>3
<1>5. \A i \in 1..Len(r) : BytesLeft(r[i]) >= 0
  BY <1>4 DEF Stream
<1>6. ASSUME NEW i \in 1..Len(r), NEW j \in 1..BytesLeft(r[i])
      PROVE  i + j <= Len(r) /\ r[i + j] = ByteOf(r[i].frame, r[i].at + j, r[i].size)
  <2>1. n + i \in 1..Len(s) /\ r[i] = s[n + i] /\ j \in 1..BytesLeft(s[n + i])
    BY <1>4, <1>6
  <2>2. (n + i) + j <= Len(s) /\ s[(n + i) + j] = ByteOf(s[n + i].frame, s[n + i].at + j, s[n + i].size)
    BY <2>1 DEF Stream
  <2>3. j \in Int /\ j >= 1 /\ i + j \in 1..Len(r) /\ n + (i + j) = (n + i) + j
    BY <1>1, <1>3, <2>2
  <2> QED BY <1>4, <2>1, <2>2, <2>3
<1>7. ASSUME NEW i \in 1..Len(r), BytesLeft(r[i]) = 0, i < Len(r)
      PROVE  r[i + 1].at = 1
  <2>1. n + i \in 1..Len(s) /\ n + i < Len(s) /\ i + 1 \in 1..Len(r) /\ n + (i + 1) = (n + i) + 1
    BY <1>1, <1>3, <1>7
  <2> QED BY <1>4, <1>7, <2>1 DEF Stream
<1>8. Stream(r)
  BY <1>3, <1>5, <1>6, <1>7 DEF Stream
<1> QED BY <1>3, <1>8 DEF r

(* The last byte of a stream is the last of a message. *)
LEMMA StreamEnds ==
  ASSUME NEW s, Stream(s), s # <<>>
  PROVE  Len(s) \in Nat /\ Len(s) >= 1 /\ BytesLeft(s[Len(s)]) = 0
<1>1. s \in Seq(Bytes) /\ Len(s) \in Nat /\ Len(s) >= 1
  BY EmptySeq DEF Stream
<1>2. Len(s) \in 1..Len(s) /\ s[Len(s)] \in Bytes /\ BytesLeft(s[Len(s)]) \in Int /\ BytesLeft(s[Len(s)]) >= 0
  BY <1>1, ByteFields DEF Stream
<1>3. ASSUME BytesLeft(s[Len(s)]) >= 1 PROVE FALSE
  <2>1. 1 \in 1..BytesLeft(s[Len(s)])
    BY <1>2, <1>3
  <2>2. Len(s) + 1 <= Len(s)
    BY <1>2, <2>1 DEF Stream
  <2> QED BY <1>1, <2>2
<1> QED BY <1>1, <1>2, <1>3

(* A message behind a stream. *)
LEMMA StreamGrows ==
  ASSUME NEW s, Stream(s), NEW f \in Nat, NEW z \in Nat \ {0}
  PROVE  /\ Stream(s \o Frame(f, z)) /\ s \o Frame(f, z) # <<>>
         /\ Len(s \o Frame(f, z)) = Len(s) + Len(Frame(f, z))
         /\ \A i \in 1..Len(s \o Frame(f, z)) : (s \o Frame(f, z))[i] = IF i <= Len(s) THEN s[i] ELSE Frame(f, z)[i - Len(s)]
<1> DEFINE g == Frame(f, z)
           r == s \o g
<1>1. s \in Seq(Bytes) /\ Len(s) \in Nat
  BY DEF Stream
<1>2. Stream(g) /\ g \in Seq(Bytes) /\ Len(g) \in Nat /\ Len(g) >= 1 /\ g[1].at = 1
  <2>1. Stream(g) /\ Len(g) = HeaderSize + z /\ g[1].at = 1
    BY FrameIsStream
  <2>2. HeaderSize + z \in Nat /\ HeaderSize + z >= 1
    BY DEF HeaderSize
  <2> HIDE DEF g
  <2> QED BY <2>1, <2>2 DEF Stream
<1> HIDE DEF g
<1>3. r \in Seq(Bytes) /\ Len(r) = Len(s) + Len(g) /\ \A i \in 1..Len(r) : r[i] = IF i <= Len(s) THEN s[i] ELSE g[i - Len(s)]
  BY <1>1, <1>2, ConcatProperties
<1> HIDE DEF r
<1>4. \A i \in 1..Len(r) : BytesLeft(r[i]) >= 0
  <2> SUFFICES ASSUME NEW i \in 1..Len(r) PROVE BytesLeft(r[i]) >= 0
    OBVIOUS
  <2>1. CASE i <= Len(s)
    BY <1>1, <1>3, <2>1 DEF Stream
  <2>2. CASE i > Len(s)
    <3>1. i - Len(s) \in 1..Len(g) /\ r[i] = g[i - Len(s)]
      BY <1>1, <1>2, <1>3, <2>2
    <3> QED BY <1>2, <3>1 DEF Stream
  <2> QED BY <1>1, <2>1, <2>2
<1>5. ASSUME NEW i \in 1..Len(r), NEW j \in 1..BytesLeft(r[i])
      PROVE  i + j <= Len(r) /\ r[i + j] = ByteOf(r[i].frame, r[i].at + j, r[i].size)
  <2>0. j \in Int /\ j >= 1
    OBVIOUS
  <2>1. CASE i <= Len(s)
    <3>1. r[i] = s[i] /\ i \in 1..Len(s)
      BY <1>1, <1>3, <2>1
    <3>2. i + j <= Len(s) /\ s[i + j] = ByteOf(s[i].frame, s[i].at + j, s[i].size)
      BY <3>1 DEF Stream
    <3>3. i + j \in 1..Len(r)
      BY <1>1, <1>2, <1>3, <2>0, <3>2
    <3> QED BY <1>1, <1>3, <3>1, <3>2, <3>3
  <2>2. CASE i > Len(s)
    <3>1. i - Len(s) \in 1..Len(g) /\ r[i] = g[i - Len(s)]
      BY <1>1, <1>2, <1>3, <2>2
    <3> DEFINE k == i - Len(s)
    <3>2. k + j <= Len(g) /\ g[k + j] = ByteOf(g[k].frame, g[k].at + j, g[k].size)
      BY <1>2, <3>1 DEF Stream
    <3>3. i + j \in 1..Len(r) /\ i + j > Len(s) /\ (i + j) - Len(s) = k + j
      BY <1>1, <1>2, <1>3, <2>0, <2>2, <3>2
    <3> QED BY <1>1, <1>3, <3>1, <3>2, <3>3
  <2> QED BY <1>1, <2>1, <2>2
<1>6. ASSUME NEW i \in 1..Len(r), BytesLeft(r[i]) = 0, i < Len(r) PROVE r[i + 1].at = 1
  <2>0. i + 1 \in 1..Len(r)
    BY <1>1, <1>2, <1>3, <1>6
  <2>1. CASE i < Len(s)
    BY <1>1, <1>3, <1>6, <2>0, <2>1 DEF Stream
  <2>2. CASE i = Len(s)
    BY <1>1, <1>2, <1>3, <2>0, <2>2
  <2>3. CASE i > Len(s)
    <3>1. i - Len(s) \in 1..Len(g) /\ r[i] = g[i - Len(s)] /\ i - Len(s) < Len(g) /\ r[i + 1] = g[(i - Len(s)) + 1]
      BY <1>1, <1>2, <1>3, <1>6, <2>0, <2>3
    <3> QED BY <1>2, <1>6, <3>1 DEF Stream
  <2> QED BY <1>1, <2>1, <2>2, <2>3
<1>7. Stream(r)
  BY <1>3, <1>4, <1>5, <1>6 DEF Stream
<1>8. r # <<>>
  BY <1>1, <1>2, <1>3, EmptySeq
<1> QED BY <1>3, <1>7, <1>8 DEF r, g

(* The bytes on the front of a stream, when some of a message are read or written. *)
LEMMA StreamFront ==
  ASSUME NEW s, Stream(s), NEW n \in 1..Len(s)
  PROVE  /\ SubSeq(s, 1, n) \in Seq(Bytes) /\ Len(SubSeq(s, 1, n)) = n /\ \A i \in 1..n : SubSeq(s, 1, n)[i] = s[i]
<1>1. s \in Seq(Bytes) /\ Len(s) \in Nat /\ n \in Int /\ \A i \in 1..n : s[i] \in Bytes
  BY DEF Stream
<1> QED BY <1>1, SubSeqProperties

(* Inside a stream a byte goes on with its message, or another begins. *)
LEMMA StreamLinked ==
  ASSUME NEW s, Stream(s), NEW i \in 1..Len(s), i < Len(s)
  PROVE  IF BytesLeft(s[i]) = 0 THEN s[i + 1].at = 1 ELSE s[i + 1] = ByteOf(s[i].frame, s[i].at + 1, s[i].size)
<1>1. s[i] \in Bytes /\ BytesLeft(s[i]) \in Int /\ BytesLeft(s[i]) >= 0
  BY ByteFields DEF Stream
<1>2. CASE BytesLeft(s[i]) = 0
  BY <1>2 DEF Stream
<1>3. CASE BytesLeft(s[i]) >= 1
  <2>1. 1 \in 1..BytesLeft(s[i])
    BY <1>1, <1>3
  <2> QED BY <1>3, <2>1 DEF Stream
<1> QED BY <1>1, <1>2, <1>3

(* WholeFrames, byte by byte. *)
LEMMA WholeFramesLinked ==
  ASSUME NEW s \in Seq(Bytes)
  PROVE  WholeFrames(s) <=> \A i \in 1..Len(s) : IF i = 1 THEN s[i].at = 1
                                                 ELSE IF BytesLeft(s[i - 1]) = 0 THEN s[i].at = 1
                                                 ELSE s[i] = ByteOf(s[i - 1].frame, s[i - 1].at + 1, s[i - 1].size)
<1>1. Len(s) \in Nat /\ DOMAIN s = 1..Len(s)
  BY LenProperties
<1>2. ASSUME NEW i \in 1..Len(s), i # 1
      PROVE  /\ s[i - 1].at = HeaderSize + s[i - 1].size <=> BytesLeft(s[i - 1]) = 0
             /\ [s[i - 1] EXCEPT !.at = @ + 1] = ByteOf(s[i - 1].frame, s[i - 1].at + 1, s[i - 1].size)
  <2>1. i - 1 \in 1..Len(s) /\ s[i - 1] \in Bytes
    BY <1>1, <1>2
  <2> DEFINE b == s[i - 1]
  <2>2. b.at \in Nat /\ b.size \in Nat /\ b = ByteOf(b.frame, b.at, b.size)
    BY <2>1, ByteFields
  <2> HIDE DEF b
  <2>3. b.at = HeaderSize + b.size <=> BytesLeft(b) = 0
    BY <2>2 DEF BytesLeft, HeaderSize
  <2>4. \A f, a, z : [ByteOf(f, a, z) EXCEPT !.at = ByteOf(f, a, z).at + 1] = ByteOf(f, a + 1, z)
    BY DEF ByteOf
  <2>5. [b EXCEPT !.at = b.at + 1] = ByteOf(b.frame, b.at + 1, b.size)
    BY <2>2, <2>4
  <2> QED BY <2>3, <2>5 DEF b
<1>3. ASSUME NEW i \in 1..Len(s)
      PROVE  (IF i = 1 \/ (i > 1 /\ s[i - 1].at = HeaderSize + s[i - 1].size) THEN s[i].at = 1 ELSE s[i] = [s[i - 1] EXCEPT !.at = @ + 1])
             <=> (IF i = 1 THEN s[i].at = 1 ELSE IF BytesLeft(s[i - 1]) = 0 THEN s[i].at = 1
                  ELSE s[i] = ByteOf(s[i - 1].frame, s[i - 1].at + 1, s[i - 1].size))
  <2>1. CASE i = 1
    BY <2>1
  <2>2. CASE i # 1
    <3>1. i > 1
      BY <2>2
    <3> QED BY <1>2, <2>2, <3>1
  <2> QED BY <2>1, <2>2
<1> QED BY <1>1, <1>3 DEF WholeFrames

(* Some bytes more are written. *)
LEMMA WriteJoins ==
  ASSUME NEW s \in Seq(Bytes), WholeFrames(s), NEW w, Stream(w), w # <<>>, Joins(s, w), NEW n \in 1..Len(w)
  PROVE  LET t == s \o SubSeq(w, 1, n) IN t \in Seq(Bytes) /\ WholeFrames(t) /\ Joins(t, SubSeq(w, n + 1, Len(w)))
<1> DEFINE h == SubSeq(w, 1, n)
           r == SubSeq(w, n + 1, Len(w))
           t == s \o h
<1>1. Len(s) \in Nat /\ Len(w) \in Nat /\ n \in Nat /\ n >= 1 /\ n <= Len(w) /\ w \in Seq(Bytes)
  BY DEF Stream
<1>2. h \in Seq(Bytes) /\ Len(h) = n /\ \A i \in 1..n : h[i] = w[i]
  BY StreamFront
<1>3. Stream(r) /\ Len(r) = Len(w) - n /\ \A i \in 1..(Len(w) - n) : r[i] = w[n + i]
  BY <1>1, StreamRest
<1> HIDE DEF h, r
<1>4. t \in Seq(Bytes) /\ Len(t) = Len(s) + n /\ \A i \in 1..(Len(s) + n) : t[i] = IF i <= Len(s) THEN s[i] ELSE w[i - Len(s)]
  <2>1. t \in Seq(Bytes) /\ Len(t) = Len(s) + n /\ \A i \in 1..(Len(s) + n) : t[i] = IF i <= Len(s) THEN s[i] ELSE h[i - Len(s)]
    BY <1>2, ConcatProperties
  <2> QED BY <1>1, <1>2, <2>1
<1> HIDE DEF t
<1>5. IF EndsMessage(s) THEN w[1].at = 1 ELSE w[1] = ByteOf(s[Len(s)].frame, s[Len(s)].at + 1, s[Len(s)].size)
  BY DEF Joins
<1>6. WholeFrames(t)
  <2> SUFFICES ASSUME NEW i \in 1..Len(t)
               PROVE  IF i = 1 THEN t[i].at = 1 ELSE IF BytesLeft(t[i - 1]) = 0 THEN t[i].at = 1
                      ELSE t[i] = ByteOf(t[i - 1].frame, t[i - 1].at + 1, t[i - 1].size)
    BY <1>4, WholeFramesLinked
  <2>1. CASE i <= Len(s)
    <3>1. i \in 1..Len(s) /\ t[i] = s[i] /\ (i # 1 => t[i - 1] = s[i - 1])
      BY <1>1, <1>4, <2>1
    <3> QED BY <3>1, WholeFramesLinked
  <2>2. CASE i = Len(s) + 1
    <3>1. t[i] = w[1]
      BY <1>1, <1>4, <2>2
    <3>2. CASE Len(s) = 0
      <4>1. s = <<>> /\ i = 1
        BY <2>2, <3>2, EmptySeq
      <4> QED BY <1>5, <3>1, <4>1 DEF EndsMessage
    <3>3. CASE Len(s) # 0
      <4>1. i # 1 /\ i - 1 = Len(s) /\ t[i - 1] = s[Len(s)] /\ s # <<>>
        BY <1>1, <1>4, <2>2, <3>3, EmptySeq
      <4> QED BY <1>5, <3>1, <4>1 DEF EndsMessage
    <3> QED BY <3>2, <3>3
  <2>3. CASE i > Len(s) + 1
    <3> DEFINE k == i - 1 - Len(s)
    <3>1. k \in 1..Len(w) /\ k < Len(w) /\ t[i - 1] = w[k] /\ t[i] = w[k + 1] /\ i # 1
      <4>1. i - 1 \in 1..(Len(s) + n) /\ i \in 1..(Len(s) + n) /\ i - Len(s) = k + 1 /\ i - 1 > Len(s) /\ i > Len(s)
        BY <1>1, <1>4, <2>3
      <4>2. t[i - 1] = w[i - 1 - Len(s)] /\ t[i] = w[i - Len(s)]
        BY <1>1, <1>4, <4>1
      <4>3. k \in 1..Len(w) /\ k < Len(w) /\ i # 1
        BY <1>1, <4>1
      <4> QED BY <4>1, <4>2, <4>3
    <3> HIDE DEF k
    <3> QED BY <3>1, StreamLinked
  <2> QED BY <1>1, <1>4, <2>1, <2>2, <2>3
<1>7. Joins(t, r)
  <2>1. t # <<>> /\ t[Len(t)] = w[n]
    <3>1. Len(t) # 0 /\ Len(t) \in 1..(Len(s) + n) /\ Len(t) > Len(s) /\ Len(t) - Len(s) = n
      BY <1>1, <1>4
    <3> QED BY <1>4, <3>1, EmptySeq
  <2>2. CASE n = Len(w)
    <3>1. r = <<>>
      BY <1>1, <1>3, <2>2, EmptySeq DEF Stream
    <3>2. BytesLeft(w[n]) = 0
      BY <2>2, StreamEnds
    <3> QED BY <2>1, <3>1, <3>2 DEF Joins, EndsMessage
  <2>3. CASE n < Len(w)
    <3>1. r # <<>> /\ r[1] = w[n + 1]
      BY <1>1, <1>3, <2>3, EmptySeq
    <3>2. IF BytesLeft(w[n]) = 0 THEN w[n + 1].at = 1 ELSE w[n + 1] = ByteOf(w[n].frame, w[n].at + 1, w[n].size)
      BY <2>3, StreamLinked
    <3> QED BY <2>1, <3>1, <3>2 DEF Joins, EndsMessage
  <2> QED BY <1>1, <2>2, <2>3
<1> QED BY <1>4, <1>6, <1>7 DEF t, h, r

(* What is written. *)
LEMMA WriteStep == ASSUME WriteInv, DotNext PROVE WriteInv'
<1>0. frames \in Nat /\ Stream(writing) /\ FrameSizes \subseteq Nat \ {0}
  BY FramesAssumption DEF WriteInv
<1>1. CASE DotConnect
  <2>1. encrypted' /\ sent' = <<>> /\ writing' = writing /\ frames' = frames /\ (~crossed' => writing = <<>>)
    BY <1>1 DEF DotConnect
  <2>2. <<>> \in Seq(Bytes) /\ WholeFrames(<<>>) /\ EndsMessage(<<>>)
    BY EmptySeq DEF WholeFrames, EndsMessage
  <2> QED BY <1>0, <2>1, <2>2 DEF WriteInv, Joins
<1>2. CASE DotClose
  BY <1>2 DEF DotClose, WriteInv
<1>3. CASE ReadHeader
  BY <1>3 DEF ReadHeader, WriteInv
<1>4. CASE ReadBody
  BY <1>4 DEF ReadBody, WriteInv
<1>5. ASSUME NEW sz \in FrameSizes, PeerSends(sz) PROVE WriteInv'
  <2>1. frames' = frames + 1 /\ UNCHANGED <<writing, sent, crossed, encrypted>>
    BY <1>5 DEF PeerSends
  <2> QED BY <1>0, <2>1 DEF WriteInv
<1>6. ASSUME NEW sz \in FrameSizes, WriteBegins(sz) PROVE WriteInv'
  <2>1. frames' = frames + 1 /\ writing' = Frame(frames + 1, sz) /\ UNCHANGED <<sent, crossed, encrypted>> /\ writing = <<>> /\ encrypted
    BY <1>6 DEF WriteBegins
  <2>2. Stream(writing') /\ writing' # <<>> /\ writing'[1].at = 1
    <3>1. sz \in Nat \ {0}
      BY <1>6, FramesAssumption
    <3>2. frames + 1 \in Nat
      BY <1>0
    <3> QED BY <2>1, <3>1, <3>2, FrameIsStream
  <2>3. ~crossed => Joins(sent, writing')
    BY <2>1, <2>2 DEF WriteInv, Joins
  <2> QED BY <1>0, <2>1, <2>2, <2>3 DEF WriteInv
<1>7. CASE WriteSome
  <2>1. frames' = frames /\ UNCHANGED <<crossed, encrypted>> /\ writing # <<>>
    BY <1>7 DEF WriteSome
  <2>2. CASE ~encrypted
    <3>1. writing' = <<>> /\ sent' = sent
      BY <1>7, <2>2 DEF WriteSome
    <3> QED BY <1>0, <2>1, <2>2, <3>1, EmptyStream DEF WriteInv
  <2>3. CASE encrypted
    <3>1. PICK n \in 1..Len(writing) : sent' = sent \o SubSeq(writing, 1, n) /\ writing' = SubSeq(writing, n + 1, Len(writing))
      BY <1>7, <2>3 DEF WriteSome
    <3>2. n \in 0..Len(writing)
      BY <1>0 DEF Stream
    <3>3. Stream(writing')
      BY <1>0, <3>1, <3>2, StreamRest
    <3>4. ASSUME ~crossed PROVE sent' \in Seq(Bytes) /\ WholeFrames(sent') /\ Joins(sent', writing')
      BY <1>0, <2>1, <2>3, <3>1, <3>4, WriteJoins DEF WriteInv
    <3> QED BY <1>0, <2>1, <3>3, <3>4 DEF WriteInv
  <2> QED BY <2>2, <2>3
<1> QED BY <1>1, <1>2, <1>3, <1>4, <1>5, <1>6, <1>7 DEF DotNext

(* The rest of a message is on the front of the stream, and another message begins behind it. *)
LEMMA RestOfMessage ==
  ASSUME NEW s, Stream(s), s # <<>>, NEW f \in Nat, NEW z \in Nat \ {0}, NEW o \in Nat, o < HeaderSize + z, s[1] = ByteOf(f, o + 1, z)
  PROVE  /\ Len(s) \in Nat /\ HeaderSize + z - o <= Len(s)
         /\ \A j \in 1..(HeaderSize + z - o) : s[j] = ByteOf(f, o + j, z)
         /\ HeaderSize + z - o < Len(s) => s[HeaderSize + z - o + 1].at = 1
<1> DEFINE n == HeaderSize + z - o
<1>1. Len(s) \in Nat /\ Len(s) >= 1 /\ 1 \in 1..Len(s) /\ n \in Nat /\ n >= 1
  BY StreamEnds DEF HeaderSize
<1>2. s[1].frame = f /\ s[1].at = o + 1 /\ s[1].size = z /\ BytesLeft(s[1]) = n - 1
  BY ByteOfFields DEF BytesLeft, HeaderSize
<1>3. \A j \in 1..(n - 1) : 1 + j <= Len(s) /\ s[1 + j] = ByteOf(f, (o + 1) + j, z)
  BY <1>1, <1>2 DEF Stream
<1> HIDE DEF n
<1>4. n <= Len(s)
  <2>1. CASE n = 1
    BY <1>1, <2>1
  <2>2. CASE n # 1
    <3>1. n - 1 \in 1..(n - 1)
      BY <1>1, <2>2
    <3> QED BY <1>1, <1>3, <3>1
  <2> QED BY <2>1, <2>2
<1>5. ASSUME NEW j \in 1..n PROVE s[j] = ByteOf(f, o + j, z)
  <2>1. CASE j = 1
    BY <2>1
  <2>2. CASE j # 1
    <3>1. j - 1 \in 1..(n - 1) /\ 1 + (j - 1) = j /\ (o + 1) + (j - 1) = o + j
      BY <1>1, <2>2
    <3> QED BY <1>3, <3>1
  <2> QED BY <2>1, <2>2
<1>6. ASSUME n < Len(s) PROVE s[n + 1].at = 1
  <2>1. n \in 1..n /\ n \in 1..Len(s)
    BY <1>1, <1>4
  <2>2. s[n] = ByteOf(f, o + n, z)
    BY <1>5, <2>1
  <2>3. BytesLeft(s[n]) = 0
    BY <2>2, ByteOfFields DEF BytesLeft, HeaderSize, n
  <2> QED BY <1>6, <2>1, <2>3 DEF Stream
<1> QED BY <1>1, <1>4, <1>5, <1>6 DEF n

(* A message is read to its end: what is delivered is its payload. *)
LEMMA PayloadRead ==
  ASSUME NEW d \in Seq(Bytes), NEW f \in 1..frames, frames \in Nat, NEW z \in Nat \ {0}, Len(d) = z,
         \A i \in 1..z : d[i] = ByteOf(f, HeaderSize + i, z)
  PROVE  IsPayload(d)
<1>1. f \in Nat /\ z \in Nat /\ z >= 1 /\ HeaderSize = 2
  BY DEF HeaderSize
<1>2. d # <<>> /\ d[1].size = z
  BY <1>1, EmptySeq, ByteOfFields
<1> DEFINE p == SubSeq(Frame(f, z), HeaderSize + 1, HeaderSize + z)
<1>3. \A i \in (HeaderSize + 1)..(HeaderSize + z) : Frame(f, z)[i] = ByteOf(f, i, z) /\ Frame(f, z)[i] \in Bytes
  <2>1. \A i \in 1..(HeaderSize + z) : Frame(f, z)[i] = ByteOf(f, i, z)
    BY <1>1, FrameIsStream
  <2> QED BY <1>1, <2>1 DEF ByteOf, Bytes
<1>4. p \in Seq(Bytes) /\ Len(p) = z /\ \A i \in 1..z : p[i] = Frame(f, z)[HeaderSize + i]
  <2>1. HeaderSize + 1 \in Int /\ HeaderSize + z \in Int /\ HeaderSize + 1 <= HeaderSize + z /\ (HeaderSize + z) - (HeaderSize + 1) + 1 = z
    BY <1>1
  <2>2. p \in Seq(Bytes) /\ Len(p) = z /\ \A i \in 1..z : p[i] = Frame(f, z)[HeaderSize + 1 + i - 1]
    BY <1>3, <2>1, SubSeqProperties
  <2>3. \A i \in 1..z : HeaderSize + 1 + i - 1 = HeaderSize + i
    BY <1>1
  <2> QED BY <2>2, <2>3
<1> HIDE DEF p
<1>5. \A i \in 1..z : p[i] = d[i]
  <2>1. \A i \in 1..z : HeaderSize + i \in (HeaderSize + 1)..(HeaderSize + z)
    BY <1>1
  <2> QED BY <1>3, <1>4, <2>1
<1>6. d = p
  BY <1>4, <1>5, SeqEqual
<1> QED BY <1>2, <1>6 DEF IsPayload, p

(* More messages sent: what was delivered stays a payload. *)
LEMMA PayloadStays == ASSUME frames \in Nat, frames' \in Nat, frames' >= frames PROVE \A d : IsPayload(d) => IsPayload(d)'
<1> SUFFICES ASSUME NEW d, IsPayload(d) PROVE IsPayload(d)'
  OBVIOUS
<1>1. PICK f \in 1..frames : d = SubSeq(Frame(f, d[1].size), HeaderSize + 1, HeaderSize + d[1].size)
  BY DEF IsPayload
<1>2. f \in 1..frames'
  OBVIOUS
<1> QED BY <1>1, <1>2 DEF IsPayload

(* How much a read may take. *)
LEMMA ReadsBounded ==
  ASSUME NEW wanted \in Nat \ {0}, peerSent \in Seq(Bytes), peerSent # <<>>, NEW n \in Reads(wanted)
  PROVE  n \in 1..wanted /\ n \in 1..Len(peerSent) /\ Len(peerSent) \in Nat
<1>1. Len(peerSent) \in Nat /\ Len(peerSent) >= 1
  BY EmptySeq
<1> QED BY <1>1 DEF Reads

(* Some bytes of a message are taken off the front of the stream. *)
Taken(s, n, f, o, z) ==
    LET first == SubSeq(s, 1, n)
        left == SubSeq(s, n + 1, Len(s))
    IN  /\ Run(first, f, o, z) /\ Len(first) = n
        /\ Stream(left) /\ \A i \in 1..Len(left) : \E k \in 1..Len(s) : left[i] = s[k]
        /\ o + n < HeaderSize + z => left # <<>> /\ left[1] = ByteOf(f, o + n + 1, z)
        /\ o + n = HeaderSize + z => (left # <<>> => left[1].at = 1)

LEMMA TakesBytes ==
  ASSUME NEW s, Stream(s), s # <<>>, NEW f \in Nat, NEW z \in Nat \ {0}, NEW o \in Nat, o < HeaderSize + z, s[1] = ByteOf(f, o + 1, z),
         NEW n \in 1..(HeaderSize + z - o)
  PROVE  Taken(s, n, f, o, z)
<1> DEFINE h == SubSeq(s, 1, n)
           r == SubSeq(s, n + 1, Len(s))
<1>0. /\ Len(s) \in Nat /\ HeaderSize + z - o <= Len(s) /\ \A j \in 1..(HeaderSize + z - o) : s[j] = ByteOf(f, o + j, z)
      /\ HeaderSize + z - o < Len(s) => s[HeaderSize + z - o + 1].at = 1
  BY RestOfMessage
<1>1. n \in Nat /\ n >= 1 /\ z \in Nat /\ HeaderSize = 2 /\ o + n <= HeaderSize + z
  BY DEF HeaderSize
<1>2. n \in 1..Len(s) /\ n \in 0..Len(s)
  BY <1>0, <1>1
<1>3. h \in Seq(Bytes) /\ Len(h) = n /\ \A i \in 1..n : h[i] = s[i]
  BY <1>2, StreamFront
<1>4. Stream(r) /\ Len(r) = Len(s) - n /\ \A i \in 1..(Len(s) - n) : r[i] = s[n + i]
  BY <1>2, StreamRest
<1> HIDE DEF h, r
<1>5. Run(h, f, o, z)
  BY <1>0, <1>1, <1>3 DEF Run
<1>6. ASSUME NEW i \in 1..Len(r) PROVE \E k \in 1..Len(s) : r[i] = s[k]
  <2>1. n + i \in 1..Len(s) /\ r[i] = s[n + i]
    BY <1>0, <1>1, <1>2, <1>4
  <2> QED BY <2>1
<1>7. ASSUME o + n < HeaderSize + z PROVE r # <<>> /\ r[1] = ByteOf(f, o + n + 1, z)
  <2>1. n + 1 \in 1..(HeaderSize + z - o) /\ 1 \in 1..(Len(s) - n) /\ o + (n + 1) = o + n + 1
    BY <1>0, <1>1, <1>7
  <2>2. r[1] = s[n + 1] /\ Len(r) # 0
    BY <1>0, <1>1, <1>4, <2>1
  <2> QED BY <1>0, <2>1, <2>2, EmptySeq
<1>8. ASSUME o + n = HeaderSize + z, r # <<>> PROVE r[1].at = 1
  <2>1. Len(r) \in Nat /\ Len(r) >= 1
    BY <1>4, <1>8, StreamEnds
  <2>2. n < Len(s) /\ n = HeaderSize + z - o /\ 1 \in 1..(Len(s) - n)
    BY <1>0, <1>1, <1>4, <1>8, <2>1
  <2> QED BY <1>0, <1>4, <2>2
<1> QED BY <1>3, <1>4, <1>5, <1>6, <1>7, <1>8 DEF h, r, Taken

(* They go behind the bytes of the message that were read before. *)
LEMMA DataGrows ==
  ASSUME NEW d, NEW h, NEW f, NEW z, NEW a \in Nat, NEW b, Run(d, f, a, z), Run(h, f, b, z), b = a + Len(d)
  PROVE  Run(d \o h, f, a, z) /\ Len(d \o h) = Len(d) + Len(h)
<1>0. /\ d \in Seq(Bytes) /\ h \in Seq(Bytes) /\ \A i \in 1..Len(d) : d[i] = ByteOf(f, a + i, z)
      /\ \A i \in 1..Len(h) : h[i] = ByteOf(f, a + Len(d) + i, z)
  BY DEF Run
<1>1. Len(d) \in Nat /\ Len(h) \in Nat
  BY <1>0
<1>2. /\ d \o h \in Seq(Bytes) /\ Len(d \o h) = Len(d) + Len(h)
      /\ \A i \in 1..(Len(d) + Len(h)) : (d \o h)[i] = IF i <= Len(d) THEN d[i] ELSE h[i - Len(d)]
  BY <1>0, ConcatProperties
<1>3. ASSUME NEW i \in 1..(Len(d) + Len(h)) PROVE (d \o h)[i] = ByteOf(f, a + i, z)
  <2>1. CASE i <= Len(d)
    BY <1>0, <1>1, <1>2, <2>1
  <2>2. CASE i > Len(d)
    <3>1. i - Len(d) \in 1..Len(h) /\ a + Len(d) + (i - Len(d)) = a + i /\ ~(i <= Len(d))
      BY <1>1, <2>2
    <3> QED BY <1>0, <1>2, <3>1
  <2> QED BY <1>1, <2>1, <2>2
<1> QED BY <1>1, <1>2, <1>3 DEF Run

(* What ReadInv says while no message was too long. *)
ReadOk ==
    /\ Stream(peerSent) /\ \A i \in 1..Len(peerSent) : peerSent[i].frame \in 1..frames
    /\ delivered \in Seq(Seq(Bytes)) /\ \A k \in 1..Len(delivered) : IsPayload(delivered[k])

(* The header, or its first byte, is read. *)
LEMMA ReadHeaderStep == ASSUME ReadInv, ReadHeader, ~outStep' PROVE ReadInv'
<1>0. /\ ~outStep /\ encrypted /\ place.offset < HeaderSize /\ UNCHANGED <<delivered, encrypted, frames>> /\ frames \in Nat /\ ReadPlace
      /\ ReadOk /\ Stream(peerSent) /\ peerSent \in Seq(Bytes)
  BY DEF ReadInv, ReadOk, ReadHeader, Stream
<1>1. PICK n \in Reads(HeaderSize - place.offset) :
        /\ n > 0 /\ peerSent' = SubSeq(peerSent, n + 1, Len(peerSent))
        /\ IF place.offset + n < HeaderSize
           THEN place' = [offset |-> place.offset + n, size |-> 0, data |-> place.data \o SubSeq(peerSent, 1, n)]
           ELSE \E sz \in Lengths(place.data \o SubSeq(peerSent, 1, n)) :
                    IF sz > MaxMsgSize THEN outStep' ELSE place' = [offset |-> place.offset + n, size |-> sz, data |-> <<>>]
  BY DEF ReadHeader
<1>2. peerSent # <<>>
  BY <1>1 DEF Reads
<1>3. PICK f \in 1..frames, z \in Nat \ {0}, o \in {0, 1} :
        /\ place.offset = o /\ peerSent[1] = ByteOf(f, o + 1, z) /\ place.data = IF o = 0 THEN <<>> ELSE <<ByteOf(f, 1, z)>>
  <2>1. CASE Between
    <3>1. peerSent[1] \in Bytes /\ peerSent[1].frame \in 1..frames /\ peerSent[1].at = 1 /\ place = NoPlace
      BY <1>0, <1>2, <2>1, StreamEnds DEF Between, ReadOk
    <3>2. peerSent[1] = ByteOf(peerSent[1].frame, 1, peerSent[1].size) /\ peerSent[1].size \in Nat \ {0}
      BY <3>1, ByteFields
    <3>3. place.offset = 0 /\ place.data = <<>>
      BY <3>1 DEF NoPlace
    <3> QED BY <3>1, <3>2, <3>3
  <2>2. CASE place.offset # 0 /\ \E f \in 1..frames, z \in Nat \ {0} : Inside(f, z)
    <3>1. PICK f \in 1..frames, z \in Nat \ {0} : Inside(f, z)
      BY <2>2
    <3>2. PICK o \in Nat : o = place.offset
      BY <3>1 DEF Inside
    <3>3. o = 1
      BY <1>0, <2>2, <3>2 DEF HeaderSize
    <3>4. peerSent[1] = ByteOf(f, o + 1, z) /\ place.data = <<ByteOf(f, 1, z)>>
      BY <3>1, <3>2, <3>3 DEF Inside
    <3> QED BY <3>2, <3>3, <3>4
  <2> QED BY <1>0, <2>1, <2>2 DEF ReadPlace
<1>4. f \in Nat /\ o \in Nat /\ o < HeaderSize + z /\ z \in Nat /\ z >= 1 /\ HeaderSize = 2 /\ HeaderSize - o \in Nat \ {0}
  BY <1>0, <1>3 DEF HeaderSize
<1>5. n \in 1..(HeaderSize - o) /\ n \in Nat
  BY <1>0, <1>1, <1>2, <1>3, <1>4, ReadsBounded
<1>6. n \in 1..(HeaderSize + z - o)
  BY <1>4, <1>5
<1>7. PICK h : h = SubSeq(peerSent, 1, n)
  OBVIOUS
<1>7a. peerSent' = SubSeq(peerSent, n + 1, Len(peerSent))
  BY <1>1
<1>8. /\ Run(h, f, o, z) /\ Len(h) = n
      /\ Stream(peerSent') /\ \A i \in 1..Len(peerSent') : \E k \in 1..Len(peerSent) : peerSent'[i] = peerSent[k]
      /\ o + n < HeaderSize + z => peerSent' # <<>> /\ peerSent'[1] = ByteOf(f, o + n + 1, z)
  <2>1. /\ peerSent[1] = ByteOf(f, o + 1, z) /\ Stream(peerSent) /\ peerSent # <<>> /\ o < HeaderSize + z /\ o \in Nat
        /\ f \in Nat /\ z \in Nat \ {0} /\ n \in 1..(HeaderSize + z - o)
    BY <1>0, <1>2, <1>3, <1>4, <1>6
  <2>2. Taken(peerSent, n, f, o, z)
    BY <2>1, TakesBytes
  <2> QED BY <1>7, <1>7a, <2>2 DEF Taken
<1>9. PICK c : c = place.data
  OBVIOUS
<1>10. Run(c, f, 0, z) /\ Len(c) = o
  <2>1. CASE o = 0
    BY <1>3, <1>9, <2>1, EmptySeq DEF Run
  <2>2. CASE o = 1
    <3>1. c = <<ByteOf(f, 1, z)>> /\ ByteOf(f, 1, z) \in Bytes
      BY <1>3, <1>4, <1>9, <2>2 DEF ByteOf, Bytes
    <3>2. c \in Seq(Bytes) /\ Len(c) = 1 /\ c[1] = ByteOf(f, 0 + 1, z)
      BY <3>1
    <3> QED BY <2>2, <3>2 DEF Run
  <2> QED BY <1>3, <2>1, <2>2
<1>11. PICK d : d = c \o h
  OBVIOUS
<1>12. d \in Seq(Bytes) /\ Len(d) = o + n /\ \A i \in 1..(o + n) : d[i] = ByteOf(f, i, z)
  <2>1. 0 \in Nat /\ o = 0 + Len(c)
    BY <1>4, <1>10
  <2>2. Run(d, f, 0, z) /\ Len(d) = Len(c) + Len(h)
    BY <1>8, <1>10, <1>11, <2>1, DataGrows
  <2> QED BY <1>4, <1>5, <1>8, <1>10, <2>2 DEF Run
<1>13. o + n \in {1, 2} /\ o + n < HeaderSize + z
  BY <1>3, <1>4, <1>5
<1>14. place'.offset # 0 /\ Inside(f, z)'
  <2>1. CASE o + n = 1
    <3>1. place' = [offset |-> o + n, size |-> 0, data |-> d]
      <4>1. c \o h = d /\ 1 < HeaderSize /\ place.offset + n = o + n /\ place.data = c /\ SubSeq(peerSent, 1, n) = h
        BY <1>3, <1>4, <1>7, <1>9, <1>11
      <4> QED BY <1>1, <2>1, <4>1
    <3>2. place'.offset = 1 /\ place'.data = d
      BY <2>1, <3>1
    <3>3. d = <<ByteOf(f, 1, z)>>
      <4>1. Len(d) = 1 /\ d[1] = ByteOf(f, 1, z)
        BY <1>12, <2>1
      <4>2. \A i \in 1..Len(d) : d[i] = <<ByteOf(f, 1, z)>>[i]
        BY <4>1
      <4>3. <<ByteOf(f, 1, z)>> \in Seq(Bytes) /\ Len(<<ByteOf(f, 1, z)>>) = 1
        <5>1. ByteOf(f, 1, z) \in Bytes
          BY <1>4 DEF ByteOf, Bytes
        <5> QED BY <5>1
      <4> QED BY <1>12, <4>1, <4>2, <4>3, SeqEqual
    <3>4. peerSent'[1] = ByteOf(f, 1 + 1, z) /\ peerSent' # <<>> /\ 1 < HeaderSize + z
      BY <1>8, <1>13, <2>1
    <3> QED BY <3>2, <3>3, <3>4 DEF Inside
  <2>2. CASE o + n = 2
    <3>1. d[1] = ByteOf(f, 1, z) /\ d[2] = ByteOf(f, 2, z)
      BY <1>12, <2>2
    <3>2. Lengths(d) = {z}
      <4>1. d[1].at = 1 /\ d[2].at = 2 /\ d[1].frame = d[2].frame /\ d[1].size = z
        BY <3>1, ByteOfFields
      <4> QED BY <4>1 DEF Lengths
    <3>3. PICK sz \in Lengths(d) : IF sz > MaxMsgSize THEN outStep' ELSE place' = [offset |-> o + n, size |-> sz, data |-> <<>>]
      <4>1. c \o h = d /\ ~(2 < HeaderSize) /\ place.offset + n = o + n /\ place.data = c /\ SubSeq(peerSent, 1, n) = h
        BY <1>3, <1>4, <1>7, <1>9, <1>11
      <4> QED BY <1>1, <2>2, <4>1
    <3>4. place' = [offset |-> 2, size |-> z, data |-> <<>>]
      BY <2>2, <3>2, <3>3
    <3>5. place'.offset = 2 /\ place'.size = z /\ place'.data = <<>>
      BY <3>4
    <3>6. <<>> \in Seq(Bytes) /\ Len(<<>>) = 0 /\ 2 - HeaderSize = 0
      BY <1>4, EmptySeq
    <3>7. peerSent'[1] = ByteOf(f, 2 + 1, z) /\ peerSent' # <<>> /\ 2 < HeaderSize + z
      BY <1>8, <1>13, <2>2
    <3>8. Run(<<>>, f, HeaderSize, z)
      BY <3>6 DEF Run
    <3> QED BY <3>5, <3>6, <3>7, <3>8 DEF Inside
  <2> QED BY <1>13, <2>1, <2>2
<1>15. ReadPlace'
  BY <1>0, <1>14 DEF ReadPlace
<1>16. \A i \in 1..Len(peerSent') : peerSent'[i].frame \in 1..frames'
  BY <1>0, <1>8 DEF ReadOk
<1>17. delivered' \in Seq(Seq(Bytes)) /\ \A k \in 1..Len(delivered') : IsPayload(delivered[k])'
  BY <1>0 DEF ReadOk, IsPayload
<1> QED BY <1>0, <1>8, <1>15, <1>16, <1>17 DEF ReadInv

(* Some of the payload is read, or the last of it. *)
LEMMA ReadBodyStep == ASSUME ReadInv, ReadBody, ~outStep' PROVE ReadInv'
<1>0. /\ ~outStep /\ encrypted /\ place.offset >= HeaderSize /\ UNCHANGED <<encrypted, frames>> /\ frames \in Nat /\ ReadPlace
      /\ ReadOk /\ Stream(peerSent) /\ peerSent \in Seq(Bytes)
  BY DEF ReadInv, ReadOk, ReadBody, Stream
<1>1. PICK f \in 1..frames, z \in Nat \ {0} : Inside(f, z)
  BY <1>0 DEF ReadPlace, Between, NoPlace, HeaderSize
<1>2. PICK o \in Nat, c \in {place.data} :
        /\ o = place.offset /\ c = place.data /\ o >= HeaderSize /\ o < HeaderSize + z /\ peerSent # <<>> /\ peerSent[1] = ByteOf(f, o + 1, z) /\ place.size = z
        /\ Len(c) = o - HeaderSize /\ Run(c, f, HeaderSize, z)
  <2>1. PICK o \in Nat : o = place.offset
    BY <1>1 DEF Inside
  <2>2. o >= HeaderSize /\ o # 1
    BY <1>0, <2>1 DEF HeaderSize
  <2> QED BY <1>1, <2>1, <2>2 DEF Inside
<1>3. f \in Nat /\ z \in Nat /\ z >= 1 /\ HeaderSize = 2 /\ o \in Nat
  BY <1>0, <1>1, <1>2 DEF HeaderSize
<1>4. PICK n \in Reads(z - (o - HeaderSize)) :
        /\ peerSent' = SubSeq(peerSent, n + 1, Len(peerSent))
        /\ IF o + n < z + HeaderSize
           THEN place' = [place EXCEPT !.offset = o + n, !.data = c \o SubSeq(peerSent, 1, n)] /\ UNCHANGED delivered
           ELSE place' = NoPlace /\ delivered' = Append(delivered, c \o SubSeq(peerSent, 1, n))
  BY <1>2, <1>3 DEF ReadBody
<1>5. z - (o - HeaderSize) \in Nat \ {0} /\ z - (o - HeaderSize) = HeaderSize + z - o
  BY <1>2, <1>3
<1>6. n \in 1..(HeaderSize + z - o) /\ n \in Nat
  BY <1>0, <1>2, <1>4, <1>5, ReadsBounded
<1>7. PICK h : h = SubSeq(peerSent, 1, n)
  OBVIOUS
<1>7a. peerSent' = SubSeq(peerSent, n + 1, Len(peerSent))
  BY <1>4
<1>8. /\ Run(h, f, o, z) /\ Len(h) = n
      /\ Stream(peerSent') /\ \A i \in 1..Len(peerSent') : \E k \in 1..Len(peerSent) : peerSent'[i] = peerSent[k]
      /\ o + n < HeaderSize + z => peerSent' # <<>> /\ peerSent'[1] = ByteOf(f, o + n + 1, z)
      /\ o + n = HeaderSize + z => (peerSent' # <<>> => peerSent'[1].at = 1)
  <2>1. /\ peerSent[1] = ByteOf(f, o + 1, z) /\ Stream(peerSent) /\ peerSent # <<>> /\ o < HeaderSize + z /\ o \in Nat
        /\ f \in Nat /\ z \in Nat \ {0} /\ n \in 1..(HeaderSize + z - o)
    BY <1>0, <1>1, <1>2, <1>3, <1>6
  <2>2. Taken(peerSent, n, f, o, z)
    BY <2>1, TakesBytes
  <2> QED BY <1>7, <1>7a, <2>2 DEF Taken
<1>9. PICK d : d = c \o h
  OBVIOUS
<1>10. Run(d, f, HeaderSize, z) /\ Len(d) = o + n - HeaderSize
  <2>1. HeaderSize \in Nat /\ o = HeaderSize + Len(c) /\ Run(c, f, HeaderSize, z) /\ Len(c) = o - HeaderSize
    BY <1>2, <1>3
  <2>2. Run(d, f, HeaderSize, z) /\ Len(d) = Len(c) + Len(h)
    BY <1>8, <1>9, <2>1, DataGrows
  <2> QED BY <1>3, <1>6, <1>8, <2>1, <2>2
<1>11. \A i \in 1..Len(peerSent') : peerSent'[i].frame \in 1..frames'
  BY <1>0, <1>8 DEF ReadOk
<1>12. CASE o + n < z + HeaderSize
  <2>1. place' = [place EXCEPT !.offset = o + n, !.data = d] /\ delivered' = delivered
    BY <1>4, <1>7, <1>9, <1>12
  <2>2. place'.offset = o + n /\ place'.size = z /\ place'.data = d
    BY <1>0, <1>1, <1>2, <2>1 DEF ReadInv
  <2>3. o + n \in Nat /\ o + n # 0 /\ o + n # 1 /\ o + n < HeaderSize + z
    <3>1. HeaderSize = 2 /\ z \in Nat /\ o \in Nat
      BY <1>3
    <3>2. o >= 2
      BY <1>2, <3>1
    <3>3. n \in Nat /\ n >= 1
      BY <1>6, <3>1
    <3> QED BY <1>12, <3>1, <3>2, <3>3
  <2>4. Inside(f, z)'
    <3>1. peerSent' # <<>> /\ peerSent'[1] = ByteOf(f, (o + n) + 1, z)
      BY <1>8, <2>3
    <3>2. PICK k \in Nat : k = o + n
      BY <2>3
    <3>3. place'.offset = k /\ k < HeaderSize + z /\ k # 1 /\ peerSent'[1] = ByteOf(f, k + 1, z) /\ Len(d) = k - HeaderSize
      BY <1>3, <1>6, <1>10, <2>2, <2>3, <3>1, <3>2
    <3> QED BY <1>10, <2>2, <3>1, <3>3 DEF Inside, Run
  <2>5. ReadPlace'
    BY <1>0, <2>2, <2>3, <2>4 DEF ReadPlace
  <2>6. delivered' \in Seq(Seq(Bytes)) /\ \A k \in 1..Len(delivered') : IsPayload(delivered[k])'
    BY <1>0, <2>1 DEF ReadOk, IsPayload
  <2> QED BY <1>0, <1>8, <1>11, <2>5, <2>6 DEF ReadInv
<1>13. CASE ~(o + n < z + HeaderSize)
  <2>1. place' = NoPlace /\ delivered' = Append(delivered, d)
    BY <1>4, <1>7, <1>9, <1>13
  <2>2. o + n = HeaderSize + z /\ Len(d) = z /\ d \in Seq(Bytes)
    <3>1. o + n = HeaderSize + z
      BY <1>3, <1>6, <1>13
    <3> QED BY <1>3, <1>6, <1>10, <3>1 DEF Run
  <2>3. IsPayload(d)
    BY <1>0, <1>10, <2>2, PayloadRead DEF Run
  <2>4. delivered' \in Seq(Seq(Bytes)) /\ \A k \in 1..Len(delivered') : IsPayload(delivered'[k])
    <3>1. delivered \in Seq(Seq(Bytes)) /\ Len(delivered) \in Nat /\ \A k \in 1..Len(delivered) : IsPayload(delivered[k])
      BY <1>0 DEF ReadOk
    <3>2. delivered' \in Seq(Seq(Bytes)) /\ Len(delivered') = Len(delivered) + 1
      BY <2>1, <2>2, <3>1, AppendProperties
    <3>3. delivered'[Len(delivered) + 1] = d /\ \A k \in 1..Len(delivered) : delivered'[k] = delivered[k]
      BY <2>1, <2>2, <3>1, AppendProperties
    <3>4. ASSUME NEW k \in 1..Len(delivered') PROVE IsPayload(delivered'[k])
      <4>1. k \in 1..Len(delivered) \/ k = Len(delivered) + 1
        BY <3>1, <3>2
      <4> QED BY <2>3, <3>1, <3>3, <4>1
    <3> QED BY <3>2, <3>4
  <2>5. \A k \in 1..Len(delivered') : IsPayload(delivered[k])'
    BY <1>0, <2>4 DEF IsPayload
  <2>6. ReadPlace'
    BY <1>8, <2>1, <2>2 DEF ReadPlace, Between, NoPlace
  <2> QED BY <1>0, <1>8, <1>11, <2>4, <2>5, <2>6 DEF ReadInv
<1> QED BY <1>12, <1>13

(* Another message from the peer goes behind what it sent. *)
LEMMA PeerSendsStep == ASSUME ReadInv, NEW sz \in FrameSizes, PeerSends(sz), ~outStep' PROVE ReadInv'
<1> DEFINE s == peerSent
           g == Frame(frames + 1, sz)
           r == s \o g
<1>0. /\ ~outStep /\ encrypted /\ frames' = frames + 1 /\ peerSent' = r /\ UNCHANGED <<place, delivered, encrypted>> /\ frames \in Nat /\ ReadPlace
      /\ ReadOk /\ Stream(s) /\ s \in Seq(Bytes) /\ Len(s) \in Nat
  <2>1. /\ encrypted /\ frames' = frames + 1 /\ peerSent' = r /\ UNCHANGED <<place, delivered, outStep, encrypted>>
    BY DEF PeerSends
  <2>2. ~outStep
    BY <2>1
  <2>3. frames \in Nat /\ ReadPlace /\ ReadOk
    BY <2>1, <2>2 DEF ReadInv, ReadOk
  <2>4. Stream(s)
    BY <2>3 DEF ReadOk
  <2>5. s \in Seq(Bytes) /\ Len(s) \in Nat
    BY <2>4 DEF Stream
  <2> QED BY <2>1, <2>2, <2>3, <2>4, <2>5
<1>1. sz \in Nat \ {0}
  BY FramesAssumption
<1>2. frames + 1 \in Nat /\ \A f \in 1..frames : f \in 1..(frames + 1)
  BY <1>0
<1>3. /\ Len(g) = HeaderSize + sz /\ g[1].at = 1 /\ \A i \in 1..(HeaderSize + sz) : g[i] = ByteOf(frames + 1, i, sz)
  BY <1>1, <1>2, FrameIsStream
<1>4. Stream(r) /\ r # <<>> /\ Len(r) = Len(s) + Len(g) /\ \A i \in 1..Len(r) : r[i] = IF i <= Len(s) THEN s[i] ELSE g[i - Len(s)]
  BY <1>0, <1>1, <1>2, StreamGrows
<1> HIDE DEF g, r
<1>5. HeaderSize + sz \in Nat /\ HeaderSize + sz >= 1
  BY <1>1 DEF HeaderSize
<1>6. \A i \in 1..Len(r) : r[i].frame \in 1..(frames + 1)
  <2> SUFFICES ASSUME NEW i \in 1..Len(r) PROVE r[i].frame \in 1..(frames + 1)
    OBVIOUS
  <2>1. CASE i <= Len(s)
    BY <1>0, <1>2, <1>4, <2>1 DEF ReadOk
  <2>2. CASE i > Len(s)
    <3>1. i - Len(s) \in 1..(HeaderSize + sz) /\ r[i] = g[i - Len(s)]
      BY <1>0, <1>3, <1>4, <1>5, <2>2
    <3>2. r[i].frame = frames + 1
      BY <1>3, <3>1, ByteOfFields
    <3> QED BY <1>0, <3>2
  <2> QED BY <1>0, <2>1, <2>2
<1>7. /\ s # <<>> => r[1] = s[1]
      /\ s = <<>> => r[1].at = 1
  <2>1. 1 \in 1..Len(r)
    BY <1>0, <1>3, <1>4, <1>5
  <2>2. CASE s # <<>>
    <3>1. Len(s) >= 1
      BY <1>0, <2>2, StreamEnds
    <3> QED BY <1>4, <2>1, <2>2, <3>1
  <2>3. CASE s = <<>>
    <3>1. Len(s) = 0
      BY <2>3, EmptySeq
    <3>2. r[1] = g[1]
      BY <1>4, <2>1, <3>1
    <3> QED BY <1>3, <2>3, <3>2
  <2> QED BY <2>2, <2>3
<1>8. ReadPlace'
  <2>1. CASE Between
    BY <1>0, <1>7, <2>1 DEF Between, ReadPlace
  <2>2. CASE place.offset # 0 /\ \E f \in 1..frames, z \in Nat \ {0} : Inside(f, z)
    <3>1. PICK f \in 1..frames, z \in Nat \ {0} : Inside(f, z)
      BY <2>2
    <3>2. Inside(f, z)'
      BY <1>0, <1>4, <1>7, <3>1 DEF Inside, Run
    <3>3. f \in 1..frames' /\ place'.offset # 0
      BY <1>0, <1>2, <2>2
    <3> QED BY <3>2, <3>3 DEF ReadPlace
  <2> QED BY <1>0, <2>1, <2>2 DEF ReadPlace
<1>9. \A k \in 1..Len(delivered') : IsPayload(delivered[k])'
  <2>1. frames' \in Nat /\ frames' >= frames
    BY <1>0
  <2>2. \A k \in 1..Len(delivered) : IsPayload(delivered[k])
    BY <1>0 DEF ReadOk
  <2>3. ASSUME NEW k \in 1..Len(delivered) PROVE IsPayload(delivered[k])'
    <3>1. PICK d : d = delivered[k]
      OBVIOUS
    <3>2. IsPayload(d)'
      BY <1>0, <2>1, <2>2, <3>1, PayloadStays
    <3> QED BY <1>0, <3>1, <3>2 DEF IsPayload
  <2> QED BY <1>0, <2>3
<1> QED BY <1>0, <1>2, <1>4, <1>6, <1>8, <1>9 DEF ReadInv, ReadOk

(* What is read. *)
LEMMA ReadStep == ASSUME ReadInv, DotNext PROVE ReadInv'
<1>0. frames \in Nat
  BY DEF ReadInv
<1>1. CASE DotConnect
  <2>1. encrypted' /\ peerSent' = <<>> /\ delivered' = <<>> /\ place' = place /\ place = NoPlace /\ frames' = frames
    BY <1>1 DEF DotConnect, ReadInv
  <2>2. <<>> \in Seq(Seq(Bytes)) /\ Len(<<>>) = 0
    BY EmptySeq
  <2>3. ReadPlace'
    BY <2>1 DEF ReadPlace, Between, NoPlace
  <2> QED BY <1>0, <2>1, <2>2, <2>3, EmptyStream DEF ReadInv
<1>2. CASE DotClose
  <2>1. place' = NoPlace /\ peerSent' = <<>> /\ UNCHANGED <<delivered, outStep, frames>>
    BY <1>2 DEF DotClose
  <2>2. ReadPlace' /\ Len(<<>>) = 0
    BY <2>1, EmptySeq DEF ReadPlace, Between, NoPlace
  <2>3. \A k \in 1..Len(delivered) : IsPayload(delivered[k]) => IsPayload(delivered[k])'
    BY <2>1 DEF IsPayload
  <2> QED BY <1>0, <2>1, <2>2, <2>3, EmptyStream DEF ReadInv
<1>3. CASE ReadHeader
  <2>1. encrypted' /\ frames' = frames
    BY <1>3 DEF ReadHeader
  <2>2. CASE outStep'
    BY <1>0, <2>1, <2>2 DEF ReadInv
  <2> QED BY <1>3, <2>2, ReadHeaderStep
<1>4. CASE ReadBody
  <2>1. encrypted' /\ frames' = frames
    BY <1>4 DEF ReadBody
  <2>2. CASE outStep'
    BY <1>0, <2>1, <2>2 DEF ReadInv
  <2> QED BY <1>4, <2>2, ReadBodyStep
<1>5. ASSUME NEW sz \in FrameSizes, PeerSends(sz) PROVE ReadInv'
  <2>1. encrypted' /\ frames' = frames + 1
    BY <1>5 DEF PeerSends
  <2>2. CASE outStep'
    BY <1>0, <2>1, <2>2 DEF ReadInv
  <2> QED BY <1>5, <2>2, PeerSendsStep
<1>6. ASSUME NEW sz \in FrameSizes, WriteBegins(sz) PROVE ReadInv'
  <2>1. encrypted /\ frames' = frames + 1 /\ UNCHANGED <<peerSent, place, delivered, outStep, encrypted>>
    BY <1>6 DEF WriteBegins
  <2>2. frames' \in Nat /\ frames' >= frames /\ \A f \in 1..frames : f \in 1..frames'
    BY <1>0, <2>1
  <2>3. \A k \in 1..Len(delivered) : IsPayload(delivered[k]) => IsPayload(delivered[k])'
    <3> SUFFICES ASSUME NEW k \in 1..Len(delivered), IsPayload(delivered[k]) PROVE IsPayload(delivered[k])'
      OBVIOUS
    <3>1. PICK d : d = delivered[k]
      OBVIOUS
    <3>2. IsPayload(d)'
      BY <1>0, <2>2, <3>1, PayloadStays
    <3> QED BY <2>1, <3>1, <3>2 DEF IsPayload
  <2>4. ReadPlace => ReadPlace'
    <3> SUFFICES ASSUME ReadPlace PROVE ReadPlace'
      OBVIOUS
    <3>1. CASE Between
      BY <2>1, <3>1 DEF Between, ReadPlace
    <3>2. CASE place.offset # 0 /\ \E f \in 1..frames, z \in Nat \ {0} : Inside(f, z)
      <4>1. PICK f \in 1..frames, z \in Nat \ {0} : Inside(f, z)
        BY <3>2
      <4>2. Inside(f, z)' /\ f \in 1..frames' /\ place'.offset # 0
        BY <2>1, <2>2, <3>2, <4>1 DEF Inside, Run
      <4> QED BY <4>2 DEF ReadPlace
    <3> QED BY <3>1, <3>2 DEF ReadPlace
  <2> QED BY <2>1, <2>2, <2>3, <2>4 DEF ReadInv
<1>7. CASE WriteSome
  <2>1. UNCHANGED <<peerSent, place, delivered, outStep, encrypted, frames>>
    BY <1>7 DEF WriteSome
  <2> QED BY <2>1 DEF ReadInv, ReadPlace, Between, Inside, Run, IsPayload
<1> QED BY <1>1, <1>2, <1>3, <1>4, <1>5, <1>6, <1>7 DEF DotNext

(* Nothing is sent at first. *)
LEMMA DotInitInv == DotInit => DotInv
<1> SUFFICES ASSUME DotInit PROVE DotInv
  OBVIOUS
<1>1. /\ peerSent = <<>> /\ place = NoPlace /\ delivered = <<>> /\ writing = <<>> /\ sent = <<>> /\ encrypted = FALSE /\ frames = 0
  BY DEF DotInit
<1>2. <<>> \in Seq(Bytes) /\ <<>> \in Seq(Seq(Bytes)) /\ Len(<<>>) = 0 /\ WholeFrames(<<>>)
  BY EmptySeq DEF WholeFrames
<1>3. WriteInv
  BY <1>1, <1>2, EmptyStream DEF WriteInv
<1>4. ReadInv
  BY <1>1, <1>2, EmptyStream DEF ReadInv, ReadPlace, Between
<1> QED BY <1>3, <1>4 DEF DotInv

(* The invariant of the framing is inductive. *)
LEMMA DotStep == DotInv /\ [DotNext]_dotVars => DotInv'
<1> SUFFICES ASSUME DotInv, [DotNext]_dotVars PROVE DotInv'
  OBVIOUS
<1>1. CASE UNCHANGED dotVars
  BY <1>1 DEF dotVars, DotInv, WriteInv, ReadInv, ReadPlace, Between, Inside, Run, IsPayload
<1>2. CASE DotNext
  BY <1>2, WriteStep, ReadStep DEF DotInv
<1> QED BY <1>1, <1>2

(* The invariant is what the run checks, and more. *)
LEMMA DotHolds == DotInv => FramesWhole
<1> SUFFICES ASSUME DotInv PROVE ReadsWhole /\ WritesWhole
  BY DEF FramesWhole
<1>1. WritesWhole
  BY DEF DotInv, WriteInv, WritesWhole
<1>2. ASSUME ~outStep PROVE \A k \in DOMAIN delivered : IsPayload(delivered[k])
  <2>1. delivered \in Seq(Seq(Bytes)) /\ \A k \in 1..Len(delivered) : IsPayload(delivered[k])
    BY <1>2 DEF DotInv, ReadInv
  <2>2. DOMAIN delivered = 1..Len(delivered)
    BY <2>1
  <2> QED BY <2>1, <2>2
<1> QED BY <1>1, <1>2 DEF ReadsWhole
-----------------------------------------------------------------------------
(***************************************************************************)
(* The parts together: a step of the fabric is a step of one part and      *)
(* leaves the state of the others alone.                                   *)
(***************************************************************************)
LEMMA FabricSteps ==
  Next \/ UNCHANGED vars => [PingNext]_pingVars /\ [NameNext]_nameVars /\ [ArpNext]_arpVars /\ [DhcpNext]_dhcpVars
  BY DEF Next, vars, InNetlink, InTables, InPing, InPath, InNames, InDot, InArp, InDhcp

AskersInv == PingInv /\ NameInv /\ ArpInv /\ DhcpInv

(***************************************************************************)
(* Whatever is lost, late, copied or reordered, and however the threads    *)
(* interleave with the reactor's: who asks by Ping, by name, by Arp or by  *)
(* Dhcp is given an answer to what it asked, and the tables hold the       *)
(* requests that wait and no other.                                        *)
(***************************************************************************)
THEOREM FabricAnswers == Spec => []AnswersReachAskers
<1>1. Init => AskersInv
  BY PingInitInv, NameInitInv, ArpInitInv, DhcpInitInv DEF Init, AskersInv
<1>2. AskersInv /\ [Next]_vars => AskersInv'
  BY FabricSteps, PingStep, NameStep, ArpStep, DhcpStep DEF AskersInv
<1>3. AskersInv => AnswersReachAskers
  BY PingHolds, NameHolds, ArpHolds, DhcpHolds DEF AskersInv, AnswersReachAskers
<1> QED BY <1>1, <1>2, <1>3, PTL DEF Spec


LEMMA DotSteps == Next \/ UNCHANGED vars => [DotNext]_dotVars
  BY DEF Next, vars, InNetlink, InTables, InPing, InPath, InNames, InDot, InArp, InDhcp

(***************************************************************************)
(* However the bytes of the DNS-over-TLS stream are divided among calls of *)
(* read and write, and though connections end inside a message: what read  *)
(* hands over is messages as they were sent, until one longer than         *)
(* maxMsgSize comes, and what write leaves on a connection is whole        *)
(* messages, unless another thread made that connection in the middle.     *)
(***************************************************************************)
THEOREM FabricFramesWhole == Spec => []FramesWhole
<1>1. Init => DotInv
  BY DotInitInv DEF Init
<1>2. DotInv /\ [Next]_vars => DotInv'
  BY DotSteps, DotStep
<1>3. DotInv => FramesWhole
  BY DotHolds
<1> QED BY <1>1, <1>2, <1>3, PTL DEF Spec
-----------------------------------------------------------------------------
(***************************************************************************)
(* The path.  pathMtu goes down the MTUs of the path in the order of the   *)
(* links, since a packet is refused at the first link that is too small    *)
(* for it: so it never makes more probes than there are links.  trace is   *)
(* past the destination only when a hop was lost whole.                    *)
(***************************************************************************)
PathTypes ==
    /\ path \in Seq(LinkMtus) /\ Len(path) \in 1..MaxLinks /\ goal \in {"mtu", "trace"}
    /\ known \in Range(path) /\ mtu \in Nat /\ size \in Nat /\ narrowed \in BOOLEAN
    /\ probe \in Nat /\ retry \in Nat /\ hop \in Nat \ {0} /\ result \in Nat \cup {-1} /\ ended \in BOOLEAN
    /\ lost \in Nat /\ hops \in Seq(Nat)

\* pathMtu under way: the packet is as large as the link j lets it be, and every link before j.
Down(j) == mtu = path[j] /\ known = mtu /\ probe <= j /\ \A i \in 1..j : path[i] >= mtu
Descends ==
    /\ result = -1 /\ mtu >= Overhead /\ size = mtu - Overhead /\ retry <= lost /\ retry < Probes
    /\ \/ ~narrowed /\ known = path[1] /\ mtu = LargestPacket /\ probe = 0
       \/ narrowed /\ \E j \in 1..Len(path) : Down(j)

\* trace under way.
Climbs ==
    /\ probe < Probes
    /\ hop > Len(path) => lost >= Probes
    /\ (hop = Len(path) /\ result = -1) => probe <= lost

PathInv ==
    /\ PathTypes
    /\ goal = "mtu" => PathMtuExact /\ (ended \/ Descends)
    /\ goal = "trace" => TraceInOrder /\ hop = Len(hops) + 1 /\ (ended \/ Climbs)

LEMMA MinNat == ASSUME NEW S \in SUBSET Nat, S # {} PROVE Min(S) \in S /\ \A y \in S : Min(S) <= y
<1> DEFINE R == {ss \in Nat \X Nat : ss[1] < ss[2]}
<1>1. IsWellFoundedOn(R, Nat)
  BY NatLessThanWellFounded DEF OpToRel
<1>2. PICK x \in S : \A y \in S : ~(<<y, x>> \in R)
  <2> HIDE DEF R
  <2> QED BY <1>1, WFMin
<1>3. ASSUME NEW y \in S PROVE x <= y
  <2>1. x \in Nat /\ y \in Nat /\ (y < x => <<y, x>> \in R)
    OBVIOUS
  <2> QED BY <1>2, <2>1
<1> QED BY <1>3 DEF Min

(* A link is one of the path's, and large enough for the headers. *)
LEMMA PathLinks ==
  ASSUME PathTypes
  PROVE  /\ Len(path) \in Nat /\ Len(path) >= 1 /\ Len(path) <= MaxLinks
         /\ \A i \in 1..Len(path) : path[i] \in LinkMtus /\ path[i] \in Nat /\ path[i] >= Overhead /\ path[i] \in Range(path)
         /\ known \in LinkMtus /\ known \in Nat /\ known >= Overhead
<1>1. path \in Seq(LinkMtus) /\ DOMAIN path = 1..Len(path) /\ Len(path) \in Nat
  BY DEF PathTypes
<1>2. \A i \in 1..Len(path) : path[i] \in LinkMtus /\ path[i] \in Range(path)
  BY <1>1 DEF Range
<1>3. known \in LinkMtus
  BY <1>1, <1>2 DEF PathTypes, Range
<1>4. Len(path) \in 1..MaxLinks /\ MaxLinks \in Nat
  BY PathAssumption DEF PathTypes
<1>5. \A m \in LinkMtus : m \in Nat /\ m >= Overhead
  BY PathAssumption
<1> QED BY <1>1, <1>2, <1>3, <1>4, <1>5

(* The MTU of the path. *)
LEMMA PathMin ==
  ASSUME PathTypes
  PROVE  /\ Min(Range(path)) \in Nat /\ \A i \in 1..Len(path) : Min(Range(path)) <= path[i]
         /\ \E i \in 1..Len(path) : Min(Range(path)) = path[i]
<1>1. path \in Seq(LinkMtus) /\ DOMAIN path = 1..Len(path)
  BY DEF PathTypes
<1>2. Range(path) = {path[i] : i \in 1..Len(path)}
  BY <1>1 DEF Range
<1>3. Range(path) \in SUBSET Nat /\ Range(path) # {}
  BY <1>2, PathLinks
<1>4. Min(Range(path)) \in Range(path) /\ \A y \in Range(path) : Min(Range(path)) <= y
  BY <1>3, MinNat
<1> QED BY <1>2, <1>3, <1>4, PathLinks

(* What an echo meets: a packet the stack refuses, the first link that is too small for it, or none. *)
Met(n, ttl, o) ==
    LET packet == n + Overhead
    IN  \/ o.kind = "refused" /\ packet > known /\ o.mtu = known
        \/ /\ o.kind = "toobig"
           /\ \E k \in 1..Len(path) : /\ k <= ttl /\ o.mtu = path[k] /\ path[k] < packet
                                      /\ \A i \in 1..Len(path) : i < k => path[i] >= packet
        \/ /\ o.kind \in {"expired", "reply"} /\ o.mtu = 0 /\ packet <= known /\ (o.kind = "expired" <=> ttl < Len(path))
           /\ \A i \in 1..Len(path) : i <= ttl => path[i] >= packet
        \/ o.kind = "lost" /\ o.mtu = 0

LEMMA OutcomeMet == ASSUME PathTypes, NEW n \in Nat, NEW ttl \in Nat, NEW o \in Outcomes(n, ttl) PROVE Met(n, ttl, o)
<1> DEFINE packet == n + Overhead
           small == {i \in 1..Len(path) : i <= ttl /\ path[i] < packet}
<1>1. /\ Len(path) \in Nat /\ known \in Nat /\ packet \in Nat /\ \A i \in 1..Len(path) : path[i] \in Nat
      /\ small \in SUBSET Nat
  BY PathLinks, PathAssumption
<1>2. CASE o = [kind |-> "lost", mtu |-> 0]
  BY <1>2 DEF Met
<1>3. CASE o = Outcome(n, ttl)
  <2>1. CASE packet > known
    <3>1. o = [kind |-> "refused", mtu |-> known]
      BY <1>3, <2>1 DEF Outcome
    <3> QED BY <2>1, <3>1 DEF Met
  <2>2. CASE ~(packet > known) /\ small # {}
    <3>1. o = [kind |-> "toobig", mtu |-> path[Min(small)]]
      BY <1>3, <2>2 DEF Outcome
    <3>2. PICK k \in small : k = Min(small) /\ \A i \in small : k <= i
      <4> HIDE DEF small
      <4> QED BY <1>1, <2>2, MinNat
    <3>3. \A i \in 1..Len(path) : i < k => path[i] >= packet
      BY <1>1, <3>2
    <3> QED BY <3>1, <3>2, <3>3 DEF Met
  <2>3. CASE ~(packet > known) /\ small = {}
    <3>1. o = [kind |-> IF ttl < Len(path) THEN "expired" ELSE "reply", mtu |-> 0]
      BY <1>3, <2>3 DEF Outcome
    <3>2. \A i \in 1..Len(path) : i <= ttl => path[i] >= packet
      BY <1>1, <2>3
    <3> QED BY <1>1, <2>3, <3>1, <3>2 DEF Met
  <2> QED BY <2>1, <2>2, <2>3
<1> QED BY <1>2, <1>3 DEF Outcomes

LEMMA PathInitInv == PathInit => PathInv
<1> SUFFICES ASSUME PathInit PROVE PathInv
  OBVIOUS
<1>1. PICK n \in 1..MaxLinks : path \in [1..n -> LinkMtus]
  BY DEF PathInit, Paths
<1>2. n \in Nat /\ n >= 1 /\ n <= MaxLinks
  BY <1>1, PathAssumption
<1>3. path \in Seq(LinkMtus) /\ Len(path) = n /\ DOMAIN path = 1..n
  BY <1>1, <1>2
<1>4. known = path[1] /\ known \in Range(path)
  BY <1>2, <1>3 DEF PathInit, Range
<1>5. hops = <<>> /\ hops \in Seq(Nat) /\ Len(hops) = 0 /\ DOMAIN hops = {}
  BY DEF PathInit
<1>6. PathTypes
  <2>1. LargestPacket \in Nat /\ LargestPacket - Overhead \in Nat
    BY PathAssumption
  <2>2. Len(path) \in 1..MaxLinks
    BY <1>3
  <2>3. mtu \in Nat /\ size \in Nat /\ narrowed \in BOOLEAN /\ ended \in BOOLEAN /\ goal \in {"mtu", "trace"}
    BY <2>1 DEF PathInit
  <2>4. probe \in Nat /\ retry \in Nat /\ hop \in Nat \ {0} /\ result \in Nat \cup {-1} /\ lost \in Nat
    BY DEF PathInit
  <2> QED BY <1>3, <1>4, <1>5, <2>2, <2>3, <2>4 DEF PathTypes
<1>7. goal = "mtu" => PathMtuExact /\ Descends
  BY <1>4, PathAssumption DEF PathInit, PathMtuExact, Descends
<1>8. TraceInOrder /\ hop = Len(hops) + 1 /\ Climbs
  BY <1>2, <1>3, <1>5, PathAssumption DEF PathInit, TraceInOrder, Climbs
<1> QED BY <1>6, <1>7, <1>8 DEF PathInv

(* pathMtu: an echo that got no answer. *)
LEMMA MtuEchoInv == ASSUME PathInv, NEW o \in Outcomes(size, Len(path)), MtuEcho(o) PROVE PathInv'
<1>0. /\ PathTypes /\ goal = "mtu" /\ ~ended /\ Descends /\ PathMtuExact /\ goal' = goal /\ path' = path /\ hop' = hop /\ hops' = hops
      /\ Learn(o) /\ Count(o)
  BY DEF PathInv, MtuEcho
<1>1. PICK L \in Nat : L = Len(path) /\ L >= 1 /\ L <= MaxLinks
  BY <1>0, PathLinks
<1>2. /\ size \in Nat /\ mtu \in Nat /\ size + Overhead = mtu /\ known \in Nat /\ known \in LinkMtus /\ retry \in Nat /\ lost \in Nat /\ probe \in Nat
      /\ \A i \in 1..L : path[i] \in LinkMtus /\ path[i] \in Nat /\ path[i] >= Overhead /\ path[i] \in Range(path)
  BY <1>0, <1>1, PathLinks, PathAssumption DEF Descends, PathTypes
<1>3. Met(size, L, o)
  BY <1>0, <1>1, <1>2, OutcomeMet
<1>4. (PathTypes /\ PathMtuExact /\ (ended \/ Descends))' => PathInv'
  BY <1>0 DEF PathInv
<1>5. path' \in Seq(LinkMtus) /\ Len(path') = L /\ known' \in Range(path') /\ lost' \in Nat /\ lost' >= lost
  BY <1>0, <1>1, <1>2, <1>3 DEF Learn, Count, Met, PathTypes
<1>6. CASE o.kind = "reply"
  <2>1. /\ result' = (IF ~narrowed /\ known > 0 THEN known ELSE mtu) /\ ended' = TRUE
        /\ UNCHANGED <<mtu, size, probe, retry, narrowed>>
    BY <1>6 DEF MtuEcho, NextProbe
  <2>2. \A i \in 1..L : path[i] >= mtu
    BY <1>1, <1>2, <1>3, <1>6 DEF Met
  <2>3. PICK m \in Nat : m = Min(Range(path)) /\ (\A i \in 1..L : m <= path[i]) /\ \E i \in 1..L : m = path[i]
    BY <1>0, <1>1, PathMin
  <2>4. mtu <= m
    BY <1>2, <2>2, <2>3
  <2>5. result' = m
    <3>1. CASE ~narrowed
      <4>1. known = path[1] /\ mtu = LargestPacket /\ 1 \in 1..L
        BY <1>0, <1>1, <3>1 DEF Descends
      <4>2. known > 0
        BY <1>2, PathLinks, <1>0, PathAssumption
      <4>3. PICK i \in 1..L : m = path[i]
        BY <2>3
      <4>4. path[i] >= LargestPacket /\ path[1] >= LargestPacket /\ path[i] \in LinkMtus /\ path[1] \in LinkMtus
        BY <1>2, <2>2, <4>1
      <4>5. path[i] = path[1]
        BY <4>4, PathAssumption
      <4> QED BY <2>1, <3>1, <4>1, <4>2, <4>3, <4>5
    <3>2. CASE narrowed
      <4>1. PICK j \in 1..L : mtu = path[j]
        BY <1>0, <1>1, <3>2 DEF Descends, Down
      <4> QED BY <1>2, <2>1, <2>3, <2>4, <3>2, <4>1
    <3> QED BY <3>1, <3>2
  <2>6. PathMtuExact'
    BY <1>0, <2>3, <2>5 DEF PathMtuExact
  <2>7. PathTypes'
    BY <1>0, <1>1, <1>5, <2>1, <2>3, <2>5 DEF PathTypes
  <2> QED BY <1>4, <2>1, <2>6, <2>7
<1>7. ASSUME NEW k \in 1..L, o.kind \in {"refused", "toobig"}, o.mtu = path[k], path[k] < mtu, known' = path[k], probe + 1 <= k,
             \A i \in 1..k : path[i] >= path[k]
      PROVE  PathInv'
  <2>0. PICK m \in Nat : m = path[k] /\ m >= Overhead /\ m - Overhead \in Nat
    BY <1>2, PathAssumption
  <2>1. narrowed' = TRUE /\ NextProbe(m) /\ result' = result
    BY <1>7, <2>0, <1>2 DEF MtuEcho
  <2>2. probe + 1 # MaxMtuProbes /\ m # mtu
    BY <1>1, <1>2, <1>7, <2>0, PathAssumption
  <2>3. mtu' = m /\ size' = m - Overhead /\ probe' = probe + 1 /\ retry' = 0 /\ ended' = ended
    BY <2>0, <2>1, <2>2, PathAssumption DEF NextProbe, Largest
  <2>4. Down(k)'
    BY <1>0, <1>1, <1>7, <2>0, <2>3 DEF Down
  <2>5. Descends'
    BY <1>0, <1>1, <1>5, <2>0, <2>1, <2>3, <2>4, PathAssumption DEF Descends
  <2>6. PathTypes'
    BY <1>0, <1>1, <1>2, <1>5, <2>0, <2>1, <2>3 DEF PathTypes
  <2> QED BY <1>0, <1>4, <2>3, <2>5, <2>6 DEF PathMtuExact
<1>8. CASE o.kind = "refused"
  <2>1. known < mtu /\ o.mtu = known /\ known' = known
    BY <1>0, <1>2, <1>3, <1>8 DEF Met, Learn
  <2>2. known = path[1] /\ probe = 0 /\ 1 \in 1..L
    BY <1>0, <1>1, <1>2, <2>1 DEF Descends, Down
  <2> QED BY <1>2, <1>7, <1>8, <2>1, <2>2
<1>9. CASE o.kind = "toobig"
  <2>1. PICK k \in 1..L : o.mtu = path[k] /\ path[k] < mtu /\ \A i \in 1..L : i < k => path[i] >= mtu
    BY <1>1, <1>2, <1>3, <1>9 DEF Met
  <2>2. known' = path[k]
    BY <1>0, <1>9, <2>1 DEF Learn
  <2>3. \A i \in 1..k : path[i] >= path[k]
    BY <1>2, <2>1
  <2>4. probe + 1 <= k
    <3>1. CASE ~narrowed
      BY <1>0, <3>1 DEF Descends
    <3>2. CASE narrowed
      <4>1. PICK j \in 1..L : probe <= j /\ \A i \in 1..j : path[i] >= mtu
        BY <1>0, <1>1, <3>2 DEF Descends, Down
      <4>2. ~(k <= j)
        BY <1>2, <2>1, <4>1
      <4> QED BY <1>2, <4>1, <4>2
    <3> QED BY <3>1, <3>2
  <2> QED BY <1>7, <1>9, <2>1, <2>2, <2>3, <2>4
<1>10. CASE o.kind = "lost"
  <2>1. lost' = lost + 1 /\ known' = known /\ UNCHANGED <<result, narrowed>>
        /\ IF retry + 1 = Probes THEN NextProbe(mtu) ELSE retry' = retry + 1 /\ UNCHANGED <<mtu, size, probe, ended>>
    BY <1>0, <1>10 DEF MtuEcho, Learn, Count
  <2>2. CASE retry + 1 = Probes
    <3>1. ended' = TRUE /\ UNCHANGED <<mtu, size, probe, retry>>
      BY <2>1, <2>2 DEF NextProbe
    <3>2. PathMtuExact'
      BY <1>0, <1>2, <2>1, <2>2 DEF PathMtuExact, Descends
    <3>3. PathTypes'
      BY <1>0, <1>1, <1>5, <2>1, <3>1 DEF PathTypes
    <3> QED BY <1>4, <3>1, <3>2, <3>3
  <2>3. CASE retry + 1 # Probes
    <3>1. retry' = retry + 1 /\ UNCHANGED <<mtu, size, probe, ended>>
      BY <2>1, <2>3
    <3>2. retry' <= lost' /\ retry' < Probes /\ retry' \in Nat
      BY <1>0, <1>2, <2>1, <2>3, <3>1, PathAssumption DEF Descends
    <3>3. Descends'
      <4>1. CASE ~narrowed
        BY <1>0, <2>1, <3>1, <3>2, <4>1 DEF Descends
      <4>2. CASE narrowed
        <5>1. PICK j \in 1..L : Down(j)
          BY <1>0, <1>1, <4>2 DEF Descends
        <5>2. Down(j)'
          BY <1>0, <2>1, <3>1, <5>1 DEF Down
        <5> QED BY <1>0, <1>1, <2>1, <3>1, <3>2, <4>2, <5>2 DEF Descends
      <4> QED BY <4>1, <4>2
    <3>4. PathTypes'
      BY <1>0, <1>1, <1>5, <2>1, <3>1, <3>2 DEF PathTypes
    <3> QED BY <1>0, <1>4, <3>1, <3>3, <3>4 DEF PathMtuExact
  <2> QED BY <2>2, <2>3
<1> QED BY <1>3, <1>6, <1>8, <1>9, <1>10 DEF MtuEcho

(* trace: one echo. *)
LEMMA TraceEchoInv == ASSUME PathInv, NEW o \in Outcomes(size, hop), TraceEcho(o) PROVE PathInv'
<1>0. /\ PathTypes /\ goal = "trace" /\ ~ended /\ Climbs /\ TraceInOrder /\ hop = Len(hops) + 1
      /\ UNCHANGED <<path, goal, mtu, narrowed, retry>> /\ Learn(o) /\ Count(o)
  BY DEF PathInv, TraceEcho
<1>1. PICK L \in Nat : L = Len(path) /\ L >= 1 /\ L <= MaxLinks
  BY <1>0, PathLinks
<1>2. /\ size \in Nat /\ known \in Nat /\ known >= Overhead /\ lost \in Nat /\ probe \in Nat /\ hop \in Nat \ {0} /\ result \in Nat \cup {-1}
      /\ hops \in Seq(Nat) /\ Len(hops) \in Nat
      /\ \A i \in 1..L : path[i] \in Nat /\ path[i] >= Overhead /\ path[i] \in Range(path)
  BY <1>0, <1>1, PathLinks DEF PathTypes
<1>3. Met(size, hop, o)
  BY <1>0, <1>2, OutcomeMet
<1>4. (PathTypes /\ TraceInOrder /\ hop = Len(hops) + 1 /\ (ended \/ Climbs))' => PathInv'
  BY <1>0 DEF PathInv
<1>5. /\ path' \in Seq(LinkMtus) /\ Len(path') = L /\ known' \in Range(path') /\ lost' \in Nat /\ lost' >= lost
      /\ o.kind = "lost" => lost' = lost + 1
  BY <1>0, <1>1, <1>2, <1>3 DEF Learn, Count, Met, PathTypes
<1>6. PICK s \in Nat : s = Largest(0, o.mtu - Overhead) /\ (o.kind \in {"refused", "toobig"} => o.mtu > 0 /\ s < size)
  <2>1. CASE o.kind \in {"refused", "toobig"}
    <3>1. PICK m \in Nat : m = o.mtu /\ m >= Overhead /\ m < size + Overhead
      BY <1>1, <1>2, <1>3, <2>1 DEF Met
    <3>2. m - Overhead \in Nat /\ m > 0 /\ m - Overhead < size /\ Largest(0, m - Overhead) = m - Overhead
      BY <1>2, <3>1, PathAssumption DEF Largest
    <3> QED BY <3>1, <3>2
  <2>2. CASE o.kind \notin {"refused", "toobig"}
    <3>1. o.mtu = 0
      BY <1>3, <2>2 DEF Met
    <3>2. Largest(0, 0 - Overhead) = 0
      BY PathAssumption DEF Largest
    <3> QED BY <2>2, <3>1, <3>2
  <2> QED BY <2>1, <2>2
<1>7. PICK r \in Nat \cup {-1} : r = (IF o.kind = "reply" THEN hop ELSE result) /\ result' = r
  BY <1>2 DEF TraceEcho
<1>8. \/ r = -1 /\ o.kind # "reply"
      \/ r = L
      \/ lost >= Probes /\ r > L
  <2>1. CASE o.kind = "reply"
    <3>1. hop >= L
      BY <1>1, <1>2, <1>3, <2>1 DEF Met
    <3> QED BY <1>0, <1>1, <1>2, <1>7, <2>1, <3>1 DEF Climbs
  <2>2. CASE o.kind # "reply"
    BY <1>0, <1>1, <1>7, <2>2 DEF TraceInOrder
  <2> QED BY <2>1, <2>2
<1>9. CASE o.mtu > 0 /\ s < size
  <2>1. size' = s /\ probe' = 0 /\ UNCHANGED <<hop, hops, ended>>
    BY <1>6, <1>9 DEF TraceEcho
  <2>2. PathTypes'
    BY <1>0, <1>1, <1>5, <1>7, <2>1 DEF PathTypes
  <2>3. Climbs'
    BY <1>0, <1>1, <1>2, <1>5, <2>1, PathAssumption DEF Climbs
  <2>4. TraceInOrder'
    BY <1>0, <1>1, <1>2, <1>5, <1>7, <1>8, <2>1, PathAssumption DEF TraceInOrder
  <2> QED BY <1>0, <1>4, <2>1, <2>2, <2>3, <2>4
<1>10. CASE ~(o.mtu > 0 /\ s < size)
  <2>1. /\ o.kind \in {"expired", "reply", "lost"} /\ size' = size /\ o.kind # "refused"
        /\ IF probe + 1 = Probes THEN HopEnds(r # -1, FALSE) ELSE probe' = probe + 1 /\ UNCHANGED <<hop, hops, ended>>
    BY <1>3, <1>6, <1>7, <1>10 DEF TraceEcho, Met
  <2>2. r = -1 /\ hop = L => probe + 1 <= lost'
    <3>1. ASSUME r = -1, hop = L PROVE o.kind = "lost" /\ result = -1
      BY <1>1, <1>2, <1>3, <1>7, <2>1, <3>1 DEF Met
    <3> QED BY <1>0, <1>1, <1>2, <1>5, <3>1 DEF Climbs
  <2>3. CASE probe + 1 # Probes
    <3>1. probe' = probe + 1 /\ UNCHANGED <<hop, hops, ended>>
      BY <2>1, <2>3
    <3>2. PathTypes'
      BY <1>0, <1>1, <1>2, <1>5, <1>7, <2>1, <3>1 DEF PathTypes
    <3>3. Climbs'
      BY <1>0, <1>1, <1>2, <1>5, <1>7, <2>2, <2>3, <3>1, PathAssumption DEF Climbs
    <3>4. TraceInOrder'
      BY <1>0, <1>1, <1>2, <1>5, <1>7, <1>8, <3>1, PathAssumption DEF TraceInOrder
    <3> QED BY <1>0, <1>4, <3>1, <3>2, <3>3, <3>4
  <2>4. CASE probe + 1 = Probes
    <3>1. hops' = Append(hops, hop) /\ probe' = 0 /\ hop' = hop + 1 /\ ended' = (hop = MaxHops \/ r # -1)
      BY <2>1, <2>4 DEF HopEnds
    <3>2. /\ hops' \in Seq(Nat) /\ Len(hops') = hop /\ DOMAIN hops' = 1..hop /\ \A i \in 1..hop : hops'[i] = i
      <4>1. hops' \in Seq(Nat) /\ Len(hops') = Len(hops) + 1 /\ DOMAIN hops' = 1..(Len(hops) + 1)
        BY <1>2, <3>1
      <4>2. DOMAIN hops = 1..Len(hops) /\ \A i \in 1..Len(hops) : hops[i] = i
        BY <1>0, <1>2 DEF TraceInOrder
      <4>3. \A i \in 1..Len(hops) : hops'[i] = hops[i]
        BY <1>2, <3>1
      <4>4. hops'[Len(hops) + 1] = hop
        BY <1>2, <3>1
      <4>5. \A i \in 1..hop : i \in 1..Len(hops) \/ i = Len(hops) + 1
        BY <1>0, <1>2
      <4> QED BY <1>0, <4>1, <4>2, <4>3, <4>4, <4>5
    <3>3. PathTypes'
      BY <1>0, <1>1, <1>2, <1>5, <1>7, <2>1, <3>1, <3>2 DEF PathTypes
    <3>4. hop' = Len(hops') + 1
      BY <3>1, <3>2
    <3>5. hop >= L => lost' >= Probes \/ r = L
      <4>1. CASE hop > L
        BY <1>0, <1>1, <1>2, <1>5, <4>1, PathAssumption DEF Climbs
      <4>2. CASE hop = L
        BY <1>2, <1>5, <1>8, <2>2, <2>4, <4>2, PathAssumption
      <4> QED BY <1>1, <1>2, <4>1, <4>2
    <3>6. ended' \/ Climbs'
      <4> SUFFICES ASSUME ~ended' PROVE Climbs'
        OBVIOUS
      <4>1. r = -1
        BY <3>1
      <4>2. hop >= L => lost' >= Probes
        BY <1>1, <3>5, <4>1
      <4> QED BY <1>1, <1>2, <1>5, <3>1, <4>2, PathAssumption DEF Climbs
    <3>7. TraceInOrder'
      <4>1. \A i \in DOMAIN hops' : hops'[i] = i
        BY <3>2
      <4>2. result' = -1 \/ result' = L \/ (lost' >= Probes /\ result' > L)
        BY <1>2, <1>5, <1>7, <1>8, PathAssumption
      <4>3. Len(hops') <= L \/ lost' >= Probes
        BY <1>0, <1>1, <1>2, <1>5, <3>2, PathAssumption DEF Climbs
      <4>4. (ended' /\ lost' < Probes /\ L <= MaxHops) => result' = L
        <5> SUFFICES ASSUME ended', lost' < Probes, L <= MaxHops PROVE r = L
          BY <1>7
        <5>1. hop = MaxHops \/ r # -1
          BY <3>1
        <5>2. ~(lost' >= Probes) /\ ~(lost >= Probes)
          BY <1>2, <1>5, PathAssumption
        <5> QED BY <1>2, <1>8, <3>5, <5>1, <5>2
      <4> QED BY <1>0, <1>1, <1>5, <4>1, <4>2, <4>3, <4>4 DEF TraceInOrder
    <3> QED BY <1>4, <3>3, <3>4, <3>6, <3>7
  <2> QED BY <2>3, <2>4
<1> QED BY <1>9, <1>10

LEMMA PathNextInv == PathInv /\ [PathNext]_pathVars => PathInv'
<1> SUFFICES ASSUME PathInv, [PathNext]_pathVars PROVE PathInv'
  OBVIOUS
<1>1. CASE UNCHANGED pathVars
  BY <1>1 DEF pathVars, PathInv, PathTypes, PathMtuExact, Descends, Down, TraceInOrder, Climbs
<1>2. CASE PathNext
  BY <1>2, MtuEchoInv, TraceEchoInv DEF PathNext
<1> QED BY <1>1, <1>2

(***************************************************************************)
(* pathMtu and trace do what PathFound says, on every path of fewer links  *)
(* than pathMtu has probes and whatever echoes are lost.                   *)
(***************************************************************************)
THEOREM FabricFindsPath == Spec => []PathFound
<1>1. Init => PathInv
  BY PathInitInv DEF Init
<1>2. PathInv /\ [Next]_vars => PathInv'
  <2> SUFFICES ASSUME PathInv, [Next]_vars PROVE PathInv'
    OBVIOUS
  <2>1. [PathNext]_pathVars
    BY DEF Next, vars, InNetlink, InTables, InPing, InPath, InNames, InDot, InArp, InDhcp
  <2> QED BY <2>1, PathNextInv
<1>3. PathInv => PathFound
  BY DEF PathInv, PathFound, PathTypes, PathMtuExact, TraceInOrder
<1> QED BY <1>1, <1>2, <1>3, PTL DEF Spec

-----------------------------------------------------------------------------
(***************************************************************************)
(* The netlink managers.  What a table holds under a key is followed       *)
(* through the three places it can be in: the kernel, the last message     *)
(* about it on the socket, the cache.  The facts about messages on their   *)
(* way come first, of sequences alone.                                     *)
(***************************************************************************)
Errs == {"ok", "exists", "absent"}
WireMsg == [type : {"new", "del", "answer"}, key : NlKeys \cup Nat, val : NlValues \cup {0} \cup Errs]

IsAbout(m, k) == m.type # "answer" /\ m.key = k
NoneAbout(w, k, lo, hi) == \A i \in lo..hi : ~IsAbout(w[i], k)
Replays(w, c, k, V) ==
    \/ NoneAbout(w, k, 1, Len(w)) /\ Held(c, k) = V
    \/ \E i \in 1..Len(w) : IsAbout(w[i], k) /\ NoneAbout(w, k, i + 1, Len(w)) /\ Said(w[i]) = V
\* Before message i is read, k is in the table.
KnownAt(w, c, k, i) ==
    \/ k \in DOMAIN c /\ NoneAbout(w, k, 1, i - 1)
    \/ \E j \in 1..(i - 1) : w[j].type = "new" /\ w[j].key = k /\ NoneAbout(w, k, j + 1, i - 1)
DelsKnown(w, c) == \A i \in 1..Len(w) : w[i].type = "del" => KnownAt(w, c, w[i].key, i)

(* Messages that say nothing of a key leave open what was said of it. *)
LEMMA NlQuiet ==
    ASSUME NEW w \in Seq(WireMsg), NEW d \in Seq(WireMsg), NEW c, NEW k, NEW V, Replays(w, c, k, V), NoneAbout(d, k, 1, Len(d))
    PROVE  Replays(w \o d, c, k, V)
<1>1. PICK x : x = w \o d /\ Len(x) = Len(w) + Len(d) /\ (\A i \in 1..Len(w) : x[i] = w[i]) /\ \A i \in 1..Len(d) : x[Len(w) + i] = d[i]
  <2>1. Len(w \o d) = Len(w) + Len(d) /\ (\A i \in 1..Len(w) : (w \o d)[i] = w[i]) /\ \A i \in 1..Len(d) : (w \o d)[Len(w) + i] = d[i]
    BY ConcatProperties
  <2> QED BY <2>1, Zenon
<1>2. PICK n \in Nat, m \in Nat : n = Len(w) /\ m = Len(d)
  OBVIOUS
<1>3. ASSUME NEW i \in (n + 1)..(n + m) PROVE ~IsAbout(x[i], k)
  <2>1. i - n \in 1..m /\ n + (i - n) = i
    BY <1>2
  <2>2. x[n + (i - n)] = d[i - n]
    BY <1>1, <1>2, <2>1
  <2> QED BY <2>1, <2>2, <1>2 DEF NoneAbout
<1>4. CASE NoneAbout(w, k, 1, Len(w)) /\ Held(c, k) = V
  <2>1. NoneAbout(x, k, 1, n + m)
    BY <1>1, <1>2, <1>3, <1>4 DEF NoneAbout
  <2> QED BY <1>1, <1>2, <1>4, <2>1 DEF Replays
<1>5. CASE \E i \in 1..Len(w) : IsAbout(w[i], k) /\ NoneAbout(w, k, i + 1, Len(w)) /\ Said(w[i]) = V
  <2>1. PICK i \in 1..n : IsAbout(w[i], k) /\ NoneAbout(w, k, i + 1, n) /\ Said(w[i]) = V
    BY <1>2, <1>5
  <2>2. NoneAbout(x, k, i + 1, n + m) /\ x[i] = w[i] /\ i \in 1..(n + m)
    BY <1>1, <1>2, <1>3, <2>1 DEF NoneAbout
  <2> QED BY <1>1, <1>2, <2>1, <2>2 DEF Replays
<1> QED BY <1>4, <1>5 DEF Replays

(* The only message about a key that is added is what counts. *)
LEMMA NlSays ==
    ASSUME NEW w \in Seq(WireMsg), NEW d \in Seq(WireMsg), NEW c, NEW k, NEW p \in 1..Len(d), IsAbout(d[p], k),
           \A i \in 1..Len(d) : IsAbout(d[i], k) => i = p
    PROVE  Replays(w \o d, c, k, Said(d[p]))
<1>1. PICK x : x = w \o d /\ Len(x) = Len(w) + Len(d) /\ (\A i \in 1..Len(w) : x[i] = w[i]) /\ \A i \in 1..Len(d) : x[Len(w) + i] = d[i]
  <2>1. Len(w \o d) = Len(w) + Len(d) /\ (\A i \in 1..Len(w) : (w \o d)[i] = w[i]) /\ \A i \in 1..Len(d) : (w \o d)[Len(w) + i] = d[i]
    BY ConcatProperties
  <2> QED BY <2>1, Zenon
<1>2. PICK n \in Nat, m \in Nat : n = Len(w) /\ m = Len(d)
  OBVIOUS
<1>3. n + p \in 1..(n + m) /\ x[n + p] = d[p]
  BY <1>1, <1>2
<1>4. ASSUME NEW i \in (n + p + 1)..(n + m) PROVE ~IsAbout(x[i], k)
  <2>1. i - n \in 1..m /\ n + (i - n) = i /\ i - n # p
    BY <1>2
  <2>2. x[n + (i - n)] = d[i - n]
    BY <1>1, <1>2, <2>1
  <2> QED BY <2>1, <2>2, <1>2
<1>5. NoneAbout(x, k, (n + p) + 1, Len(x))
  BY <1>1, <1>2, <1>4 DEF NoneAbout
<1> QED BY <1>1, <1>2, <1>3, <1>5 DEF Replays

\* What a message makes of a table.
Applied(c, m, e) ==
    /\ m.type = "new" => e = With(c, m.key, m.val)
    /\ m.type = "del" => e = Without(c, m.key)
    /\ m.type = "answer" => e = c

(* What With and Without hold. *)
LEMMA NlHeld ==
    ASSUME NEW c, NEW m, NEW e, Applied(c, m, e), m.type \in {"new", "del", "answer"}, NEW k
    PROVE  /\ IsAbout(m, k) => Held(e, k) = Said(m)
           /\ ~IsAbout(m, k) => Held(e, k) = Held(c, k) /\ (k \in DOMAIN c => k \in DOMAIN e)
           /\ IsAbout(m, k) /\ m.type = "new" => k \in DOMAIN e
<1>1. CASE m.type = "new"
  <2>1. DOMAIN e = DOMAIN c \cup {m.key} /\ e[m.key] = m.val /\ \A x \in DOMAIN c : x # m.key => e[x] = c[x]
    BY <1>1 DEF Applied, With
  <2> QED BY <1>1, <2>1 DEF Held, Said, IsAbout
<1>2. CASE m.type = "del"
  <2>1. DOMAIN e = DOMAIN c \ {m.key} /\ \A x \in DOMAIN e : e[x] = c[x]
    BY <1>2 DEF Applied, Without, Restrict
  <2> QED BY <1>2, <2>1 DEF Held, Said, IsAbout
<1>3. CASE m.type = "answer"
  BY <1>3 DEF Applied, Held, Said, IsAbout
<1> QED BY <1>1, <1>2, <1>3

(* A message read and applied changes nothing of what will be read. *)
LEMMA NlReads ==
    ASSUME NEW w \in Seq(WireMsg), w # <<>>, NEW c, NEW e, Applied(c, Head(w), e), NEW k, NEW V, Replays(w, c, k, V)
    PROVE  Replays(Tail(w), e, k, V)
<1>1. PICK x : x = Tail(w) /\ Len(x) = Len(w) - 1 /\ \A i \in 1..Len(x) : x[i] = w[i + 1]
  <2>1. Len(Tail(w)) = Len(w) - 1 /\ \A i \in 1..Len(Tail(w)) : Tail(w)[i] = w[i + 1]
    BY HeadTailProperties
  <2> QED BY <2>1, Zenon
<1>2. PICK n \in Nat : n = Len(w) /\ n >= 1 /\ Len(x) = n - 1 /\ Head(w) = w[1] /\ w[1].type \in {"new", "del", "answer"}
  <2>1. Len(w) \in Nat /\ Len(w) >= 1 /\ Head(w) = w[1]
    BY EmptySeq
  <2>2. w[1] \in WireMsg
    BY <2>1
  <2> QED BY <1>1, <2>1, <2>2 DEF WireMsg
<1>3. /\ IsAbout(w[1], k) => Held(e, k) = Said(w[1])
      /\ ~IsAbout(w[1], k) => Held(e, k) = Held(c, k)
  BY <1>2, NlHeld
<1>4. \A lo \in Nat : lo >= 1 /\ NoneAbout(w, k, lo + 1, n) => NoneAbout(x, k, lo, n - 1)
  BY <1>1, <1>2 DEF NoneAbout
<1>5. CASE NoneAbout(w, k, 1, n) /\ Held(c, k) = V
  <2>1. NoneAbout(w, k, 2, n) /\ ~IsAbout(w[1], k)
    BY <1>2, <1>5 DEF NoneAbout
  <2>2. NoneAbout(x, k, 1, n - 1)
    BY <1>1, <1>2, <2>1 DEF NoneAbout
  <2> QED BY <1>1, <1>2, <1>3, <1>5, <2>1, <2>2 DEF Replays
<1>6. ASSUME NEW i \in 1..n, IsAbout(w[i], k), NoneAbout(w, k, i + 1, n), Said(w[i]) = V PROVE Replays(x, e, k, V)
  <2>1. CASE i = 1
    <3>1. NoneAbout(x, k, 1, n - 1)
      BY <1>1, <1>2, <1>6, <2>1 DEF NoneAbout
    <3> QED BY <1>2, <1>3, <1>6, <2>1, <3>1 DEF Replays
  <2>2. CASE i > 1
    <3>1. i - 1 \in 1..(n - 1) /\ x[i - 1] = w[i]
      BY <1>1, <1>2, <2>2
    <3>2. NoneAbout(x, k, (i - 1) + 1, n - 1)
      BY <1>1, <1>2, <1>6, <2>2 DEF NoneAbout
    <3> QED BY <1>2, <1>6, <3>1, <3>2 DEF Replays
  <2> QED BY <2>1, <2>2
<1> QED BY <1>1, <1>2, <1>5, <1>6 DEF Replays

(* An empty cache: what was said is still on its way, or nothing is known. *)
LEMMA NlCleared ==
    ASSUME NEW w \in Seq(WireMsg), NEW c, NEW k, NEW V, Replays(w, c, k, V)
    PROVE  Replays(w, <<>>, k, V) \/ Replays(w, <<>>, k, {})
<1>1. Held(<<>>, k) = {}
  BY DEF Held
<1> QED BY <1>1 DEF Replays

(* What is deleted is known, as long as nothing but notifications is read. *)
LEMMA NlDelsRead ==
    ASSUME NEW w \in Seq(WireMsg), w # <<>>, NEW c, NEW e, Applied(c, Head(w), e), DelsKnown(w, c)
    PROVE  DelsKnown(Tail(w), e) /\ (Head(w).type = "del" => Head(w).key \in DOMAIN c)
<1>1. PICK x : x = Tail(w) /\ Len(x) = Len(w) - 1 /\ \A i \in 1..Len(x) : x[i] = w[i + 1]
  <2>1. Len(Tail(w)) = Len(w) - 1 /\ \A i \in 1..Len(Tail(w)) : Tail(w)[i] = w[i + 1]
    BY HeadTailProperties
  <2> QED BY <2>1, Zenon
<1>2. PICK n \in Nat : n = Len(w) /\ n >= 1 /\ Len(x) = n - 1 /\ Head(w) = w[1] /\ w[1].type \in {"new", "del", "answer"}
  <2>1. Len(w) \in Nat /\ Len(w) >= 1 /\ Head(w) = w[1]
    BY EmptySeq
  <2>2. w[1] \in WireMsg
    BY <2>1
  <2> QED BY <1>1, <2>1, <2>2 DEF WireMsg
<1>3. w[1].type = "del" => w[1].key \in DOMAIN c
  <2>1. w[1].type = "del" => KnownAt(w, c, w[1].key, 1)
    BY <1>2 DEF DelsKnown
  <2> QED BY <2>1 DEF KnownAt
<1>4. ASSUME NEW i \in 1..(n - 1), x[i].type = "del" PROVE KnownAt(x, e, x[i].key, i)
  <2>1. PICK k : k = x[i].key
    OBVIOUS
  <2>2. i + 1 \in 1..n /\ x[i] = w[i + 1] /\ KnownAt(w, c, k, i + 1)
    BY <1>1, <1>2, <1>4, <2>1 DEF DelsKnown
  <2>3. \A j \in 1..(n - 1) : x[j] = w[j + 1]
    BY <1>1, <1>2
  <2>4. CASE k \in DOMAIN c /\ NoneAbout(w, k, 1, i)
    <3>1. ~IsAbout(w[1], k)
      BY <2>4 DEF NoneAbout
    <3>2. k \in DOMAIN e
      BY <1>2, <2>4, <3>1, NlHeld
    <3>3. NoneAbout(x, k, 1, i - 1)
      BY <2>3, <2>4 DEF NoneAbout
    <3> QED BY <2>1, <3>2, <3>3 DEF KnownAt
  <2>5. ASSUME NEW j \in 1..i, w[j].type = "new", w[j].key = k, NoneAbout(w, k, j + 1, i) PROVE KnownAt(x, e, k, i)
    <3>1. CASE j = 1
      <4>1. k \in DOMAIN e
        <5>1. IsAbout(w[1], k)
          BY <2>5, <3>1 DEF IsAbout
        <5> QED BY <1>2, <2>5, <3>1, <5>1, NlHeld
      <4>2. NoneAbout(x, k, 1, i - 1)
        BY <2>3, <2>5, <3>1 DEF NoneAbout
      <4> QED BY <4>1, <4>2 DEF KnownAt
    <3>2. CASE j > 1
      <4>1. j - 1 \in 1..(i - 1) /\ x[j - 1] = w[j]
        BY <2>3, <3>2
      <4>2. NoneAbout(x, k, (j - 1) + 1, i - 1)
        BY <2>3, <2>5, <3>2 DEF NoneAbout
      <4> QED BY <2>5, <4>1, <4>2 DEF KnownAt
    <3> QED BY <3>1, <3>2
  <2>6. (i + 1) - 1 = i
    OBVIOUS
  <2> QED BY <2>1, <2>2, <2>4, <2>5, <2>6 DEF KnownAt
<1> QED BY <1>1, <1>2, <1>3, <1>4 DEF DelsKnown

(* A deletion is known that is notified while the replay has the key. *)
LEMMA NlDelsAppend ==
    ASSUME NEW w \in Seq(WireMsg), NEW c, NEW m \in WireMsg, DelsKnown(w, c), NEW V, m.type = "del" => Replays(w, c, m.key, V) /\ V # {}
    PROVE  DelsKnown(Append(w, m), c)
<1>1. PICK x : x = Append(w, m) /\ Len(x) = Len(w) + 1 /\ (\A i \in 1..Len(w) : x[i] = w[i]) /\ x[Len(w) + 1] = m
  <2>1. Len(Append(w, m)) = Len(w) + 1 /\ (\A i \in 1..Len(w) : Append(w, m)[i] = w[i]) /\ Append(w, m)[Len(w) + 1] = m
    BY AppendProperties
  <2> QED BY <2>1, Zenon
<1>2. PICK n \in Nat : n = Len(w)
  OBVIOUS
<1>3. ASSUME NEW i \in 1..(n + 1), NEW k, KnownAt(w, c, k, i) PROVE KnownAt(x, c, k, i)
  <2>1. \A j \in 1..(i - 1) : x[j] = w[j]
    BY <1>1, <1>2
  <2> QED BY <1>3, <2>1 DEF KnownAt, NoneAbout
<1>4. ASSUME NEW i \in 1..n, x[i].type = "del" PROVE KnownAt(x, c, x[i].key, i)
  <2>1. KnownAt(w, c, w[i].key, i) /\ x[i] = w[i] /\ i \in 1..(n + 1)
    BY <1>1, <1>2, <1>4 DEF DelsKnown
  <2> QED BY <1>3, <2>1
<1>5. ASSUME m.type = "del" PROVE KnownAt(x, c, m.key, n + 1)
  <2>1. Replays(w, c, m.key, V) /\ V # {}
    BY <1>5
  <2>2. (n + 1) - 1 = n /\ n + 1 \in 1..(n + 1)
    OBVIOUS
  <2>3. CASE NoneAbout(w, m.key, 1, n) /\ Held(c, m.key) = V
    <3>1. m.key \in DOMAIN c
      BY <2>1, <2>3 DEF Held
    <3> QED BY <1>3, <2>2, <2>3, <3>1 DEF KnownAt
  <2>4. CASE \E i \in 1..n : IsAbout(w[i], m.key) /\ NoneAbout(w, m.key, i + 1, n) /\ Said(w[i]) = V
    <3>1. PICK i \in 1..n : IsAbout(w[i], m.key) /\ NoneAbout(w, m.key, i + 1, n) /\ Said(w[i]) = V
      BY <2>4
    <3>2. w[i].type = "new" /\ w[i].key = m.key
      BY <2>1, <3>1 DEF Said, IsAbout
    <3>3. KnownAt(w, c, m.key, n + 1)
      BY <2>2, <3>1, <3>2 DEF KnownAt
    <3> QED BY <1>3, <2>2, <3>3
  <2> QED BY <1>2, <2>1, <2>3, <2>4 DEF Replays
<1>6. \A i \in 1..(n + 1) : i \in 1..n \/ i = n + 1
  OBVIOUS
<1> QED BY <1>1, <1>2, <1>4, <1>5, <1>6 DEF DelsKnown


-----------------------------------------------------------------------------
(* The kernel's table. *)
Value(t, k) == {t[e] : e \in {d \in DOMAIN t : d[1] = k}}
Alone(t, k) == \A d, e \in DOMAIN t : d[1] = k /\ e[1] = k => d = e
KernelTable(t) == IsFiniteSet(DOMAIN t) /\ DOMAIN t \subseteq NlKeys \X Nat /\ t \in [DOMAIN t -> NlValues]
FlatTable(t) == \A e \in DOMAIN t : e[2] = 0

\* The messages d tell of k what the change from t to u did to it.
Tells(d, t, u, k) ==
    \/ NoneAbout(d, k, 1, Len(d)) /\ Value(u, k) = Value(t, k)
    \/ \E p \in 1..Len(d) : IsAbout(d[p], k) /\ (\A i \in 1..Len(d) : IsAbout(d[i], k) => i = p) /\ Said(d[p]) = Value(u, k)
\* The messages d tell what t holds under k, and nothing of a key that is not there.
Dumps(d, t, k) ==
    \/ NoneAbout(d, k, 1, Len(d)) /\ Value(t, k) = {}
    \/ \E p \in 1..Len(d) : IsAbout(d[p], k) /\ (\A i \in 1..Len(d) : IsAbout(d[i], k) => i = p) /\ Said(d[p]) = Value(t, k)
\* What a request may give: r of the kernel's table t.
NlOutcome(t, r) ==
    /\ KernelTable(r.kernel) /\ r.msgs \in Seq(WireMsg) /\ r.err \in Errs
    /\ \A k \in NlKeys : Alone(t, k) /\ Alone(r.kernel, k) => Tells(r.msgs, t, r.kernel, k)
\* One notification at most, and a deletion of what was there.
Notifies(t, r) ==
    \/ r.msgs = <<>>
    \/ \E m \in WireMsg : m.type # "answer" /\ r.msgs = <<m>> /\ (m.type = "del" => m.key \in NlKeys /\ Value(t, m.key) # {})

(* A table that holds at most one entry under a key. *)
LEMMA NlTable == ASSUME NEW k, Alone(kernel, k) PROVE Held(Table, k) = Value(kernel, k)
<1>1. k \in DOMAIN Table <=> \E e \in DOMAIN kernel : e[1] = k
  BY DEF Table
<1>2. CASE k \in DOMAIN Table
  <2>1. PICK e \in DOMAIN kernel : e[1] = k
    BY <1>1, <1>2
  <2>2. Of(k) = {e}
    BY <2>1 DEF Of, Alone
  <2>3. (CHOOSE x \in Of(k) : TRUE) = e
    BY <2>2
  <2>4. Table[k] = kernel[e]
    BY <1>2, <2>3 DEF Table
  <2>5. {d \in DOMAIN kernel : d[1] = k} = {e}
    BY <2>1 DEF Alone
  <2> QED BY <1>2, <2>4, <2>5 DEF Held, Value
<1>3. CASE k \notin DOMAIN Table
  <2>1. {d \in DOMAIN kernel : d[1] = k} = {}
    BY <1>1, <1>3
  <2> QED BY <1>3, <2>1 DEF Held, Value
<1> QED BY <1>2, <1>3

(* A message that stands alone. *)
LEMMA NlOne ==
    ASSUME NEW m \in WireMsg, NEW t, NEW u, NEW k, m.type # "answer",
           IF m.key = k THEN Said(m) = Value(u, k) ELSE Value(u, k) = Value(t, k)
    PROVE  Tells(<<m>>, t, u, k)
<1>1. PICK d : d = <<m>> /\ Len(d) = 1 /\ d[1] = m
  <2>1. Len(<<m>>) = 1 /\ <<m>>[1] = m
    OBVIOUS
  <2> QED BY <2>1, Zenon
<1>2. CASE m.key = k
  <2>1. IsAbout(d[1], k) /\ 1 \in 1..Len(d) /\ (\A i \in 1..Len(d) : i = 1) /\ Said(d[1]) = Value(u, k)
    BY <1>1, <1>2 DEF IsAbout
  <2> QED BY <1>1, <2>1 DEF Tells
<1>3. CASE m.key # k
  BY <1>1, <1>3 DEF Tells, NoneAbout, IsAbout
<1> QED BY <1>2, <1>3

(* No change, no message. *)
LEMMA NlRefused == ASSUME KernelTable(kernel), NEW e \in Errs PROVE NlOutcome(kernel, Refused(e)) /\ Notifies(kernel, Refused(e)) /\ Refused(e).kernel = kernel
  BY DEF Refused, NlOutcome, Notifies, Tells, NoneAbout

(* Adding and setting. *)
LEMMA NlSet ==
    ASSUME KernelTable(kernel), NEW k \in NlKeys, NEW m \in Nat, NEW v \in NlValues
    PROVE  LET r == KernelSet(k, m, v) IN
           NlOutcome(kernel, r) /\ Notifies(kernel, r) /\ (m = 0 /\ FlatTable(kernel) => FlatTable(r.kernel))
<1>1. PICK u : u = With(kernel, <<k, m>>, v)
  OBVIOUS
<1>2. DOMAIN u = DOMAIN kernel \cup {<<k, m>>} /\ u[<<k, m>>] = v /\ \A e \in DOMAIN kernel : e # <<k, m>> => u[e] = kernel[e]
  BY <1>1 DEF With
<1>3. u = [x \in DOMAIN u |-> u[x]]
  <2>1. With(kernel, <<k, m>>, v) = [x \in DOMAIN With(kernel, <<k, m>>, v) |-> With(kernel, <<k, m>>, v)[x]]
    BY DEF With
  <2> QED BY <1>1, <2>1
<1>4. KernelTable(u)
  <2>1. IsFiniteSet(DOMAIN u)
    BY <1>2, FS_AddElement DEF KernelTable
  <2>2. \A x \in DOMAIN u : u[x] \in NlValues
    BY <1>2 DEF KernelTable
  <2>3. u \in [DOMAIN u -> NlValues]
    BY <1>3, <2>2
  <2> QED BY <1>2, <2>1, <2>3 DEF KernelTable
<1>5. PICK n : n = New(k, v) /\ n \in WireMsg /\ n.type = "new" /\ n.key = k /\ n.val = v
  <2>1. New(k, v) \in WireMsg /\ New(k, v).type = "new" /\ New(k, v).key = k /\ New(k, v).val = v
    BY DEF New, WireMsg
  <2> QED BY <2>1
<1>6. ASSUME NEW j \in NlKeys, Alone(u, j) PROVE Tells(<<n>>, kernel, u, j)
  <2>1. CASE j = k
    <3>1. {d \in DOMAIN u : d[1] = j} = {<<k, m>>}
      <4>1. <<k, m>>[1] = k /\ <<k, m>> \in DOMAIN u
        BY <1>2
      <4> QED BY <1>6, <2>1, <4>1 DEF Alone
    <3>2. Value(u, j) = {v}
      BY <1>2, <3>1 DEF Value
    <3> QED BY <1>5, <2>1, <3>2, NlOne DEF Said
  <2>2. CASE j # k
    <3>1. \A d : d \in DOMAIN u /\ d[1] = j <=> d \in DOMAIN kernel /\ d[1] = j
      <4>1. <<k, m>>[1] = k
        OBVIOUS
      <4> QED BY <1>2, <2>2, <4>1
    <3>2. \A d \in DOMAIN kernel : d[1] = j => u[d] = kernel[d]
      <4>1. <<k, m>>[1] = k
        OBVIOUS
      <4> QED BY <1>2, <2>2, <4>1
    <3>3. Value(u, j) = Value(kernel, j)
      BY <3>1, <3>2 DEF Value
    <3> QED BY <1>5, <2>2, <3>3, NlOne
  <2> QED BY <2>1, <2>2
<1>7. PICK r : r = KernelSet(k, m, v) /\ r.kernel = u /\ r.msgs = <<n>> /\ r.err = "ok"
  <2>1. KernelSet(k, m, v).kernel = u /\ KernelSet(k, m, v).msgs = <<n>> /\ KernelSet(k, m, v).err = "ok"
    BY <1>1, <1>5 DEF KernelSet, Changed
  <2> QED BY <2>1
<1>8. NlOutcome(kernel, r)
  <2>1. <<n>> \in Seq(WireMsg) /\ "ok" \in Errs
    BY <1>5 DEF Errs
  <2> QED BY <1>4, <1>6, <1>7, <2>1 DEF NlOutcome
<1>9. Notifies(kernel, r)
  BY <1>5, <1>7 DEF Notifies
<1>10. m = 0 /\ FlatTable(kernel) => FlatTable(r.kernel)
  <2>1. <<k, m>>[2] = m
    OBVIOUS
  <2> QED BY <1>2, <1>7, <2>1 DEF FlatTable
<1> QED BY <1>7, <1>8, <1>9, <1>10

LEMMA NlAdd ==
    ASSUME KernelTable(kernel), NEW k \in NlKeys, NEW m \in Nat, NEW v \in NlValues
    PROVE  LET r == KernelAdd(k, m, v) IN
           NlOutcome(kernel, r) /\ Notifies(kernel, r) /\ (m = 0 /\ FlatTable(kernel) => FlatTable(r.kernel))
<1>1. CASE <<k, m>> \in DOMAIN kernel
  <2>1. KernelAdd(k, m, v) = Refused("exists") /\ "exists" \in Errs
    BY <1>1 DEF KernelAdd, Errs
  <2>2. NlOutcome(kernel, Refused("exists")) /\ Notifies(kernel, Refused("exists")) /\ Refused("exists").kernel = kernel
    BY <2>1, NlRefused
  <2> QED BY <2>1, <2>2
<1>2. CASE <<k, m>> \notin DOMAIN kernel
  <2>1. KernelAdd(k, m, v) = KernelSet(k, m, v)
    BY <1>2 DEF KernelAdd, KernelSet
  <2> QED BY <2>1, NlSet
<1> QED BY <1>1, <1>2

(* Deleting: the entry of the lowest metric goes. *)
LEMMA NlDel ==
    ASSUME KernelTable(kernel), NEW k \in NlKeys
    PROVE  LET r == KernelDel(k) IN
           NlOutcome(kernel, r) /\ Notifies(kernel, r) /\ (FlatTable(kernel) => FlatTable(r.kernel))
<1>1. CASE Of(k) = {}
  <2>1. KernelDel(k) = Refused("absent") /\ "absent" \in Errs
    BY <1>1 DEF KernelDel, Errs
  <2>2. NlOutcome(kernel, Refused("absent")) /\ Notifies(kernel, Refused("absent")) /\ Refused("absent").kernel = kernel
    BY <2>1, NlRefused
  <2> QED BY <2>1, <2>2
<1>2. CASE Of(k) # {}
  <2>1. \E e \in Of(k) : \A d \in Of(k) : e[2] <= d[2]
    <3> DEFINE S == {e[2] : e \in Of(k)}
    <3>1. S \in SUBSET Nat /\ S # {}
      BY <1>2 DEF KernelTable, Of
    <3>2. Min(S) \in S /\ \A y \in S : Min(S) <= y
      <4> HIDE DEF S
      <4> QED BY <3>1, MinNat
    <3>3. PICK e \in Of(k) : e[2] = Min(S)
      BY <3>2
    <3> QED BY <3>2, <3>3
  <2>2. PICK z : z = CHOOSE e \in Of(k) : \A d \in Of(k) : e[2] <= d[2]
    OBVIOUS
  <2>3. z \in DOMAIN kernel /\ z[1] = k
    BY <2>1, <2>2 DEF Of
  <2>4. PICK u : u = Without(kernel, z)
    OBVIOUS
  <2>5. DOMAIN u = DOMAIN kernel \ {z} /\ u = [x \in DOMAIN kernel \ {z} |-> kernel[x]]
    BY <2>4 DEF Without, Restrict
  <2>6. KernelTable(u)
    <3>1. IsFiniteSet(DOMAIN u)
      BY <2>5, FS_Subset DEF KernelTable
    <3>2. \A x \in DOMAIN kernel : kernel[x] \in NlValues
      BY DEF KernelTable
    <3>3. u \in [DOMAIN u -> NlValues]
      BY <2>5, <3>2
    <3> QED BY <2>5, <3>1, <3>3 DEF KernelTable
  <2>7. PICK n : n = Del(k) /\ n \in WireMsg /\ n.type = "del" /\ n.key = k
    <3>1. Del(k) \in WireMsg /\ Del(k).type = "del" /\ Del(k).key = k
      BY DEF Del, WireMsg
    <3> QED BY <3>1
  <2>8. ASSUME NEW j \in NlKeys, Alone(kernel, j) PROVE Tells(<<n>>, kernel, u, j)
    <3>1. CASE j = k
      <4>1. {d \in DOMAIN u : d[1] = j} = {}
        BY <2>3, <2>5, <2>8, <3>1 DEF Alone
      <4>2. Value(u, j) = {}
        BY <4>1 DEF Value
      <4> QED BY <2>7, <3>1, <4>2, NlOne DEF Said
    <3>2. CASE j # k
      <4>1. \A d : d \in DOMAIN u /\ d[1] = j <=> d \in DOMAIN kernel /\ d[1] = j
        BY <2>3, <2>5, <3>2
      <4>2. \A d \in DOMAIN u : u[d] = kernel[d]
        BY <2>5
      <4>3. Value(u, j) = Value(kernel, j)
        BY <4>1, <4>2 DEF Value
      <4> QED BY <2>7, <3>2, <4>3, NlOne
    <3> QED BY <3>1, <3>2
  <2>9. PICK r : r = KernelDel(k) /\ r.kernel = u /\ r.msgs = <<n>> /\ r.err = "ok"
    <3>1. KernelDel(k).kernel = u /\ KernelDel(k).msgs = <<n>> /\ KernelDel(k).err = "ok"
      BY <1>2, <2>2, <2>4, <2>7 DEF KernelDel, Changed
    <3> QED BY <3>1
  <2>10. NlOutcome(kernel, r)
    <3>1. <<n>> \in Seq(WireMsg) /\ "ok" \in Errs
      BY <2>7 DEF Errs
    <3> QED BY <2>6, <2>8, <2>9, <3>1 DEF NlOutcome
  <2>11. Notifies(kernel, r)
    <3>1. kernel[z] \in Value(kernel, k)
      BY <2>3 DEF Value
    <3> QED BY <2>7, <2>9, <3>1 DEF Notifies
  <2>12. FlatTable(kernel) => FlatTable(r.kernel)
    BY <2>5, <2>9 DEF FlatTable
  <2> QED BY <2>9, <2>10, <2>11, <2>12
<1> QED BY <1>1, <1>2

(* A finite set as a sequence. *)
LEMMA NlSetToSeq ==
    ASSUME NEW S, IsFiniteSet(S)
    PROVE  LET d == SetToSeq(S) IN
           /\ d \in Seq(S) /\ \A x \in S : \E i \in 1..Len(d) : d[i] = x
           /\ \A i, j \in 1..Len(d) : d[i] = d[j] => i = j
<1>1. PICK n \in Nat : n = Cardinality(S) /\ ExistsBijection(1..n, S)
  BY FS_CardinalityType
<1>2. \E f \in [1..n -> S] : IsInjective(f)
  BY <1>1 DEF ExistsBijection, Bijection, Injection, IsInjective
<1>3. PICK d : d = SetToSeq(S) /\ d \in [1..n -> S] /\ IsInjective(d)
  BY <1>1, <1>2 DEF SetToSeq
<1>4. d \in Injection(1..n, S)
  BY <1>3 DEF Injection
<1>5. Cardinality(1..n) = n
  BY FS_Interval
<1>6. d \in Surjection(1..n, S)
  BY <1>1, <1>4, <1>5, FS_Injection
<1>7. d \in Seq(S) /\ Len(d) = n
  BY <1>3
<1>8. \A x \in S : \E i \in 1..n : d[i] = x
  BY <1>6 DEF Surjection
<1>9. \A i, j \in 1..n : d[i] = d[j] => i = j
  BY <1>3 DEF IsInjective
<1> QED BY <1>3, <1>7, <1>8, <1>9

(* A dump tells of every entry once. *)
LEMMA NlDump ==
    ASSUME KernelTable(kernel)
    PROVE  LET r == KernelDump IN
           /\ r.kernel = kernel /\ r.msgs \in Seq(WireMsg) /\ r.err \in Errs /\ (\A i \in 1..Len(r.msgs) : r.msgs[i].type # "answer")
           /\ \A k \in NlKeys : Alone(kernel, k) => Dumps(r.msgs, kernel, k)
<1> DEFINE S == {New(e[1], kernel[e]) : e \in DOMAIN kernel}
<1>1. IsFiniteSet(S)
  <2> DEFINE f == [e \in DOMAIN kernel |-> New(e[1], kernel[e])]
  <2>1. f \in Surjection(DOMAIN kernel, S)
    <3>1. f \in [DOMAIN kernel -> S] /\ \A x \in S : \E e \in DOMAIN kernel : f[e] = x
      OBVIOUS
    <3> HIDE DEF f, S
    <3> QED BY <3>1 DEF Surjection
  <2> HIDE DEF f, S
  <2> QED BY <2>1, FS_Surjection DEF KernelTable
<1>2. PICK d : d = SetToSeq(S) /\ d \in Seq(S) /\ (\A x \in S : \E i \in 1..Len(d) : d[i] = x) /\ \A i, j \in 1..Len(d) : d[i] = d[j] => i = j
  <2> HIDE DEF S
  <2> QED BY <1>1, NlSetToSeq
<1>3. \A e \in DOMAIN kernel : New(e[1], kernel[e]) \in WireMsg /\ New(e[1], kernel[e]).type = "new" /\ New(e[1], kernel[e]).key = e[1] /\ New(e[1], kernel[e]).val = kernel[e]
  BY DEF KernelTable, New, WireMsg
<1>4. d \in Seq(WireMsg)
  <2>1. S \subseteq WireMsg
    BY <1>3
  <2> QED BY <1>2, <2>1
<1>5. ASSUME NEW k \in NlKeys, Alone(kernel, k) PROVE Dumps(d, kernel, k)
  <2>1. ASSUME NEW i \in 1..Len(d), IsAbout(d[i], k) PROVE \E e \in DOMAIN kernel : e[1] = k /\ d[i] = New(e[1], kernel[e])
    <3>1. d[i] \in S
      <4> HIDE DEF S
      <4> QED BY <1>2
    <3> QED BY <1>3, <2>1, <3>1 DEF IsAbout
  <2>2. CASE {e \in DOMAIN kernel : e[1] = k} = {}
    BY <2>1, <2>2 DEF Dumps, NoneAbout, Value
  <2>3. CASE {e \in DOMAIN kernel : e[1] = k} # {}
    <3>1. PICK e \in DOMAIN kernel : e[1] = k
      BY <2>3
    <3>2. {x \in DOMAIN kernel : x[1] = k} = {e}
      BY <1>5, <3>1 DEF Alone
    <3>3. PICK n : n = New(e[1], kernel[e]) /\ n.type = "new" /\ n.key = k /\ n.val = kernel[e] /\ n \in S
      BY <1>3, <3>1
    <3>4. PICK p \in 1..Len(d) : d[p] = n
      BY <1>2, <3>3
    <3>5. \A i \in 1..Len(d) : IsAbout(d[i], k) => d[i] = n
      BY <2>1, <3>2, <3>3
    <3>6. \A i \in 1..Len(d) : IsAbout(d[i], k) => i = p
      BY <1>2, <3>4, <3>5
    <3>7. Value(kernel, k) = {kernel[e]} /\ IsAbout(d[p], k) /\ Said(d[p]) = {kernel[e]}
      BY <3>2, <3>3, <3>4 DEF Value, Said, IsAbout
    <3> QED BY <3>4, <3>6, <3>7 DEF Dumps
  <2> QED BY <2>2, <2>3
<1>6. PICK r : r = KernelDump /\ r.kernel = kernel /\ r.msgs = d /\ r.err = "ok"
  <2>1. KernelDump.kernel = kernel /\ KernelDump.msgs = d /\ KernelDump.err = "ok"
    BY <1>2 DEF KernelDump
  <2> QED BY <2>1
<1>7. "ok" \in Errs
  BY DEF Errs
<1>8. ASSUME NEW i \in 1..Len(d) PROVE d[i].type # "answer"
  <2>1. d[i] \in S
    <3> HIDE DEF S
    <3> QED BY <1>2
  <2> QED BY <1>3, <2>1
<1> QED BY <1>4, <1>5, <1>6, <1>7, <1>8


-----------------------------------------------------------------------------
(* The invariant. *)
CallType ==
    [at : {"idle", "insert", "write", "push", "signal", "spin", "wait"}, op : {"none", "add", "set", "remove", "dump"},
     key : NlKeys \cup {"none"}, val : NlValues \cup {0}, metric : Nat, seq : Nat,
     res : {"none", "written", "overrun", "timeout"} \cup Errs]
NlHistory ==
    [other : Nat, lost : BOOLEAN, cleared : BOOLEAN, nulls : BOOLEAN, shared : SUBSET NlKeys,
     answers : UNION {[S -> Errs] : S \in SUBSET Nat}]
NlTypes ==
    /\ call \in [Callers -> CallType] /\ seq \in Nat /\ jobs \in Seq(Callers) /\ wire \in Seq(WireMsg)
    /\ pending \in [DOMAIN pending -> {"waiting", "overrun"} \cup Errs]
    /\ cache = [x \in DOMAIN cache |-> cache[x]] /\ overrun \in BOOLEAN /\ history \in NlHistory
    /\ flavour \in {"link", "neighbor", "route"}

Unanswered(k) == k.at \in {"insert", "write", "push", "spin"} \/ (k.at = "signal" /\ k.res = "none")
Written(k) == k.at = "wait" \/ (k.at = "signal" /\ k.res = "written")
\* A call k: how far it is, whether its request is in the table, whether the kernel has seen it.
CallInv(k, p, h, f) ==
    /\ k.at # "idle" => k.seq > 0
    /\ k.op \in {"add", "set"} => k.key \in NlKeys /\ k.val \in NlValues
    /\ k.op = "remove" => k.key \in NlKeys
    /\ k.at = "insert" => k.op # "none"
    /\ k.at = "write" => k.op \in {"add", "set", "remove"}
    /\ k.at \in {"push", "signal", "spin"} => k.op = "dump"
    /\ k.at \notin {"idle", "insert"} => k.seq \in DOMAIN p
    /\ k.at \in {"insert", "write", "push", "spin"} => k.res = "none"
    /\ k.at = "signal" => k.res \in {"none", "written"}
    /\ Unanswered(k) => k.seq \notin DOMAIN h.answers
    /\ Written(k) => k.seq \in DOMAIN h.answers
    /\ f # "route" => k.metric = 0
    /\ k.op = "dump" => h.cleared
\* Requests have numbers of their own.
Numbered ==
    /\ \A c \in Callers : call[c].seq <= seq
    /\ \A c, d \in Callers : call[c].seq = call[d].seq => c = d \/ call[c].seq = 0
    /\ \A s \in DOMAIN history.answers : s > 0 /\ s <= seq
CallsInv == (\A c \in Callers : CallInv(call[c], pending, history, flavour)) /\ Numbered
JobsInv ==
    /\ \A i \in 1..Len(jobs) : call[jobs[i]].at \in {"signal", "spin"} /\ call[jobs[i]].res = "none"
    /\ \A i, j \in 1..Len(jobs) : jobs[i] = jobs[j] => i = j
    /\ JobsNoticed
\* An answer on its way, or in the table, is the kernel's.
AnswersInv ==
    /\ \A i \in 1..Len(wire) : wire[i].type = "answer" => wire[i].key \in DOMAIN history.answers /\ wire[i].val = history.answers[wire[i].key]
    /\ \A s \in DOMAIN pending : pending[s] \in Errs => s \in DOMAIN history.answers /\ pending[s] = history.answers[s]
    /\ \A c \in Callers : call[c].at = "idle" /\ call[c].res \in Errs => call[c].seq \in DOMAIN history.answers /\ call[c].res = history.answers[call[c].seq]
\* What the cache will hold is what the kernel holds, or nothing while a dump is to come.
Follows ==
    ~history.lost => \A k \in NlKeys \ history.shared :
        Replays(wire, cache, k, Value(kernel, k)) \/ (Dumping /\ Replays(wire, cache, k, {}))
Listens ==
    ~history.cleared /\ ~history.lost => told = cache /\ ~history.nulls /\ (flavour = "link" => DelsKnown(wire, cache))
TableInv ==
    /\ KernelTable(kernel) /\ (\A k \in NlKeys \ history.shared : Alone(kernel, k)) /\ (overrun => history.lost)
    /\ flavour # "route" => FlatTable(kernel) /\ history.shared = {}
    /\ Follows /\ Listens
NetlinkInv == NlTypes /\ CallsInv /\ JobsInv /\ AnswersInv /\ TableInv

LEMMA NlInitInv == NetlinkInit => NetlinkInv
<1> SUFFICES ASSUME NetlinkInit PROVE NetlinkInv
  OBVIOUS
<1> USE DEF NetlinkInit
<1>1. NoCall \in CallType
  BY DEF NoCall, CallType, Errs
<1>2. DOMAIN <<>> = {} /\ Len(<<>>) = 0 /\ <<>> = [x \in {} |-> x]
  OBVIOUS
<1>3. NlTypes
  <2>1. call \in [Callers -> CallType]
    BY <1>1
  <2>2. history \in NlHistory
    <3>1. <<>> \in UNION {[S -> Errs] : S \in SUBSET Nat}
      <4>1. <<>> \in [{} -> Errs] /\ {} \in SUBSET Nat
        OBVIOUS
      <4> QED BY <4>1
    <3> QED BY <3>1 DEF NlHistory
  <2>3. <<>> \in [DOMAIN <<>> -> {"waiting", "overrun"} \cup Errs] /\ <<>> = [x \in DOMAIN <<>> |-> <<>>[x]]
    OBVIOUS
  <2>4. jobs \in Seq(Callers) /\ wire \in Seq(WireMsg)
    OBVIOUS
  <2>5. pending \in [DOMAIN pending -> {"waiting", "overrun"} \cup Errs] /\ cache = [x \in DOMAIN cache |-> cache[x]]
    <3>1. pending = <<>> /\ cache = <<>>
      OBVIOUS
    <3> HIDE DEF NetlinkInit
    <3> QED BY <2>3, <3>1
  <2>6. seq \in Nat /\ overrun \in BOOLEAN /\ flavour \in {"link", "neighbor", "route"}
    OBVIOUS
  <2> HIDE DEF NetlinkInit
  <2> QED BY <2>1, <2>2, <2>4, <2>5, <2>6 DEF NlTypes
<1>4. CallsInv
  BY DEF CallsInv, CallInv, Numbered, Unanswered, Written, NoCall
<1>5. JobsInv
  BY DEF JobsInv, JobsNoticed
<1>6. AnswersInv
  BY DEF AnswersInv, NoCall, Errs
<1>7. TableInv
  <2>1. KernelTable(kernel)
    <3>1. IsFiniteSet(DOMAIN kernel) /\ DOMAIN kernel = {}
      BY FS_EmptySet
    <3>2. kernel \in [DOMAIN kernel -> NlValues]
      OBVIOUS
    <3> QED BY <3>1, <3>2 DEF KernelTable
  <2>2. \A k : Alone(kernel, k) /\ Value(kernel, k) = {} /\ Held(cache, k) = {}
    BY DEF Alone, Value, Held
  <2>3. Follows
    <3>1. Len(wire) = 0 /\ \A k : NoneAbout(wire, k, 1, 0)
      BY DEF NoneAbout
    <3> QED BY <2>2, <3>1 DEF Follows, Replays
  <2>4. Listens
    BY DEF Listens, DelsKnown
  <2> QED BY <2>1, <2>2, <2>3, <2>4 DEF TableInv, FlatTable
<1> QED BY <1>3, <1>4, <1>5, <1>6, <1>7 DEF NetlinkInv

(* What is queued on the socket: everything, or a message is lost. *)
LEMMA NlQueued ==
    ASSUME NlTypes, NEW d \in Seq(WireMsg), Queue(d)
    PROVE  /\ wire' \in Seq(WireMsg) /\ overrun' \in BOOLEAN
           /\ ~overrun' => ~overrun /\ wire' = wire \o d
           /\ \A i \in 1..Len(wire') : (\E j \in 1..Len(wire) : wire'[i] = wire[j]) \/ (\E j \in 1..Len(d) : wire'[i] = d[j])
<1>1. PICK n \in Int : n = IF Len(d) > RcvBuffer - Len(wire) THEN RcvBuffer - Len(wire) ELSE Len(d)
  BY NetlinkAssumption DEF NlTypes
<1>2. n <= Len(d) /\ wire' = wire \o SubSeq(d, 1, n)
  BY <1>1, NetlinkAssumption DEF Queue, NlTypes
<1>3. PICK e : e = SubSeq(d, 1, n) /\ e \in Seq(WireMsg) /\ \A j \in 1..Len(e) : j \in 1..Len(d) /\ e[j] = d[j]
  <2>1. SubSeq(d, 1, n) \in Seq(WireMsg) /\ Len(SubSeq(d, 1, n)) = (IF 1 <= n THEN n ELSE 0) /\ \A j \in 1..Len(SubSeq(d, 1, n)) : SubSeq(d, 1, n)[j] = d[j]
    BY <1>2, SubSeqProperties
  <2>2. \A j \in 1..Len(SubSeq(d, 1, n)) : j \in 1..Len(d) /\ SubSeq(d, 1, n)[j] = d[j]
    BY <1>2, <2>1
  <2> QED BY <2>1, <2>2, Zenon
<1>4. wire \in Seq(WireMsg) /\ wire' = wire \o e
  BY <1>2, <1>3 DEF NlTypes
<1>5. PICK w, x : w = wire /\ x = wire' /\ w \in Seq(WireMsg) /\ x = w \o e
  BY <1>4
<1>6. x \in Seq(WireMsg) /\ \A i \in 1..Len(x) : (\E j \in 1..Len(w) : x[i] = w[j]) \/ (\E j \in 1..Len(e) : x[i] = e[j])
  <2>1. w \o e \in Seq(WireMsg) /\ Len(w \o e) = Len(w) + Len(e) /\ (\A i \in 1..Len(w) : (w \o e)[i] = w[i]) /\ \A i \in 1..Len(e) : (w \o e)[Len(w) + i] = e[i]
    BY <1>3, <1>5, ConcatProperties
  <2>2. ASSUME NEW i \in 1..(Len(w) + Len(e)) PROVE i \in 1..Len(w) \/ (i - Len(w) \in 1..Len(e) /\ Len(w) + (i - Len(w)) = i)
    BY <1>3, <1>5
  <2> QED BY <1>5, <2>1, <2>2
<1>7. ~overrun' => ~overrun /\ n = Len(d)
  BY <1>1 DEF Queue
<1>8. SubSeq(d, 1, Len(d)) = d
  BY SubSeqFull
<1>9. overrun' \in BOOLEAN /\ wire' \in Seq(WireMsg)
  BY <1>5, <1>6 DEF Queue, NlTypes
<1>10. ~overrun' => ~overrun /\ wire' = wire \o d
  BY <1>2, <1>7, <1>8
<1>11. \A i \in 1..Len(x) : (\E j \in 1..Len(w) : x[i] = w[j]) \/ (\E j \in 1..Len(d) : x[i] = d[j])
  BY <1>3, <1>6
<1> QED BY <1>5, <1>9, <1>10, <1>11


\* The step of one call: c becomes n, and its own request number is all it touches.
CallStep(c, n) ==
    /\ call' = [call EXCEPT ![c] = n] /\ flavour' = flavour
    /\ DOMAIN pending \ {n.seq} \subseteq DOMAIN pending'
    /\ DOMAIN history.answers \subseteq DOMAIN history'.answers
    /\ DOMAIN history'.answers \subseteq DOMAIN history.answers \cup {n.seq}
    /\ history.cleared => history'.cleared
    /\ n.seq > 0 /\ n.seq <= seq' /\ seq <= seq' /\ (n.seq = call[c].seq \/ n.seq > seq)

(* Nobody else has the number. *)
LEMMA NlOthers ==
    ASSUME NlTypes, CallsInv, NEW c \in Callers, NEW n \in CallType, CallStep(c, n), NEW d \in Callers, d # c
    PROVE  call'[d] = call[d] /\ call[d].seq # n.seq
<1>1. call \in [Callers -> CallType] /\ seq \in Nat
  BY DEF NlTypes
<1>2. call'[d] = call[d] /\ call[d].seq \in Nat /\ call[c].seq \in Nat /\ n.seq \in Nat
  BY <1>1 DEF CallStep, CallType
<1>3. call[d].seq <= seq /\ (call[c].seq = call[d].seq => call[c].seq = 0)
  BY DEF CallsInv, Numbered
<1> QED BY <1>1, <1>2, <1>3 DEF CallStep

LEMMA NlCallStep ==
    ASSUME NlTypes, CallsInv, seq' \in Nat, NEW c \in Callers, NEW n \in CallType, CallStep(c, n), CallInv(n, pending', history', flavour)
    PROVE  CallsInv' /\ call' \in [Callers -> CallType]
<1>1. call \in [Callers -> CallType] /\ seq \in Nat /\ call'[c] = n /\ call' \in [Callers -> CallType]
  BY DEF NlTypes, CallStep
<1>2. ASSUME NEW d \in Callers PROVE CallInv(call'[d], pending', history', flavour')
  <2>1. CASE d = c
    BY <1>1, <2>1 DEF CallStep
  <2>2. CASE d # c
    <3>1. call'[d] = call[d] /\ call[d].seq # n.seq
      BY <2>2, NlOthers
    <3>2. CallInv(call[d], pending, history, flavour)
      BY DEF CallsInv
    <3>3. /\ call[d].seq \in DOMAIN pending => call[d].seq \in DOMAIN pending'
          /\ call[d].seq \in DOMAIN history.answers <=> call[d].seq \in DOMAIN history'.answers
          /\ history.cleared => history'.cleared
          /\ flavour' = flavour
      BY <3>1 DEF CallStep
    <3> QED BY <3>1, <3>2, <3>3 DEF CallInv
  <2> QED BY <2>1, <2>2
<1>3. Numbered'
  <2>1. ASSUME NEW d \in Callers PROVE call'[d].seq <= seq'
    <3>1. CASE d = c
      BY <1>1, <3>1 DEF CallStep
    <3>2. CASE d # c
      <4>1. call'[d] = call[d] /\ call[d].seq <= seq /\ call[d].seq \in Nat
        BY <1>1, <3>2, NlOthers DEF CallsInv, Numbered, CallType
      <4> QED BY <1>1, <4>1 DEF CallStep
    <3> QED BY <3>1, <3>2
  <2>2. ASSUME NEW d \in Callers, NEW e \in Callers, call'[d].seq = call'[e].seq PROVE d = e \/ call'[d].seq = 0
    <3>1. CASE d = c /\ e # c
      BY <1>1, <2>2, <3>1, NlOthers
    <3>2. CASE d # c /\ e = c
      BY <1>1, <2>2, <3>2, NlOthers
    <3>3. CASE d # c /\ e # c
      BY <2>2, <3>3, NlOthers DEF CallsInv, Numbered
    <3> QED BY <3>1, <3>2, <3>3
  <2>3. ASSUME NEW s \in DOMAIN history'.answers PROVE s > 0 /\ s <= seq'
    <3>1. CASE s \in DOMAIN history.answers
      <4>1. s > 0 /\ s <= seq /\ s \in Nat
        BY <3>1 DEF CallsInv, Numbered, NlTypes, NlHistory
      <4> QED BY <1>1, <4>1 DEF CallStep
    <3>2. CASE s = n.seq
      BY <3>2 DEF CallStep
    <3> QED BY <3>1, <3>2 DEF CallStep
  <2> QED BY <2>1, <2>2, <2>3 DEF Numbered
<1> QED BY <1>1, <1>2, <1>3 DEF CallsInv

(* A dump that is to come is still to come, unless it is the one of c. *)
LEMMA NlDumping ==
    ASSUME NlTypes, CallsInv, NEW c \in Callers, NEW n \in CallType, CallStep(c, n),
           call[c].op = "dump" /\ call[c].at # "idle" /\ call[c].seq \notin DOMAIN history.answers
             => n.op = "dump" /\ n.at # "idle" /\ n.seq \notin DOMAIN history'.answers
    PROVE  Dumping => Dumping'
<1> SUFFICES ASSUME NEW d \in Callers, call[d].op = "dump", call[d].at # "idle", call[d].seq \notin DOMAIN history.answers
             PROVE  call'[d].op = "dump" /\ call'[d].at # "idle" /\ call'[d].seq \notin DOMAIN history'.answers
  BY DEF Dumping
<1>1. CASE d = c
  <2>1. call'[c] = n
    BY DEF CallStep, NlTypes
  <2> QED BY <1>1, <2>1
<1>2. CASE d # c
  <2>1. call'[d] = call[d] /\ call[d].seq # n.seq
    BY <1>2, NlOthers
  <2> QED BY <2>1 DEF CallStep
<1> QED BY <1>1, <1>2

(* The tables are as they were. *)
LEMMA NlTableKept ==
    ASSUME TableInv, UNCHANGED <<flavour, kernel, wire, cache, told, overrun>>, Dumping => Dumping', UNCHANGED history
    PROVE  TableInv'
  BY DEF TableInv, Follows, Listens

(* The jobs are as they were. *)
LEMMA NlJobsKept ==
    ASSUME NlTypes, JobsInv, NEW c \in Callers, NEW n, call' = [call EXCEPT ![c] = n], call[c].at \notin {"signal", "spin"}, UNCHANGED <<jobs, wakeup, reactor>>
    PROVE  JobsInv'
<1>1. ASSUME NEW i \in 1..Len(jobs) PROVE jobs[i] \in Callers /\ jobs[i] # c /\ call'[jobs[i]] = call[jobs[i]]
  <2>1. jobs[i] \in Callers /\ call[jobs[i]].at \in {"signal", "spin"}
    BY DEF JobsInv, NlTypes
  <2> QED BY <2>1 DEF NlTypes
<1>2. DOMAIN jobs = 1..Len(jobs)
  BY DEF NlTypes
<1> QED BY <1>1, <1>2 DEF JobsInv, JobsNoticed

(* The answers are as they were, and c has none that it may not have. *)
LEMMA NlAnswersKept ==
    ASSUME NlTypes, AnswersInv, NEW c \in Callers, NEW n, call' = [call EXCEPT ![c] = n], UNCHANGED <<wire, history>>,
           \A s \in DOMAIN pending' : pending'[s] \in Errs => s \in DOMAIN pending /\ pending'[s] = pending[s],
           n.at = "idle" /\ n.res \in Errs => n.seq \in DOMAIN history.answers /\ n.res = history.answers[n.seq]
    PROVE  AnswersInv'
<1>1. call'[c] = n /\ \A d \in Callers : d # c => call'[d] = call[d]
  BY DEF NlTypes
<1>2. \A i \in 1..Len(wire') : wire'[i].type = "answer" => wire'[i].key \in DOMAIN history'.answers /\ wire'[i].val = history'.answers[wire'[i].key]
  BY DEF AnswersInv
<1>3. \A s \in DOMAIN pending' : pending'[s] \in Errs => s \in DOMAIN history'.answers /\ pending'[s] = history'.answers[s]
  BY DEF AnswersInv
<1>4. ASSUME NEW d \in Callers, call'[d].at = "idle", call'[d].res \in Errs PROVE call'[d].seq \in DOMAIN history'.answers /\ call'[d].res = history'.answers[call'[d].seq]
  BY <1>1, <1>4 DEF AnswersInv
<1> QED BY <1>2, <1>3, <1>4 DEF AnswersInv

(* A request begins. *)
LEMMA NlRequest ==
    ASSUME NetlinkInv, NEW c \in Callers, NEW o \in {"add", "set", "remove"}, NEW k \in NlKeys, NEW m \in Nat, NEW v \in NlValues \cup {0},
           o # "remove" => v \in NlValues, flavour # "route" => m = 0, Request(c, o, k, m, v)
    PROVE  NetlinkInv'
<1> USE DEF NetlinkInv
<1>1. PICK n : n = [NoCall EXCEPT !.at = "insert", !.op = o, !.key = k, !.metric = m, !.val = v, !.seq = seq + 1]
  OBVIOUS
<1>2. seq \in Nat /\ seq' = seq + 1 /\ call' = [call EXCEPT ![c] = n] /\ call[c].at = "idle"
      /\ UNCHANGED <<flavour, kernel, wire, overrun, cache, pending, jobs, wakeup, reactor, told, history>>
  BY <1>1 DEF Request, NlTypes
<1>3. n \in CallType /\ n.at = "insert" /\ n.op = o /\ n.key = k /\ n.metric = m /\ n.val = v /\ n.seq = seq + 1 /\ n.res = "none"
  <2>1. n = [at |-> "insert", op |-> o, key |-> k, val |-> v, metric |-> m, seq |-> seq + 1, res |-> "none"]
    BY <1>1 DEF NoCall
  <2> QED BY <1>2, <2>1 DEF CallType
<1>4. CallStep(c, n)
  BY <1>2, <1>3 DEF CallStep
<1>5. seq + 1 \notin DOMAIN history.answers
  BY <1>2 DEF CallsInv, Numbered
<1>6. CallInv(n, pending', history', flavour)
  BY <1>2, <1>3, <1>5 DEF CallInv, Unanswered, Written
<1>7. CallsInv' /\ call' \in [Callers -> CallType]
  BY <1>2, <1>3, <1>4, <1>6, NlCallStep
<1>8. JobsInv'
  BY <1>2, NlJobsKept
<1>9. AnswersInv'
  BY <1>2, <1>3, NlAnswersKept
<1>10. Dumping => Dumping'
  BY <1>2, <1>3, <1>4, NlDumping
<1>11. TableInv'
  BY <1>2, <1>10, NlTableKept
<1>12. NlTypes'
  BY <1>2, <1>7 DEF NlTypes
<1> QED BY <1>7, <1>8, <1>9, <1>11, <1>12

(* refresh: the cache is emptied, and a dump is to come. *)
LEMMA NlRefresh == ASSUME NetlinkInv, NEW c \in Callers, Refresh(c) PROVE NetlinkInv'
<1> USE DEF NetlinkInv
<1>1. PICK n : n = [NoCall EXCEPT !.at = "insert", !.op = "dump", !.seq = seq + 1]
  OBVIOUS
<1>2. seq \in Nat /\ seq' = seq + 1 /\ call' = [call EXCEPT ![c] = n] /\ call[c].at = "idle" /\ cache' = <<>>
      /\ UNCHANGED <<flavour, kernel, wire, overrun, pending, jobs, wakeup, reactor, told>>
  BY <1>1 DEF Refresh, NlTypes
<1>3. n \in CallType /\ n.at = "insert" /\ n.op = "dump" /\ n.metric = 0 /\ n.seq = seq + 1 /\ n.res = "none"
  <2>1. n = [at |-> "insert", op |-> "dump", key |-> "none", val |-> 0, metric |-> 0, seq |-> seq + 1, res |-> "none"]
    BY <1>1 DEF NoCall
  <2> QED BY <1>2, <2>1 DEF CallType
<1>4. history' \in NlHistory /\ history'.cleared = TRUE /\ history'.lost = history.lost /\ history'.shared = history.shared /\ history'.answers = history.answers
  BY DEF Refresh, NlTypes, NlHistory
<1>5. CallStep(c, n)
  BY <1>2, <1>3, <1>4 DEF CallStep
<1>6. seq + 1 \notin DOMAIN history.answers
  BY <1>2 DEF CallsInv, Numbered
<1>7. CallInv(n, pending', history', flavour)
  BY <1>2, <1>3, <1>4, <1>6 DEF CallInv, Unanswered, Written
<1>8. CallsInv' /\ call' \in [Callers -> CallType]
  BY <1>2, <1>3, <1>5, <1>7, NlCallStep
<1>9. JobsInv'
  BY <1>2, NlJobsKept
<1>10. call'[c] = n
  BY <1>2 DEF NlTypes
<1>11. AnswersInv'
  <2>1. \A d \in Callers : d # c => call'[d] = call[d]
    BY <1>2 DEF NlTypes
  <2> QED BY <1>2, <1>3, <1>4, <1>10, <2>1 DEF AnswersInv
<1>12. Dumping'
  BY <1>3, <1>4, <1>6, <1>10 DEF Dumping
<1>13. Follows'
  <2>1. ASSUME NEW k \in NlKeys \ history.shared, ~history.lost
        PROVE  Replays(wire, <<>>, k, Value(kernel, k)) \/ Replays(wire, <<>>, k, {})
    <3>1. Replays(wire, cache, k, Value(kernel, k)) \/ Replays(wire, cache, k, {})
      BY <2>1 DEF TableInv, Follows
    <3>2. PICK w, e, V : w = wire /\ e = cache /\ V = Value(kernel, k)
      OBVIOUS
    <3>3. w \in Seq(WireMsg)
      BY <3>2 DEF NlTypes
    <3>4. Replays(w, <<>>, k, V) \/ Replays(w, <<>>, k, {})
      BY <3>1, <3>2, <3>3, NlCleared
    <3> QED BY <3>2, <3>4
  <2> QED BY <1>2, <1>4, <1>12, <2>1 DEF Follows
<1>14. TableInv'
  <2>1. Listens'
    BY <1>4 DEF Listens
  <2> QED BY <1>2, <1>4, <1>13, <2>1 DEF TableInv
<1>15. NlTypes'
  <2>1. <<>> = [x \in DOMAIN <<>> |-> <<>>[x]]
    OBVIOUS
  <2>2. cache' = [x \in DOMAIN cache' |-> cache'[x]]
    BY <1>2, <2>1
  <2> QED BY <1>2, <1>4, <1>8, <2>2 DEF NlTypes
<1> QED BY <1>8, <1>9, <1>11, <1>14, <1>15

(* The request is entered in the table before it is written. *)
LEMMA NlInsert == ASSUME NetlinkInv, NEW c \in Callers, Insert(c) PROVE NetlinkInv'
<1> USE DEF NetlinkInv
<1>1. PICK a \in {"push", "write"} : a = IF call[c].op = "dump" THEN "push" ELSE "write"
  OBVIOUS
<1>2. PICK n : n = [call[c] EXCEPT !.at = a]
  OBVIOUS
<1>3. call' = [call EXCEPT ![c] = n] /\ n \in CallType /\ n.at = a
      /\ n.op = call[c].op /\ n.key = call[c].key /\ n.val = call[c].val /\ n.metric = call[c].metric /\ n.seq = call[c].seq /\ n.res = call[c].res
  <2>1. call' = [call EXCEPT ![c].at = a]
    BY <1>1 DEF Insert, Goes
  <2>2. NlTypes /\ a \in {"write", "push", "signal", "spin", "wait"}
    OBVIOUS
  <2> HIDE DEF NetlinkInv
  <2>3. /\ [call EXCEPT ![c].at = a] = [call EXCEPT ![c] = n] /\ n \in CallType /\ n.at = a
        /\ n.op = call[c].op /\ n.key = call[c].key /\ n.val = call[c].val /\ n.metric = call[c].metric /\ n.seq = call[c].seq /\ n.res = call[c].res
    BY <1>2, <2>2 DEF NlTypes, CallType
  <2> QED BY <2>1, <2>3
<1>4. call[c].at = "insert" /\ pending' = With(pending, n.seq, "waiting") /\ seq' = seq
      /\ UNCHANGED <<flavour, kernel, wire, overrun, cache, jobs, wakeup, reactor, told, history>>
  BY <1>3 DEF Insert, calling
<1>5. /\ DOMAIN pending' = DOMAIN pending \cup {n.seq} /\ pending' = [s \in DOMAIN pending' |-> pending'[s]]
      /\ pending'[n.seq] = "waiting" /\ \A s \in DOMAIN pending : s # n.seq => pending'[s] = pending[s]
  BY <1>4 DEF With
<1>6. CallInv(call[c], pending, history, flavour) /\ call[c].seq <= seq /\ seq \in Nat
  BY DEF CallsInv, Numbered, NlTypes
<1>7. CallStep(c, n)
  BY <1>3, <1>4, <1>5, <1>6 DEF CallStep, CallInv
<1>8. CallInv(n, pending', history', flavour)
  BY <1>1, <1>3, <1>4, <1>5, <1>6 DEF CallInv, Unanswered, Written, CallType
<1>9. CallsInv' /\ call' \in [Callers -> CallType]
  BY <1>3, <1>4, <1>6, <1>7, <1>8, NlCallStep
<1>10. JobsInv'
  BY <1>3, <1>4, NlJobsKept
<1>11. \A s \in DOMAIN pending' : pending'[s] \in Errs => s \in DOMAIN pending /\ pending'[s] = pending[s]
  BY <1>5 DEF Errs
<1>12. AnswersInv'
  BY <1>3, <1>1, <1>4, <1>11, NlAnswersKept
<1>13. Dumping => Dumping'
  BY <1>1, <1>3, <1>4, <1>7, NlDumping
<1>14. TableInv'
  BY <1>4, <1>13, NlTableKept
<1>15. NlTypes'
  <2>1. \A s \in DOMAIN pending' : pending'[s] \in {"waiting", "overrun"} \cup Errs
    BY <1>5 DEF NlTypes
  <2>2. pending' \in [DOMAIN pending' -> {"waiting", "overrun"} \cup Errs]
    BY <1>5, <2>1
  <2> QED BY <1>4, <1>9, <2>2 DEF NlTypes
<1> QED BY <1>9, <1>10, <1>12, <1>14, <1>15


(* The job of a dump is queued. *)
LEMMA NlPush == ASSUME NetlinkInv, NEW c \in Callers, PushJob(c) PROVE NetlinkInv'
<1>1. NlTypes /\ CallsInv /\ JobsInv /\ AnswersInv /\ TableInv
  BY DEF NetlinkInv
<1>2. PICK n : n = [call[c] EXCEPT !.at = "signal"]
  OBVIOUS
<1>3. call' = [call EXCEPT ![c] = n] /\ n \in CallType /\ n.at = "signal"
      /\ n.op = call[c].op /\ n.key = call[c].key /\ n.val = call[c].val /\ n.metric = call[c].metric /\ n.seq = call[c].seq /\ n.res = call[c].res
  BY <1>1, <1>2 DEF PushJob, Goes, NlTypes, CallType
<1>4. call[c].at = "push" /\ jobs' = Append(jobs, c) /\ UNCHANGED <<flavour, kernel, wire, overrun, cache, pending, wakeup, reactor, seq, told, history>>
  BY DEF PushJob
<1>5. CallInv(call[c], pending, history, flavour) /\ call[c].seq <= seq /\ seq \in Nat
  BY <1>1 DEF CallsInv, Numbered, NlTypes
<1>6. CallStep(c, n)
  BY <1>3, <1>4, <1>5 DEF CallStep, CallInv
<1>7. CallInv(n, pending', history', flavour)
  BY <1>3, <1>4, <1>5 DEF CallInv, Unanswered, Written
<1>8. CallsInv' /\ call' \in [Callers -> CallType]
  BY <1>1, <1>3, <1>4, <1>5, <1>6, <1>7, NlCallStep
<1>9. jobs \in Seq(Callers) /\ Len(jobs) \in Nat /\ jobs' \in Seq(Callers) /\ Len(jobs') = Len(jobs) + 1 /\ jobs'[Len(jobs) + 1] = c
      /\ \A i \in 1..Len(jobs) : jobs'[i] = jobs[i]
  BY <1>1, <1>4 DEF NlTypes
<1>10. call'[c] = n /\ n.res = "none"
  BY <1>1, <1>3, <1>4, <1>5 DEF NlTypes, CallInv
<1>11. ASSUME NEW i \in 1..Len(jobs) PROVE jobs[i] # c /\ call'[jobs[i]].at \in {"signal", "spin"} /\ call'[jobs[i]].res = "none"
  <2>1. jobs[i] \in Callers /\ call[jobs[i]].at \in {"signal", "spin"} /\ call[jobs[i]].res = "none"
    BY <1>1, <1>9 DEF JobsInv
  <2> QED BY <1>1, <1>3, <1>4, <2>1 DEF NlTypes
<1>12. JobsInv'
  <2>1. \A i \in 1..Len(jobs') : i \in 1..Len(jobs) \/ i = Len(jobs) + 1
    BY <1>9
  <2>2. \A i \in 1..Len(jobs') : call'[jobs'[i]].at \in {"signal", "spin"} /\ call'[jobs'[i]].res = "none"
    BY <1>3, <1>9, <1>10, <1>11, <2>1
  <2>3. \A i, j \in 1..Len(jobs') : jobs'[i] = jobs'[j] => i = j
    BY <1>1, <1>9, <1>11, <2>1 DEF JobsInv
  <2>4. JobsNoticed'
    <3>1. Len(jobs) + 1 \in DOMAIN jobs'
      BY <1>9
    <3> QED BY <1>3, <1>9, <1>10, <3>1 DEF JobsNoticed
  <2> QED BY <2>2, <2>3, <2>4 DEF JobsInv
<1>13. AnswersInv'
  BY <1>1, <1>3, <1>4, NlAnswersKept
<1>14. Dumping => Dumping'
  BY <1>1, <1>3, <1>4, <1>6, NlDumping
<1>15. TableInv'
  BY <1>1, <1>4, <1>14, NlTableKept
<1>16. NlTypes'
  BY <1>1, <1>4, <1>8, <1>9 DEF NlTypes
<1> QED BY <1>8, <1>12, <1>13, <1>15, <1>16 DEF NetlinkInv

(* The reactor is woken after the job was queued. *)
LEMMA NlSignal == ASSUME NetlinkInv, NEW c \in Callers, SignalJob(c) PROVE NetlinkInv'
<1>1. NlTypes /\ CallsInv /\ JobsInv /\ AnswersInv /\ TableInv
  BY DEF NetlinkInv
<1>2. PICK a \in {"wait", "spin"} : a = IF call[c].res = "written" THEN "wait" ELSE "spin"
  OBVIOUS
<1>3. PICK n : n = [call[c] EXCEPT !.at = a]
  OBVIOUS
<1>4. call[c].at = "signal" /\ wakeup' = TRUE /\ UNCHANGED <<flavour, kernel, wire, overrun, cache, pending, jobs, reactor, seq, told, history>>
  BY DEF SignalJob
<1>5. call' = [call EXCEPT ![c] = n] /\ n \in CallType /\ n.at = a
      /\ n.op = call[c].op /\ n.key = call[c].key /\ n.val = call[c].val /\ n.metric = call[c].metric /\ n.seq = call[c].seq /\ n.res = call[c].res
  <2>1. call' = [call EXCEPT ![c].at = a]
    BY <1>1, <1>2, <1>4 DEF SignalJob, NlTypes
  <2> QED BY <1>1, <1>2, <1>3, <2>1 DEF NlTypes, CallType
<1>6. CallInv(call[c], pending, history, flavour) /\ call[c].seq <= seq /\ seq \in Nat
  BY <1>1 DEF CallsInv, Numbered, NlTypes
<1>7. CallStep(c, n)
  BY <1>4, <1>5, <1>6 DEF CallStep, CallInv
<1>8. CallInv(n, pending', history', flavour)
  BY <1>2, <1>4, <1>5, <1>6 DEF CallInv, Unanswered, Written
<1>9. CallsInv' /\ call' \in [Callers -> CallType]
  BY <1>1, <1>4, <1>5, <1>6, <1>7, <1>8, NlCallStep
<1>10. JobsInv'
  <2>1. ASSUME NEW i \in 1..Len(jobs) PROVE call'[jobs[i]].at \in {"signal", "spin"} /\ call'[jobs[i]].res = "none"
    <3>1. jobs[i] \in Callers /\ call[jobs[i]].at \in {"signal", "spin"} /\ call[jobs[i]].res = "none"
      BY <1>1 DEF JobsInv, NlTypes
    <3>2. CASE jobs[i] = c
      <4>1. call'[c] = n
        BY <1>1, <1>5 DEF NlTypes
      <4> QED BY <1>2, <1>5, <3>1, <3>2, <4>1
    <3>3. CASE jobs[i] # c
      BY <1>1, <1>5, <3>1, <3>3 DEF NlTypes
    <3> QED BY <3>2, <3>3
  <2> QED BY <1>1, <1>4, <2>1 DEF JobsInv, JobsNoticed
<1>11. AnswersInv'
  BY <1>1, <1>2, <1>4, <1>5, NlAnswersKept
<1>12. Dumping => Dumping'
  BY <1>1, <1>2, <1>4, <1>5, <1>7, NlDumping
<1>13. TableInv'
  BY <1>1, <1>4, <1>12, NlTableKept
<1>14. NlTypes'
  BY <1>1, <1>4, <1>9 DEF NlTypes
<1> QED BY <1>9, <1>10, <1>11, <1>13, <1>14 DEF NetlinkInv

(* A wait ends with the answer to the request, or for another reason. *)
LEMMA NlWait ==
    ASSUME NetlinkInv, NEW c \in Callers, NEW r \in {"ok", "exists", "absent", "overrun", "timeout"}, WaitEnds(c, r)
    PROVE  NetlinkInv'
<1>1. NlTypes /\ CallsInv /\ JobsInv /\ AnswersInv /\ TableInv
  BY DEF NetlinkInv
<1>2. PICK n : n = [NoCall EXCEPT !.seq = call[c].seq, !.res = r]
  OBVIOUS
<1>3. /\ call[c].at = "wait" /\ call' = [call EXCEPT ![c] = n] /\ pending' = Without(pending, call[c].seq) /\ seq' = seq
      /\ UNCHANGED <<flavour, kernel, wire, overrun, cache, jobs, wakeup, reactor, told, history>>
      /\ r \in Errs => r = pending[call[c].seq]
  BY <1>2 DEF WaitEnds, calling, Reply, Errs
<1>4. call[c] \in CallType /\ call[c].seq \in Nat
  BY <1>1 DEF NlTypes, CallType
<1>5. n \in CallType /\ n.at = "idle" /\ n.op = "none" /\ n.metric = 0 /\ n.seq = call[c].seq /\ n.res = r
  <2>1. n = [at |-> "idle", op |-> "none", key |-> "none", val |-> 0, metric |-> 0, seq |-> call[c].seq, res |-> r]
    BY <1>2 DEF NoCall
  <2> QED BY <1>4, <2>1 DEF CallType, Errs
<1>6. CallInv(call[c], pending, history, flavour) /\ call[c].seq <= seq /\ seq \in Nat
  BY <1>1 DEF CallsInv, Numbered, NlTypes
<1>7. DOMAIN pending' = DOMAIN pending \ {n.seq} /\ \A s \in DOMAIN pending' : pending'[s] = pending[s]
  BY <1>3, <1>5 DEF Without, Restrict
<1>8. CallStep(c, n)
  BY <1>3, <1>5, <1>6, <1>7 DEF CallStep, CallInv
<1>9. CallInv(n, pending', history', flavour)
  BY <1>3, <1>5 DEF CallInv, Unanswered, Written
<1>10. CallsInv' /\ call' \in [Callers -> CallType]
  BY <1>1, <1>3, <1>5, <1>6, <1>8, <1>9, NlCallStep
<1>11. JobsInv'
  BY <1>1, <1>3, NlJobsKept
<1>12. n.res \in Errs => n.seq \in DOMAIN history.answers /\ n.res = history.answers[n.seq]
  <2>1. call[c].seq \in DOMAIN pending
    BY <1>3, <1>6 DEF CallInv
  <2> QED BY <1>1, <1>3, <1>5, <2>1 DEF AnswersInv
<1>13. AnswersInv'
  BY <1>1, <1>3, <1>7, <1>12, NlAnswersKept
<1>14. Dumping => Dumping'
  <2>1. call[c].seq \in DOMAIN history.answers
    BY <1>3, <1>6 DEF CallInv, Written
  <2> QED BY <1>1, <1>5, <1>8, <2>1, NlDumping
<1>15. TableInv'
  BY <1>1, <1>3, <1>14, NlTableKept
<1>16. NlTypes'
  <2>1. pending' \in [DOMAIN pending' -> {"waiting", "overrun"} \cup Errs]
    BY <1>1, <1>3 DEF Without, Restrict, NlTypes
  <2> QED BY <1>1, <1>3, <1>10, <2>1 DEF NlTypes
<1> QED BY <1>10, <1>11, <1>13, <1>15, <1>16 DEF NetlinkInv

(* The reactor's thread: the drain begins and ends, stop. *)
LEMMA NlReactor == ASSUME NetlinkInv, DrainBegins \/ DrainEnds \/ Stop PROVE NetlinkInv'
<1>1. NlTypes /\ CallsInv /\ JobsInv /\ AnswersInv /\ TableInv
  BY DEF NetlinkInv
<1>2. UNCHANGED <<flavour, kernel, wire, overrun, cache, pending, jobs, seq, call, told, history>>
  BY DEF DrainBegins, DrainEnds, Stop, calling
<1>3. NlTypes' /\ CallsInv' /\ AnswersInv'
  BY <1>1, <1>2 DEF NlTypes, CallsInv, Numbered, AnswersInv
<1>4. TableInv'
  BY <1>1, <1>2, NlTableKept DEF Dumping
<1>5. JobsNoticed'
  <2>1. CASE DrainBegins
    BY <2>1 DEF DrainBegins, JobsNoticed
  <2>2. CASE DrainEnds
    BY <2>2 DEF DrainEnds, JobsNoticed
  <2>3. CASE Stop
    <3>1. jobs = <<>>
      <4> SUFFICES ASSUME jobs # <<>> PROVE FALSE
        OBVIOUS
      <4>1. 1 \in 1..Len(jobs) /\ jobs[1] \in Callers
        BY <1>1 DEF NlTypes
      <4>2. call[jobs[1]].at \in {"signal", "spin"}
        BY <1>1, <4>1 DEF JobsInv
      <4> QED BY <2>3, <4>1, <4>2 DEF Stop
    <3> QED BY <1>2, <3>1 DEF JobsNoticed
  <2> QED BY <2>1, <2>2, <2>3
<1>6. JobsInv'
  BY <1>1, <1>2, <1>5 DEF JobsInv
<1> QED BY <1>3, <1>4, <1>6 DEF NetlinkInv

(* A read that fails: every request that waits fails with it. *)
LEMMA NlOverrun == ASSUME NetlinkInv, OnOverrun PROVE NetlinkInv'
<1>1. NlTypes /\ CallsInv /\ JobsInv /\ AnswersInv /\ TableInv
  BY DEF NetlinkInv
<1>2. /\ overrun /\ overrun' = FALSE /\ pending' = [p \in DOMAIN pending |-> "overrun"]
      /\ UNCHANGED <<flavour, kernel, wire, cache, reactor, call, told, history, jobs, wakeup, seq>>
  BY DEF OnOverrun, NotifyAllRequests, calling
<1>3. DOMAIN pending' = DOMAIN pending /\ pending' \in [DOMAIN pending' -> {"waiting", "overrun"} \cup Errs] /\ \A s \in DOMAIN pending' : pending'[s] = "overrun"
  BY <1>2
<1>4. history.lost
  BY <1>1, <1>2 DEF TableInv
<1>5. NlTypes'
  BY <1>1, <1>2, <1>3 DEF NlTypes
<1>6. CallsInv'
  BY <1>1, <1>2, <1>3 DEF CallsInv, CallInv, Numbered
<1>7. JobsInv'
  BY <1>1, <1>2 DEF JobsInv, JobsNoticed
<1>8. AnswersInv'
  <2>1. "overrun" \notin Errs
    BY DEF Errs
  <2> QED BY <1>1, <1>2, <1>3, <2>1 DEF AnswersInv
<1>9. TableInv'
  BY <1>1, <1>2, <1>4 DEF TableInv, Follows, Listens
<1> QED BY <1>5, <1>6, <1>7, <1>8, <1>9 DEF NetlinkInv


(* onReadable: a message is applied to the cache, told to the listeners, or given to the request it answers. *)
LEMMA NlMessage == ASSUME NetlinkInv, OnMessage PROVE NetlinkInv'
<1>1. NlTypes /\ CallsInv /\ JobsInv /\ AnswersInv /\ TableInv
  BY DEF NetlinkInv
<1>2. PICK w, m : w = wire /\ m = Head(wire)
  OBVIOUS
<1>3. w \in Seq(WireMsg) /\ w # <<>> /\ wire' = Tail(w) /\ UNCHANGED <<flavour, kernel, overrun, reactor, call, jobs, wakeup, seq>>
  BY <1>1, <1>2 DEF OnMessage, NlTypes, calling
<1>4. m = w[1] /\ 1 \in 1..Len(w) /\ m \in WireMsg /\ m.type \in {"new", "del", "answer"}
  <2>1. m = w[1] /\ 1 \in 1..Len(w)
    BY <1>2, <1>3
  <2>2. m \in WireMsg
    BY <1>3, <2>1
  <2> QED BY <2>1, <2>2 DEF WireMsg
<1>5. Tail(w) \in Seq(WireMsg) /\ Len(Tail(w)) = Len(w) - 1 /\ Len(w) \in Nat /\ \A i \in 1..Len(Tail(w)) : i + 1 \in 1..Len(w) /\ Tail(w)[i] = w[i + 1]
  BY <1>3
<1>6. m.type = "answer" => m.key \in DOMAIN history.answers /\ m.val = history.answers[m.key]
  BY <1>1, <1>2, <1>4 DEF AnswersInv
<1>7. history.answers \in [DOMAIN history.answers -> Errs] /\ history \in NlHistory
  BY <1>1 DEF NlTypes, NlHistory
<1>8. /\ m.type = "new" => cache' = With(cache, m.key, m.val) /\ told' = With(told, m.key, m.val) /\ UNCHANGED <<pending, history>>
      /\ m.type = "del" => OnDel(m.key) /\ UNCHANGED pending
      /\ m.type = "answer" => NotifyRequest(m.key, m.val) /\ UNCHANGED <<cache, told, history>>
  BY <1>2, <1>4 DEF OnMessage, OnNew
<1>9. Applied(cache, m, cache')
  BY <1>8 DEF Applied, OnDel
<1>10. /\ history' \in NlHistory /\ history'.answers = history.answers /\ history'.cleared = history.cleared /\ history'.lost = history.lost
       /\ history'.shared = history.shared
       /\ m.type # "del" => history'.nulls = history.nulls
       /\ m.type = "del" => (history'.nulls <=> history.nulls \/ (flavour = "link" /\ m.key \notin DOMAIN cache))
  <2>1. CASE m.type = "del"
    BY <1>7, <1>8, <2>1 DEF OnDel, NlHistory
  <2>2. CASE m.type # "del"
    BY <1>4, <1>7, <1>8, <2>2
  <2> QED BY <2>1, <2>2
<1>11. /\ DOMAIN pending' = DOMAIN pending /\ pending' \in [DOMAIN pending' -> {"waiting", "overrun"} \cup Errs]
       /\ \A s \in DOMAIN pending' : pending'[s] = pending[s] \/ (m.type = "answer" /\ s = m.key /\ pending'[s] = m.val)
  <2>1. CASE m.type = "answer"
    <3>1. pending' = [p \in DOMAIN pending |-> IF p = m.key THEN m.val ELSE pending[p]] /\ m.val \in Errs
      BY <1>6, <1>7, <1>8, <2>1 DEF NotifyRequest
    <3> QED BY <1>1, <2>1, <3>1 DEF NlTypes
  <2>2. CASE m.type # "answer"
    BY <1>1, <1>4, <1>8, <2>2 DEF NlTypes
  <2> QED BY <2>1, <2>2
<1>12. cache' = [x \in DOMAIN cache' |-> cache'[x]]
  <2>1. CASE m.type = "answer"
    BY <1>1, <1>8, <2>1 DEF NlTypes
  <2>2. CASE m.type = "new"
    BY <1>8, <2>2 DEF With
  <2>3. CASE m.type = "del"
    BY <1>8, <2>3 DEF OnDel, Without, Restrict
  <2> QED BY <1>4, <2>1, <2>2, <2>3
<1>13. NlTypes'
  BY <1>1, <1>3, <1>5, <1>10, <1>11, <1>12 DEF NlTypes
<1>14. CallsInv'
  BY <1>1, <1>3, <1>10, <1>11 DEF CallsInv, CallInv, Numbered
<1>15. JobsInv'
  BY <1>1, <1>3 DEF JobsInv, JobsNoticed
<1>16. AnswersInv'
  <2>1. \A i \in 1..Len(wire') : wire'[i].type = "answer" => wire'[i].key \in DOMAIN history'.answers /\ wire'[i].val = history'.answers[wire'[i].key]
    BY <1>1, <1>2, <1>3, <1>5, <1>10 DEF AnswersInv
  <2>2. \A s \in DOMAIN pending' : pending'[s] \in Errs => s \in DOMAIN history'.answers /\ pending'[s] = history'.answers[s]
    BY <1>1, <1>6, <1>10, <1>11 DEF AnswersInv
  <2> QED BY <1>1, <1>3, <1>10, <2>1, <2>2 DEF AnswersInv
<1>17. Follows'
  <2>1. PICK c, e : c = cache /\ e = cache'
    OBVIOUS
  <2>2. Applied(c, Head(w), e)
    BY <1>2, <1>9, <2>1
  <2>3. ASSUME NEW k, NEW V, Replays(w, c, k, V) PROVE Replays(Tail(w), e, k, V)
    BY <1>3, <2>2, <2>3, NlReads
  <2>4. Dumping' <=> Dumping
    BY <1>3, <1>10 DEF Dumping
  <2>5. ASSUME NEW k \in NlKeys \ history.shared, ~history.lost
        PROVE  Replays(wire', cache', k, Value(kernel, k)) \/ (Dumping /\ Replays(wire', cache', k, {}))
    <3>1. Replays(w, c, k, Value(kernel, k)) \/ (Dumping /\ Replays(w, c, k, {}))
      BY <1>1, <1>2, <2>1, <2>5 DEF TableInv, Follows
    <3> QED BY <1>3, <2>1, <2>3, <3>1
  <2> QED BY <1>3, <1>10, <2>4, <2>5 DEF Follows
<1>18. Listens'
  <2> SUFFICES ASSUME ~history.cleared, ~history.lost
               PROVE  told' = cache' /\ ~history'.nulls /\ (flavour = "link" => DelsKnown(wire', cache'))
    BY <1>3, <1>10 DEF Listens
  <2>1. told = cache /\ ~history.nulls /\ (flavour = "link" => DelsKnown(w, cache))
    BY <1>1, <1>2 DEF TableInv, Listens
  <2>2. PICK c, e : c = cache /\ e = cache'
    OBVIOUS
  <2>3. flavour = "link" => DelsKnown(Tail(w), e) /\ (m.type = "del" => m.key \in DOMAIN c)
    <3>1. Applied(c, Head(w), e) /\ m = Head(w)
      BY <1>2, <1>9, <2>2
    <3>2. flavour = "link" => DelsKnown(w, c)
      BY <2>1, <2>2
    <3> QED BY <1>3, <3>1, <3>2, NlDelsRead
  <2>4. told' = cache'
    <3>1. CASE m.type = "del"
      <4>1. cache' = Without(cache, m.key) /\ told' = IF m.key \in DOMAIN cache THEN Without(told, m.key) ELSE told
        BY <1>8, <3>1 DEF OnDel
      <4>2. m.key \notin DOMAIN cache => Without(cache, m.key) = cache
        <5>1. m.key \notin DOMAIN cache => DOMAIN cache \ {m.key} = DOMAIN cache
          OBVIOUS
        <5>2. cache = [x \in DOMAIN cache |-> cache[x]]
          BY <1>1 DEF NlTypes
        <5> QED BY <5>1, <5>2 DEF Without, Restrict
      <4> QED BY <2>1, <4>1, <4>2
    <3>2. CASE m.type = "new"
      BY <1>8, <2>1, <3>2
    <3>3. CASE m.type = "answer"
      BY <1>8, <2>1, <3>3
    <3> QED BY <1>4, <3>1, <3>2, <3>3
  <2> QED BY <1>3, <1>10, <2>1, <2>2, <2>3, <2>4
<1>19. TableInv'
  BY <1>1, <1>3, <1>10, <1>17, <1>18 DEF TableInv
<1> QED BY <1>13, <1>14, <1>15, <1>16, <1>19 DEF NetlinkInv

-----------------------------------------------------------------------------
(* The kernel executes a request: what it queues, with the answer behind the notifications. *)

(* The answer behind the notifications says nothing of a key. *)
LEMMA NlAnswered ==
    ASSUME NEW d \in Seq(WireMsg), NEW a \in WireMsg, a.type = "answer", NEW t, NEW u, NEW k
    PROVE  /\ Append(d, a) \in Seq(WireMsg)
           /\ Tells(d, t, u, k) => Tells(Append(d, a), t, u, k)
           /\ Dumps(d, t, k) => Dumps(Append(d, a), t, k)
<1>1. PICK x : x = Append(d, a) /\ x \in Seq(WireMsg) /\ Len(x) = Len(d) + 1 /\ (\A i \in 1..Len(d) : x[i] = d[i]) /\ x[Len(d) + 1] = a
  <2>1. Append(d, a) \in Seq(WireMsg) /\ Len(Append(d, a)) = Len(d) + 1 /\ (\A i \in 1..Len(d) : Append(d, a)[i] = d[i]) /\ Append(d, a)[Len(d) + 1] = a
    BY AppendProperties
  <2> QED BY <2>1, Zenon
<1>2. PICK n \in Nat : n = Len(d)
  OBVIOUS
<1>3. \A i \in 1..(n + 1) : (i \in 1..n /\ x[i] = d[i]) \/ (i = n + 1 /\ ~IsAbout(x[i], k))
  BY <1>1, <1>2 DEF IsAbout
<1>4. NoneAbout(d, k, 1, n) => NoneAbout(x, k, 1, n + 1)
  BY <1>3 DEF NoneAbout
<1>5. ASSUME NEW p \in 1..n, IsAbout(d[p], k), \A i \in 1..n : IsAbout(d[i], k) => i = p
      PROVE  p \in 1..(n + 1) /\ IsAbout(x[p], k) /\ (\A i \in 1..(n + 1) : IsAbout(x[i], k) => i = p) /\ x[p] = d[p]
  BY <1>1, <1>2, <1>3, <1>5
<1>6. Tells(d, t, u, k) => Tells(x, t, u, k)
  BY <1>1, <1>2, <1>4, <1>5 DEF Tells
<1>7. Dumps(d, t, k) => Dumps(x, t, k)
  BY <1>1, <1>2, <1>4, <1>5 DEF Dumps
<1> QED BY <1>1, <1>6, <1>7

(* A change that is told keeps cache and kernel together. *)
LEMMA NlTold ==
    ASSUME NEW w \in Seq(WireMsg), NEW d \in Seq(WireMsg), NEW c, NEW k, NEW t, NEW u
    PROVE  /\ Tells(d, t, u, k) /\ Replays(w, c, k, Value(t, k)) => Replays(w \o d, c, k, Value(u, k))
           /\ Tells(d, t, u, k) /\ Replays(w, c, k, {}) => Replays(w \o d, c, k, Value(u, k)) \/ Replays(w \o d, c, k, {})
           /\ Dumps(d, t, k) /\ (Replays(w, c, k, Value(t, k)) \/ Replays(w, c, k, {})) => Replays(w \o d, c, k, Value(t, k))
<1>1. ASSUME NoneAbout(d, k, 1, Len(d)), NEW V, Replays(w, c, k, V) PROVE Replays(w \o d, c, k, V)
  BY <1>1, NlQuiet
<1>2. ASSUME NEW V, \E p \in 1..Len(d) : IsAbout(d[p], k) /\ (\A i \in 1..Len(d) : IsAbout(d[i], k) => i = p) /\ Said(d[p]) = V
      PROVE  Replays(w \o d, c, k, V)
  <2>1. PICK p \in 1..Len(d) : IsAbout(d[p], k) /\ (\A i \in 1..Len(d) : IsAbout(d[i], k) => i = p) /\ Said(d[p]) = V
    BY <1>2
  <2>2. Replays(w \o d, c, k, Said(d[p]))
    BY <2>1, NlSays
  <2> QED BY <2>1, <2>2
<1>3. PICK x, A, B : x = w \o d /\ A = Value(t, k) /\ B = Value(u, k)
  OBVIOUS
<1>4. CASE NoneAbout(d, k, 1, Len(d))
  <2>1. \A V : Replays(w, c, k, V) => Replays(x, c, k, V)
    BY <1>1, <1>3, <1>4
  <2>2. \A p \in 1..Len(d) : ~IsAbout(d[p], k)
    BY <1>4 DEF NoneAbout
  <2>3. (Tells(d, t, u, k) => A = B) /\ (Dumps(d, t, k) => A = {})
    BY <1>3, <2>2 DEF Tells, Dumps
  <2> QED BY <1>3, <2>1, <2>3
<1>5. CASE ~NoneAbout(d, k, 1, Len(d))
  <2>1. Tells(d, t, u, k) => Replays(x, c, k, B)
    BY <1>2, <1>3, <1>5 DEF Tells
  <2>2. Dumps(d, t, k) => Replays(x, c, k, A)
    BY <1>2, <1>3, <1>5 DEF Dumps
  <2> QED BY <1>3, <2>1, <2>2
<1> QED BY <1>4, <1>5


(* No interface is in the table twice. *)
LEMMA NlFlat == ASSUME NEW u, KernelTable(u), FlatTable(u) PROVE SharedIn(u) = {}
<1> SUFFICES ASSUME NEW d \in DOMAIN u, NEW e \in DOMAIN u, d[1] = e[1] PROVE d = e
  BY DEF SharedIn
<1>1. d \in NlKeys \X Nat /\ e \in NlKeys \X Nat /\ d[2] = e[2]
  BY DEF KernelTable, FlatTable
<1> QED BY <1>1

(* The messages d are queued with the change of the table to u. *)
Change(d, u) ==
    /\ Queue(d) /\ kernel' = u /\ KernelTable(u) /\ UNCHANGED <<flavour, cache, told>>
    /\ history'.lost = (history.lost \/ overrun') /\ history'.shared = history.shared \cup SharedIn(u)
    /\ history'.cleared = history.cleared /\ history'.nulls = history.nulls
    /\ flavour # "route" => FlatTable(u)
    /\ flavour = "link" /\ ~history.cleared /\ ~history.lost => DelsKnown(wire \o d, cache)

LEMMA NlChange ==
    ASSUME NlTypes, TableInv, NEW d \in Seq(WireMsg), NEW u, Change(d, u),
           \/ (\A k \in NlKeys : Alone(kernel, k) /\ Alone(u, k) => Tells(d, kernel, u, k)) /\ (Dumping => Dumping')
           \/ (\A k \in NlKeys : Alone(kernel, k) => Dumps(d, kernel, k)) /\ u = kernel
    PROVE  TableInv'
<1>1. /\ wire' \in Seq(WireMsg) /\ overrun' \in BOOLEAN /\ (~overrun' => ~overrun /\ wire' = wire \o d)
  BY NlQueued DEF Change
<1>2. KernelTable(kernel') /\ (overrun' => history'.lost)
  BY DEF Change
<1>3. ASSUME NEW k \in NlKeys \ history'.shared PROVE Alone(u, k) /\ Alone(kernel, k) /\ k \in NlKeys \ history.shared
  <2>1. k \notin SharedIn(u) /\ k \in NlKeys /\ k \in NlKeys \ history.shared
    BY DEF Change
  <2>2. Alone(u, k)
    BY <2>1 DEF SharedIn, Alone
  <2> QED BY <2>1, <2>2 DEF TableInv
<1>4. flavour' # "route" => FlatTable(kernel') /\ history'.shared = {}
  <2>1. flavour # "route" => SharedIn(u) = {}
    BY NlFlat DEF Change
  <2> QED BY <2>1 DEF Change, TableInv
<1>5. ASSUME ~history'.lost PROVE ~history.lost /\ ~overrun' /\ wire' = wire \o d
  BY <1>1, <1>5 DEF Change, NlTypes
<1>6. Follows'
  <2> SUFFICES ASSUME ~history'.lost, NEW k \in NlKeys \ history'.shared
               PROVE  Replays(wire', cache', k, Value(kernel', k)) \/ (Dumping' /\ Replays(wire', cache', k, {}))
    BY DEF Follows
  <2>1. Replays(wire, cache, k, Value(kernel, k)) \/ (Dumping /\ Replays(wire, cache, k, {}))
    BY <1>3, <1>5 DEF TableInv, Follows
  <2>2. PICK w, c, t : w = wire /\ c = cache /\ t = kernel /\ w \in Seq(WireMsg)
    BY DEF NlTypes
  <2>3. wire' = w \o d /\ cache' = c /\ kernel' = u
    BY <1>5, <2>2 DEF Change
  <2>4. Replays(w, c, k, Value(t, k)) \/ (Dumping /\ Replays(w, c, k, {}))
    BY <2>1, <2>2
  <2>5. (Tells(d, t, u, k) /\ (Dumping => Dumping')) \/ (Dumps(d, t, k) /\ u = t)
    BY <1>3, <2>2
  <2>6. Replays(w \o d, c, k, Value(u, k)) \/ (Dumping' /\ Replays(w \o d, c, k, {}))
    <3>1. /\ Tells(d, t, u, k) /\ Replays(w, c, k, Value(t, k)) => Replays(w \o d, c, k, Value(u, k))
          /\ Tells(d, t, u, k) /\ Replays(w, c, k, {}) => Replays(w \o d, c, k, Value(u, k)) \/ Replays(w \o d, c, k, {})
          /\ Dumps(d, t, k) /\ (Replays(w, c, k, Value(t, k)) \/ Replays(w, c, k, {})) => Replays(w \o d, c, k, Value(t, k))
      BY <2>2, NlTold
    <3> QED BY <2>4, <2>5, <3>1
  <2> QED BY <2>3, <2>6
<1>7. Listens'
  <2> SUFFICES ASSUME ~history'.cleared, ~history'.lost
               PROVE  told' = cache' /\ ~history'.nulls /\ (flavour' = "link" => DelsKnown(wire', cache'))
    BY DEF Listens
  <2>1. ~history.cleared /\ ~history.lost /\ wire' = wire \o d
    BY <1>5 DEF Change
  <2>2. told = cache /\ ~history.nulls
    BY <2>1 DEF TableInv, Listens
  <2> QED BY <2>1, <2>2 DEF Change
<1> QED BY <1>2, <1>3, <1>4, <1>6, <1>7 DEF TableInv, Change

(* Only what is known is deleted, as long as no dump came between. *)
LEMMA NlNotified ==
    ASSUME NlTypes, TableInv, CallsInv, flavour = "link", ~history.cleared, ~history.lost, NEW r, r.msgs \in Seq(WireMsg), Notifies(kernel, r),
           NEW a \in WireMsg, a.type = "answer"
    PROVE  DelsKnown(wire \o r.msgs, cache) /\ DelsKnown(wire \o Append(r.msgs, a), cache)
<1>1. ~Dumping
  BY DEF CallsInv, CallInv, Dumping
<1>2. PICK w, c, d : w = wire /\ c = cache /\ d = r.msgs /\ w \in Seq(WireMsg) /\ d \in Seq(WireMsg) /\ DelsKnown(w, c)
  BY DEF NlTypes, TableInv, Listens
<1>3. \A k \in NlKeys : Replays(w, c, k, Value(kernel, k))
  BY <1>1, <1>2 DEF TableInv, Follows
<1>4. DelsKnown(w \o d, c)
  <2>1. CASE d = <<>>
    <3>1. w \o d = w
      BY <1>2, <2>1
    <3> QED BY <1>2, <3>1
  <2>2. CASE \E m \in WireMsg : d = <<m>> /\ (m.type = "del" => m.key \in NlKeys /\ Value(kernel, m.key) # {})
    <3>1. PICK m \in WireMsg : d = <<m>> /\ (m.type = "del" => m.key \in NlKeys /\ Value(kernel, m.key) # {})
      BY <2>2
    <3>2. PICK V : V = Value(kernel, m.key)
      OBVIOUS
    <3>3. m.type = "del" => Replays(w, c, m.key, V) /\ V # {}
      BY <1>3, <3>1, <3>2
    <3>4. DelsKnown(Append(w, m), c)
      BY <1>2, <3>3, NlDelsAppend
    <3>5. w \o d = Append(w, m)
      BY <1>2, <3>1
    <3> QED BY <3>4, <3>5
  <2> QED BY <1>2, <2>1, <2>2 DEF Notifies
<1>5. PICK x : x = w \o d /\ x \in Seq(WireMsg)
  <2>1. w \o d \in Seq(WireMsg)
    BY <1>2
  <2> QED BY <2>1, Zenon
<1>6. DelsKnown(Append(x, a), c)
  <2>1. a.type # "del"
    OBVIOUS
  <2> QED BY <1>4, <1>5, <2>1, NlDelsAppend
<1>7. w \o Append(d, a) = Append(x, a)
  BY <1>2, <1>5
<1> QED BY <1>2, <1>4, <1>6, <1>7

(* Other programs change the table. *)
LEMMA NlOther ==
    ASSUME NetlinkInv, NEW r, NlOutcome(kernel, r), Notifies(kernel, r), flavour # "route" => FlatTable(r.kernel), OtherProgram(r)
    PROVE  NetlinkInv'
<1>1. NlTypes /\ CallsInv /\ JobsInv /\ AnswersInv /\ TableInv
  BY DEF NetlinkInv
<1>2. Queue(r.msgs) /\ kernel' = r.kernel /\ UNCHANGED <<flavour, cache, pending, reactor, call, told, jobs, wakeup, seq>>
  BY DEF OtherProgram, calling
<1>3. history \in NlHistory /\ r.msgs \in Seq(WireMsg) /\ KernelTable(r.kernel)
  BY <1>1 DEF NlTypes, NlOutcome
<1>4. wire' \in Seq(WireMsg) /\ overrun' \in BOOLEAN
      /\ \A i \in 1..Len(wire') : (\E j \in 1..Len(wire) : wire'[i] = wire[j]) \/ (\E j \in 1..Len(r.msgs) : wire'[i] = r.msgs[j])
  BY <1>1, <1>2, <1>3, NlQueued
<1>5. SharedIn(r.kernel) \subseteq NlKeys
  BY DEF SharedIn
<1>6. /\ history' \in NlHistory /\ history'.lost = (history.lost \/ overrun') /\ history'.shared = history.shared \cup SharedIn(r.kernel)
      /\ history'.cleared = history.cleared /\ history'.nulls = history.nulls /\ history'.answers = history.answers
  <2>1. PICK l \in BOOLEAN : l = (history.lost \/ overrun')
    BY Zenon
  <2>2. history' = [history EXCEPT !.other = @ + 1, !.lost = l, !.shared = @ \cup SharedIn(r.kernel)]
    BY <2>1 DEF OtherProgram
  <2>3. history.other + 1 \in Nat /\ history.shared \cup SharedIn(r.kernel) \in SUBSET NlKeys
    BY <1>3, <1>5 DEF NlHistory
  <2>4. /\ history' \in NlHistory /\ history'.lost = l /\ history'.shared = history.shared \cup SharedIn(r.kernel)
        /\ history'.cleared = history.cleared /\ history'.nulls = history.nulls /\ history'.answers = history.answers
    BY <1>3, <2>2, <2>3 DEF NlHistory
  <2> QED BY <2>1, <2>4
<1>7. NlTypes'
  BY <1>1, <1>2, <1>4, <1>6 DEF NlTypes
<1>8. CallsInv'
  BY <1>1, <1>2, <1>6 DEF CallsInv, CallInv, Numbered
<1>9. JobsInv'
  BY <1>1, <1>2 DEF JobsInv, JobsNoticed
<1>10. AnswersInv'
  <2>1. \A j \in 1..Len(r.msgs) : r.msgs[j].type # "answer"
    <3>1. CASE r.msgs = <<>>
      BY <3>1
    <3>2. ASSUME NEW m \in WireMsg, m.type # "answer", r.msgs = <<m>> PROVE \A j \in 1..Len(r.msgs) : r.msgs[j].type # "answer"
      BY <3>2
    <3> QED BY <3>1, <3>2 DEF Notifies
  <2> QED BY <1>1, <1>2, <1>4, <1>6, <2>1 DEF AnswersInv
<1>11. Change(r.msgs, r.kernel)
  <2>1. ASSUME flavour = "link", ~history.cleared, ~history.lost PROVE DelsKnown(wire \o r.msgs, cache)
    <3>1. PICK a : a \in WireMsg /\ a.type = "answer"
      <4>1. Answer(0, "ok") \in WireMsg /\ Answer(0, "ok").type = "answer"
        BY DEF Answer, WireMsg, Errs
      <4> QED BY <4>1
    <3> QED BY <1>1, <1>3, <2>1, <3>1, NlNotified
  <2> QED BY <1>2, <1>3, <1>6, <2>1 DEF Change
<1>12. Dumping => Dumping'
  BY <1>2, <1>6 DEF Dumping
<1>13. TableInv'
  <2>1. \A k \in NlKeys : Alone(kernel, k) /\ Alone(r.kernel, k) => Tells(r.msgs, kernel, r.kernel, k)
    BY DEF NlOutcome
  <2> QED BY <1>1, <1>3, <1>11, <1>12, <2>1, NlChange
<1> QED BY <1>7, <1>8, <1>9, <1>10, <1>13 DEF NetlinkInv


(* The kernel's answer to a request that is no dump. *)
LEMMA NlExecuted ==
    ASSUME NlTypes, CallsInv, TableInv, NEW c \in Callers, call[c].op \in {"add", "set", "remove"}
    PROVE  LET r == Execute(call[c]) IN
           NlOutcome(kernel, r) /\ Notifies(kernel, r) /\ (flavour # "route" => FlatTable(r.kernel))
<1>1. CallInv(call[c], pending, history, flavour) /\ KernelTable(kernel) /\ (flavour # "route" => FlatTable(kernel) /\ call[c].metric = 0)
  BY DEF CallsInv, CallInv, TableInv
<1>2. call[c].metric \in Nat
  BY DEF NlTypes, CallType
<1>3. PICK r : r = Execute(call[c])
  OBVIOUS
<1>4. CASE call[c].op = "add"
  <2>1. call[c].key \in NlKeys /\ call[c].val \in NlValues /\ r = KernelAdd(call[c].key, call[c].metric, call[c].val)
    BY <1>1, <1>3, <1>4 DEF CallInv, Execute
  <2>2. NlOutcome(kernel, r) /\ Notifies(kernel, r) /\ (call[c].metric = 0 /\ FlatTable(kernel) => FlatTable(r.kernel))
    BY <1>1, <1>2, <2>1, NlAdd
  <2> QED BY <1>1, <1>3, <2>2
<1>5. CASE call[c].op = "set"
  <2>1. call[c].key \in NlKeys /\ call[c].val \in NlValues
        /\ r = IF flavour = "link" /\ Of(call[c].key) = {} THEN Refused("absent") ELSE KernelSet(call[c].key, call[c].metric, call[c].val)
    BY <1>1, <1>3, <1>5 DEF CallInv, Execute
  <2>2. CASE r = Refused("absent")
    <3>1. "absent" \in Errs
      BY DEF Errs
    <3>2. NlOutcome(kernel, r) /\ Notifies(kernel, r) /\ r.kernel = kernel
      BY <1>1, <2>2, <3>1, NlRefused
    <3> QED BY <1>1, <1>3, <3>2
  <2>3. CASE r = KernelSet(call[c].key, call[c].metric, call[c].val)
    <3>1. NlOutcome(kernel, r) /\ Notifies(kernel, r) /\ (call[c].metric = 0 /\ FlatTable(kernel) => FlatTable(r.kernel))
      BY <1>1, <1>2, <2>1, <2>3, NlSet
    <3> QED BY <1>1, <1>3, <3>1
  <2> QED BY <2>1, <2>2, <2>3
<1>6. CASE call[c].op = "remove"
  <2>1. call[c].key \in NlKeys /\ r = KernelDel(call[c].key)
    BY <1>1, <1>3, <1>6 DEF CallInv, Execute
  <2>2. NlOutcome(kernel, r) /\ Notifies(kernel, r) /\ (FlatTable(kernel) => FlatTable(r.kernel))
    BY <1>1, <2>1, NlDel
  <2> QED BY <1>1, <1>3, <2>2
<1> QED BY <1>4, <1>5, <1>6

(* A request is written: its answer is on the way, and no other answer changes. *)
LEMMA NlWrites ==
    ASSUME NlTypes, AnswersInv, NEW c \in Callers, WriteRequest(c), call[c].seq \notin DOMAIN history.answers,
           NEW r, r = Execute(call[c]), r.msgs \in Seq(WireMsg), r.err \in Errs, \A i \in 1..Len(r.msgs) : r.msgs[i].type # "answer",
           NEW a, a = Answer(call[c].seq, r.err), NEW d, d = Append(r.msgs, a)
    PROVE  /\ a \in WireMsg /\ a.type = "answer" /\ d \in Seq(WireMsg) /\ Queue(d) /\ kernel' = r.kernel
           /\ wire' \in Seq(WireMsg) /\ overrun' \in BOOLEAN
           /\ history' \in NlHistory /\ history'.lost = (history.lost \/ overrun') /\ history'.shared = history.shared \cup SharedIn(r.kernel)
           /\ history'.cleared = history.cleared /\ history'.nulls = history.nulls
           /\ DOMAIN history'.answers = DOMAIN history.answers \cup {call[c].seq}
           /\ \A s \in DOMAIN history.answers : history'.answers[s] = history.answers[s]
           /\ \A i \in 1..Len(wire') : wire'[i].type = "answer" => wire'[i].key \in DOMAIN history'.answers /\ wire'[i].val = history'.answers[wire'[i].key]
<1>1. PICK s \in Nat : s = call[c].seq
  BY DEF NlTypes, CallType
<1>2. a \in WireMsg /\ a.type = "answer" /\ a.key = s /\ a.val = r.err
  BY <1>1 DEF Answer, WireMsg
<1>3. d \in Seq(WireMsg) /\ Len(d) = Len(r.msgs) + 1 /\ Len(r.msgs) \in Nat /\ (\A i \in 1..Len(r.msgs) : d[i] = r.msgs[i]) /\ d[Len(r.msgs) + 1] = a
  <2>1. Append(r.msgs, a) \in Seq(WireMsg) /\ Len(Append(r.msgs, a)) = Len(r.msgs) + 1 /\ (\A i \in 1..Len(r.msgs) : Append(r.msgs, a)[i] = r.msgs[i])
        /\ Append(r.msgs, a)[Len(r.msgs) + 1] = a
    BY <1>2, AppendProperties
  <2> QED BY <2>1
<1>4. Queue(d) /\ kernel' = r.kernel
  BY DEF WriteRequest
<1>5. wire' \in Seq(WireMsg) /\ overrun' \in BOOLEAN
      /\ \A i \in 1..Len(wire') : (\E j \in 1..Len(wire) : wire'[i] = wire[j]) \/ (\E j \in 1..Len(d) : wire'[i] = d[j])
  BY <1>3, <1>4, NlQueued
<1>6. SharedIn(r.kernel) \subseteq NlKeys /\ history \in NlHistory
  BY DEF SharedIn, NlTypes
<1>7. PICK l \in BOOLEAN : l = (history.lost \/ overrun')
  BY Zenon
<1>8. PICK b : b = With(history.answers, s, r.err)
  OBVIOUS
<1>9. DOMAIN b = DOMAIN history.answers \cup {s} /\ b[s] = r.err /\ (\A x \in DOMAIN history.answers : x # s => b[x] = history.answers[x])
      /\ b = [x \in DOMAIN b |-> b[x]]
  BY <1>8 DEF With
<1>10. DOMAIN history.answers \in SUBSET Nat /\ \A x \in DOMAIN history.answers : history.answers[x] \in Errs
  <2>1. history.answers \in UNION {[S -> Errs] : S \in SUBSET Nat}
    BY <1>6 DEF NlHistory
  <2>2. PICK S \in SUBSET Nat : history.answers \in [S -> Errs]
    BY <2>1
  <2> QED BY <2>2
<1>11. b \in UNION {[S -> Errs] : S \in SUBSET Nat}
  <2>1. DOMAIN b \in SUBSET Nat /\ \A x \in DOMAIN b : b[x] \in Errs
    BY <1>1, <1>9, <1>10
  <2>2. b \in [DOMAIN b -> Errs]
    BY <1>9, <2>1
  <2> QED BY <2>1, <2>2
<1>12. history' = [history EXCEPT !.lost = l, !.answers = b, !.shared = @ \cup SharedIn(r.kernel)]
  BY <1>1, <1>7, <1>8 DEF WriteRequest
<1>13. /\ history' \in NlHistory /\ history'.lost = l /\ history'.shared = history.shared \cup SharedIn(r.kernel)
       /\ history'.cleared = history.cleared /\ history'.nulls = history.nulls /\ history'.answers = b
  <2>1. history.shared \cup SharedIn(r.kernel) \in SUBSET NlKeys
    BY <1>6 DEF NlHistory
  <2> QED BY <1>6, <1>11, <1>12, <2>1 DEF NlHistory
<1>14. ASSUME NEW i \in 1..Len(wire'), wire'[i].type = "answer" PROVE wire'[i].key \in DOMAIN b /\ wire'[i].val = b[wire'[i].key]
  <2>1. CASE \E j \in 1..Len(wire) : wire'[i] = wire[j]
    <3>1. wire'[i].key \in DOMAIN history.answers /\ wire'[i].val = history.answers[wire'[i].key]
      BY <1>14, <2>1 DEF AnswersInv
    <3> QED BY <1>1, <1>9, <3>1
  <2>2. CASE \E j \in 1..Len(d) : wire'[i] = d[j]
    <3>1. PICK j \in 1..Len(d) : wire'[i] = d[j]
      BY <2>2
    <3>2. j = Len(r.msgs) + 1
      <4>1. j \in 1..Len(r.msgs) \/ j = Len(r.msgs) + 1
        BY <1>3
      <4> QED BY <1>3, <1>14, <3>1, <4>1
    <3>3. wire'[i] = a
      BY <1>3, <3>1, <3>2
    <3> QED BY <1>2, <1>9, <3>3
  <2> QED BY <1>5, <2>1, <2>2
<1> QED BY <1>1, <1>2, <1>3, <1>4, <1>5, <1>7, <1>9, <1>13, <1>14

(* An answer more does not touch those there are. *)
LEMMA NlAnswersGrow ==
    ASSUME NlTypes, AnswersInv, NEW c \in Callers, NEW n, call' = [call EXCEPT ![c] = n], n.at # "idle", UNCHANGED pending,
           DOMAIN history.answers \subseteq DOMAIN history'.answers, \A s \in DOMAIN history.answers : history'.answers[s] = history.answers[s],
           \A i \in 1..Len(wire') : wire'[i].type = "answer" => wire'[i].key \in DOMAIN history'.answers /\ wire'[i].val = history'.answers[wire'[i].key]
    PROVE  AnswersInv'
<1>1. call'[c] = n /\ \A d \in Callers : d # c => call'[d] = call[d]
  BY DEF NlTypes
<1>2. \A s \in DOMAIN pending' : pending'[s] \in Errs => s \in DOMAIN history'.answers /\ pending'[s] = history'.answers[s]
  BY DEF AnswersInv
<1>3. ASSUME NEW d \in Callers, call'[d].at = "idle", call'[d].res \in Errs PROVE call'[d].seq \in DOMAIN history'.answers /\ call'[d].res = history'.answers[call'[d].seq]
  BY <1>1, <1>3 DEF AnswersInv
<1> QED BY <1>2, <1>3 DEF AnswersInv

LEMMA NlSend == ASSUME NetlinkInv, NEW c \in Callers, SendDirect(c) PROVE NetlinkInv'
<1>1. NlTypes /\ CallsInv /\ JobsInv /\ AnswersInv /\ TableInv
  BY DEF NetlinkInv
<1>2. call[c].at = "write" /\ WriteRequest(c) /\ Goes(c, "wait") /\ UNCHANGED <<flavour, cache, pending, reactor, told, jobs, wakeup, seq>>
  BY DEF SendDirect, calling
<1>3. CallInv(call[c], pending, history, flavour) /\ call[c].seq <= seq /\ seq \in Nat
  BY <1>1 DEF CallsInv, Numbered, NlTypes
<1>4. call[c].op \in {"add", "set", "remove"} /\ call[c].seq \notin DOMAIN history.answers /\ call[c].seq > 0 /\ call[c].seq \in DOMAIN pending
  BY <1>2, <1>3 DEF CallInv, Unanswered
<1>5. PICK r, a, d : r = Execute(call[c]) /\ a = Answer(call[c].seq, r.err) /\ d = Append(r.msgs, a)
  OBVIOUS
<1>6. NlOutcome(kernel, r) /\ Notifies(kernel, r) /\ (flavour # "route" => FlatTable(r.kernel))
  BY <1>1, <1>4, <1>5, NlExecuted
<1>7. r.msgs \in Seq(WireMsg) /\ r.err \in Errs /\ KernelTable(r.kernel)
  BY <1>6 DEF NlOutcome
<1>8. \A j \in 1..Len(r.msgs) : r.msgs[j].type # "answer"
  <2>1. CASE r.msgs = <<>>
    BY <2>1
  <2>2. ASSUME NEW m \in WireMsg, m.type # "answer", r.msgs = <<m>> PROVE \A j \in 1..Len(r.msgs) : r.msgs[j].type # "answer"
    BY <2>2
  <2> QED BY <1>6, <2>1, <2>2 DEF Notifies
<1>9. /\ a \in WireMsg /\ a.type = "answer" /\ d \in Seq(WireMsg) /\ Queue(d) /\ kernel' = r.kernel
      /\ wire' \in Seq(WireMsg) /\ overrun' \in BOOLEAN
      /\ history' \in NlHistory /\ history'.lost = (history.lost \/ overrun') /\ history'.shared = history.shared \cup SharedIn(r.kernel)
      /\ history'.cleared = history.cleared /\ history'.nulls = history.nulls
      /\ DOMAIN history'.answers = DOMAIN history.answers \cup {call[c].seq}
      /\ \A s \in DOMAIN history.answers : history'.answers[s] = history.answers[s]
      /\ \A i \in 1..Len(wire') : wire'[i].type = "answer" => wire'[i].key \in DOMAIN history'.answers /\ wire'[i].val = history'.answers[wire'[i].key]
  BY <1>1, <1>2, <1>4, <1>5, <1>7, <1>8, NlWrites
<1>10. PICK n : n = [call[c] EXCEPT !.at = "wait"]
  OBVIOUS
<1>11. call' = [call EXCEPT ![c] = n] /\ n \in CallType /\ n.at = "wait"
       /\ n.op = call[c].op /\ n.key = call[c].key /\ n.val = call[c].val /\ n.metric = call[c].metric /\ n.seq = call[c].seq /\ n.res = call[c].res
  BY <1>1, <1>2, <1>10 DEF Goes, NlTypes, CallType
<1>12. CallStep(c, n)
  BY <1>2, <1>3, <1>4, <1>9, <1>11 DEF CallStep
<1>13. CallInv(n, pending', history', flavour)
  BY <1>2, <1>3, <1>4, <1>9, <1>11 DEF CallInv, Unanswered, Written
<1>14. CallsInv' /\ call' \in [Callers -> CallType]
  BY <1>1, <1>2, <1>3, <1>11, <1>12, <1>13, NlCallStep
<1>15. JobsInv'
  BY <1>1, <1>2, <1>11, NlJobsKept
<1>16. AnswersInv'
  BY <1>1, <1>2, <1>9, <1>11, NlAnswersGrow
<1>17. Dumping => Dumping'
  BY <1>1, <1>4, <1>11, <1>12, NlDumping
<1>18. Change(d, r.kernel)
  <2>1. flavour = "link" /\ ~history.cleared /\ ~history.lost => DelsKnown(wire \o d, cache)
    BY <1>1, <1>5, <1>6, <1>7, <1>9, NlNotified
  <2> QED BY <1>2, <1>6, <1>7, <1>9, <2>1 DEF Change
<1>19. TableInv'
  <2>1. ASSUME NEW k \in NlKeys, Alone(kernel, k), Alone(r.kernel, k) PROVE Tells(d, kernel, r.kernel, k)
    <3>1. Tells(r.msgs, kernel, r.kernel, k)
      BY <1>6, <2>1 DEF NlOutcome
    <3> QED BY <1>5, <1>7, <1>9, <3>1, NlAnswered
  <2> QED BY <1>1, <1>9, <1>17, <1>18, <2>1, NlChange
<1>20. NlTypes'
  BY <1>1, <1>2, <1>9, <1>14 DEF NlTypes
<1> QED BY <1>14, <1>15, <1>16, <1>19, <1>20 DEF NetlinkInv


(* The reactor thread writes a dump: every entry is told of once more. *)
LEMMA NlRun == ASSUME NetlinkInv, RunJob PROVE NetlinkInv'
<1>1. NlTypes /\ CallsInv /\ JobsInv /\ AnswersInv /\ TableInv
  BY DEF NetlinkInv
<1>2. PICK c, q : c = Head(jobs) /\ q = Tail(jobs)
  OBVIOUS
<1>3. /\ reactor = "drain" /\ WriteRequest(c) /\ jobs' = q /\ UNCHANGED <<flavour, cache, pending, wakeup, reactor, seq, told>>
      /\ call' = [call EXCEPT ![c].at = IF @ = "spin" THEN "wait" ELSE @, ![c].res = "written"]
  BY <1>2 DEF RunJob
<1>4. jobs \in Seq(Callers) /\ jobs # <<>>
  BY <1>1 DEF RunJob, NlTypes
<1>5. /\ c \in Callers /\ c = jobs[1] /\ 1 \in 1..Len(jobs) /\ q \in Seq(Callers) /\ Len(jobs) \in Nat /\ Len(q) = Len(jobs) - 1
      /\ \A i \in 1..Len(q) : i + 1 \in 1..Len(jobs) /\ q[i] = jobs[i + 1] /\ q[i] \in Callers
  BY <1>2, <1>4
<1>6. call[c].at \in {"signal", "spin"} /\ call[c].res = "none"
  BY <1>1, <1>5 DEF JobsInv
<1>7. CallInv(call[c], pending, history, flavour) /\ call[c].seq <= seq /\ seq \in Nat
  BY <1>1, <1>5 DEF CallsInv, Numbered, NlTypes
<1>8. call[c].op = "dump" /\ call[c].seq \notin DOMAIN history.answers /\ call[c].seq > 0 /\ call[c].seq \in DOMAIN pending /\ history.cleared
  BY <1>6, <1>7 DEF CallInv, Unanswered
<1>9. PICK r, a, d : r = Execute(call[c]) /\ a = Answer(call[c].seq, r.err) /\ d = Append(r.msgs, a)
  OBVIOUS
<1>10. r = KernelDump
  BY <1>8, <1>9 DEF Execute
<1>11. KernelTable(kernel)
  BY <1>1 DEF TableInv
<1>12. /\ r.kernel = kernel /\ r.msgs \in Seq(WireMsg) /\ r.err \in Errs /\ (\A i \in 1..Len(r.msgs) : r.msgs[i].type # "answer")
       /\ \A k \in NlKeys : Alone(kernel, k) => Dumps(r.msgs, kernel, k)
  BY <1>10, <1>11, NlDump
<1>13. /\ a \in WireMsg /\ a.type = "answer" /\ d \in Seq(WireMsg) /\ Queue(d) /\ kernel' = r.kernel
       /\ wire' \in Seq(WireMsg) /\ overrun' \in BOOLEAN
       /\ history' \in NlHistory /\ history'.lost = (history.lost \/ overrun') /\ history'.shared = history.shared \cup SharedIn(r.kernel)
       /\ history'.cleared = history.cleared /\ history'.nulls = history.nulls
       /\ DOMAIN history'.answers = DOMAIN history.answers \cup {call[c].seq}
       /\ \A s \in DOMAIN history.answers : history'.answers[s] = history.answers[s]
       /\ \A i \in 1..Len(wire') : wire'[i].type = "answer" => wire'[i].key \in DOMAIN history'.answers /\ wire'[i].val = history'.answers[wire'[i].key]
  <2>1. c \in Callers /\ WriteRequest(c) /\ call[c].seq \notin DOMAIN history.answers
    BY <1>3, <1>5, <1>8
  <2>2. r.msgs \in Seq(WireMsg) /\ r.err \in Errs /\ \A i \in 1..Len(r.msgs) : r.msgs[i].type # "answer"
    BY <1>12
  <2> QED BY <1>1, <1>9, <2>1, <2>2, NlWrites
<1>14. PICK t \in {"wait", "signal"} : t = IF call[c].at = "spin" THEN "wait" ELSE call[c].at
  BY <1>6
<1>15. PICK n : n = [call[c] EXCEPT !.at = t, !.res = "written"]
  OBVIOUS
<1>16. call' = [call EXCEPT ![c] = n] /\ n \in CallType /\ n.at = t /\ n.res = "written"
       /\ n.op = call[c].op /\ n.key = call[c].key /\ n.val = call[c].val /\ n.metric = call[c].metric /\ n.seq = call[c].seq
  <2>1. call \in [Callers -> CallType] /\ call[c] \in CallType
    BY <1>1, <1>5 DEF NlTypes
  <2>2. call' = [call EXCEPT ![c] = n]
    BY <1>3, <1>5, <1>14, <1>15, <2>1
  <2>3. n \in CallType /\ n.at = t /\ n.res = "written"
        /\ n.op = call[c].op /\ n.key = call[c].key /\ n.val = call[c].val /\ n.metric = call[c].metric /\ n.seq = call[c].seq
    BY <1>14, <1>15, <2>1 DEF CallType
  <2> QED BY <2>2, <2>3
<1>17. CallStep(c, n)
  <2>1. DOMAIN pending' = DOMAIN pending /\ seq' = seq /\ flavour' = flavour
    BY <1>3
  <2>2. DOMAIN history.answers \subseteq DOMAIN history'.answers /\ DOMAIN history'.answers \subseteq DOMAIN history.answers \cup {n.seq}
    BY <1>13, <1>16
  <2>3. n.seq > 0 /\ n.seq <= seq' /\ seq <= seq' /\ n.seq = call[c].seq
    BY <1>7, <1>8, <1>16, <2>1
  <2> QED BY <1>13, <1>16, <2>1, <2>2, <2>3 DEF CallStep
<1>18. CallInv(n, pending', history', flavour)
  BY <1>3, <1>7, <1>8, <1>13, <1>14, <1>16 DEF CallInv, Unanswered, Written
<1>19. CallsInv' /\ call' \in [Callers -> CallType]
  BY <1>1, <1>3, <1>5, <1>7, <1>16, <1>17, <1>18, NlCallStep
<1>20. JobsInv'
  <2>1. ASSUME NEW i \in 1..Len(q) PROVE q[i] # c /\ call'[q[i]] = call[q[i]] /\ call[q[i]].at \in {"signal", "spin"} /\ call[q[i]].res = "none"
    <3>1. q[i] # c
      BY <1>1, <1>5 DEF JobsInv
    <3>2. call'[q[i]] = call[q[i]]
      BY <1>1, <1>5, <1>16, <3>1 DEF NlTypes
    <3> QED BY <1>1, <1>5, <3>1, <3>2 DEF JobsInv
  <2>2. ASSUME NEW i \in 1..Len(q), NEW j \in 1..Len(q), q[i] = q[j] PROVE i = j
    <3>1. i + 1 \in 1..Len(jobs) /\ j + 1 \in 1..Len(jobs) /\ jobs[i + 1] = jobs[j + 1]
      BY <1>5, <2>2
    <3>2. i + 1 = j + 1
      BY <1>1, <3>1 DEF JobsInv
    <3> QED BY <3>2
  <2>3. JobsNoticed'
    BY <1>3 DEF JobsNoticed
  <2> QED BY <1>3, <2>1, <2>2, <2>3 DEF JobsInv
<1>21. AnswersInv'
  BY <1>1, <1>3, <1>5, <1>13, <1>14, <1>16, NlAnswersGrow
<1>22. Change(d, kernel)
  <2>1. flavour # "route" => FlatTable(kernel)
    BY <1>1 DEF TableInv
  <2> QED BY <1>3, <1>8, <1>11, <1>12, <1>13, <2>1 DEF Change
<1>23. TableInv'
  <2>1. ASSUME NEW k \in NlKeys, Alone(kernel, k) PROVE Dumps(d, kernel, k)
    BY <1>9, <1>12, <1>13, <2>1, NlAnswered
  <2> QED BY <1>1, <1>13, <1>22, <2>1, NlChange
<1>24. NlTypes'
  BY <1>1, <1>3, <1>5, <1>13, <1>19 DEF NlTypes
<1> QED BY <1>19, <1>20, <1>21, <1>23, <1>24 DEF NetlinkInv

(* Every step of the managers, of the kernel and of other programs. *)
LEMMA NlNext == NetlinkInv /\ [NetlinkNext]_netlinkVars => NetlinkInv'
<1> SUFFICES ASSUME NetlinkInv, [NetlinkNext]_netlinkVars PROVE NetlinkInv'
  OBVIOUS
<1>1. flavour \in {"link", "neighbor", "route"} /\ KernelTable(kernel) /\ (flavour # "route" => FlatTable(kernel)) /\ Metrics \subseteq Nat
  BY NetlinkAssumption DEF NetlinkInv, NlTypes, TableInv
<1>2. ASSUME NEW k \in NlKeys, NEW m \in MetricsOf, NEW v \in NlValues, OtherProgram(KernelSet(k, m, v)) PROVE NetlinkInv'
  <2>1. m \in Nat /\ (flavour # "route" => m = 0)
    BY <1>1 DEF MetricsOf
  <2>2. PICK r : r = KernelSet(k, m, v)
    OBVIOUS
  <2>3. NlOutcome(kernel, r) /\ Notifies(kernel, r) /\ (m = 0 /\ FlatTable(kernel) => FlatTable(r.kernel))
    BY <1>1, <2>1, <2>2, NlSet
  <2> QED BY <1>1, <1>2, <2>1, <2>2, <2>3, NlOther
<1>3. ASSUME NEW k \in NlKeys, OtherProgram(KernelDel(k)) PROVE NetlinkInv'
  <2>1. PICK r : r = KernelDel(k)
    OBVIOUS
  <2>2. NlOutcome(kernel, r) /\ Notifies(kernel, r) /\ (FlatTable(kernel) => FlatTable(r.kernel))
    BY <1>1, <2>1, NlDel
  <2> QED BY <1>1, <1>3, <2>1, <2>2, NlOther
<1>4. ASSUME NEW c \in Callers, NEW k \in NlKeys, NEW v \in NlValues,
             AddNeighbor(c, k, v) \/ SetNeighbor(c, k, v) \/ CreateInterface(c, k, v) \/ SetInterface(c, k, v)
      PROVE  NetlinkInv'
  <2>1. PICK o \in {"add", "set"} : Request(c, o, k, 0, v)
    BY <1>4 DEF AddNeighbor, SetNeighbor, CreateInterface, SetInterface
  <2>2. o \in {"add", "set", "remove"} /\ o # "remove" /\ 0 \in Nat
    BY <2>1
  <2> QED BY <2>1, <2>2, NlRequest
<1>5. ASSUME NEW c \in Callers, NEW k \in NlKeys, NEW v \in NlValues, NEW m \in Metrics, AddRoute(c, k, m, v) \/ SetRoute(c, k, m, v) PROVE NetlinkInv'
  <2>1. PICK o \in {"add", "set"} : Request(c, o, k, m, v)
    BY <1>5 DEF AddRoute, SetRoute
  <2>2. o \in {"add", "set", "remove"} /\ o # "remove" /\ m \in Nat /\ flavour = "route"
    BY <1>1, <1>5, <2>1 DEF AddRoute, SetRoute
  <2> QED BY <2>1, <2>2, NlRequest
<1>6. ASSUME NEW c \in Callers, NEW k \in NlKeys, RemoveNeighbor(c, k) \/ RemoveRoute(c, k) \/ RemoveInterface(c, k) PROVE NetlinkInv'
  <2>1. Request(c, "remove", k, 0, 0) /\ 0 \in Nat /\ "remove" \in {"add", "set", "remove"} /\ 0 \in NlValues \cup {0}
    BY <1>6 DEF RemoveNeighbor, RemoveRoute, RemoveInterface
  <2> QED BY <2>1, NlRequest
<1>7. ASSUME NEW c \in Callers, Refresh(c) \/ Insert(c) \/ SendDirect(c) \/ PushJob(c) \/ SignalJob(c) PROVE NetlinkInv'
  BY <1>7, NlRefresh, NlInsert, NlSend, NlPush, NlSignal
<1>8. ASSUME NEW c \in Callers, NEW r \in {"ok", "exists", "absent", "overrun", "timeout"}, WaitEnds(c, r) PROVE NetlinkInv'
  BY <1>8, NlWait
<1>9. CASE DrainBegins \/ RunJob \/ DrainEnds \/ OnMessage \/ OnOverrun \/ Stop
  BY <1>9, NlReactor, NlRun, NlMessage, NlOverrun
<1>10. CASE UNCHANGED netlinkVars
  BY <1>10 DEF netlinkVars, NetlinkInv, NlTypes, CallsInv, Numbered, JobsInv, JobsNoticed, AnswersInv, TableInv, Follows, Listens, Dumping
<1> QED BY <1>2, <1>3, <1>4, <1>5, <1>6, <1>7, <1>8, <1>9, <1>10 DEF NetlinkNext

(* The last message about a key, said in the two ways. *)
LEMMA NlReplays == ASSUME wire \in Seq(WireMsg), NEW k, NEW V, Replays(wire, cache, k, V) PROVE ReplaysTo(k, V)
<1>1. DOMAIN wire = 1..Len(wire) /\ Len(wire) \in Nat
  OBVIOUS
<1>2. \A i : i \in About(k) <=> i \in 1..Len(wire) /\ IsAbout(wire[i], k)
  BY <1>1 DEF About, IsAbout
<1>3. CASE NoneAbout(wire, k, 1, Len(wire)) /\ Held(cache, k) = V
  BY <1>2, <1>3 DEF NoneAbout, ReplaysTo
<1>4. ASSUME NEW i \in 1..Len(wire), IsAbout(wire[i], k), NoneAbout(wire, k, i + 1, Len(wire)), Said(wire[i]) = V PROVE ReplaysTo(k, V)
  <2>1. ASSUME NEW j \in About(k) PROVE j <= i
    <3>1. j \in 1..Len(wire) /\ IsAbout(wire[j], k)
      BY <1>2
    <3>2. j > i => j \in (i + 1)..Len(wire)
      BY <1>1, <3>1
    <3> QED BY <1>1, <1>4, <3>1, <3>2 DEF NoneAbout
  <2>2. i \in About(k)
    BY <1>2, <1>4
  <2> QED BY <1>4, <2>1, <2>2 DEF ReplaysTo
<1> QED BY <1>3, <1>4 DEF Replays

LEMMA NlHolds == NetlinkInv => CacheFollowsKernel /\ OwnAnswer /\ JobsNoticed /\ ListenersKeepUp
<1> SUFFICES ASSUME NetlinkInv PROVE CacheFollowsKernel /\ OwnAnswer /\ JobsNoticed /\ ListenersKeepUp
  OBVIOUS
<1>1. wire \in Seq(WireMsg) /\ CallsInv /\ JobsInv /\ AnswersInv /\ TableInv
  BY DEF NetlinkInv, NlTypes
<1>2. CacheFollowsKernel
  <2> SUFFICES ASSUME ~history.lost, ~Dumping, NEW k \in NlKeys \ history.shared PROVE ReplaysTo(k, Held(Table, k))
    BY DEF CacheFollowsKernel
  <2>1. Alone(kernel, k) /\ Replays(wire, cache, k, Value(kernel, k))
    BY <1>1 DEF TableInv, Follows
  <2>2. PICK V : V = Value(kernel, k) /\ V = Held(Table, k)
    BY <2>1, NlTable
  <2> QED BY <1>1, <2>1, <2>2, NlReplays
<1>3. OwnAnswer
  BY <1>1 DEF AnswersInv, OwnAnswer, Errs
<1>4. JobsNoticed /\ ListenersKeepUp
  BY <1>1 DEF JobsInv, TableInv, Listens, ListenersKeepUp
<1> QED BY <1>2, <1>3, <1>4

(***************************************************************************)
(* The managers' caches follow the kernel, for any tables, threads and     *)
(* other programs: with the messages on the socket read, the cache holds   *)
(* under a key what the kernel does (unless a message was lost, a dump is  *)
(* to come, or the key ever had two entries); a thread's result is the     *)
(* kernel's answer to its own request; no job waits unnoticed; listeners   *)
(* were told what the cache holds.                                         *)
(***************************************************************************)
THEOREM FabricCachesFollow == Spec => []CachesFollowKernel
<1>1. Init => NetlinkInv
  BY NlInitInv DEF Init
<1>2. NetlinkInv /\ [Next]_vars => NetlinkInv'
  <2> SUFFICES ASSUME NetlinkInv, [Next]_vars PROVE NetlinkInv'
    OBVIOUS
  <2>1. [NetlinkNext]_netlinkVars
    BY DEF Next, vars, InNetlink, InTables, InPing, InPath, InNames, InDot, InArp, InDhcp
  <2> QED BY <2>1, NlNext
<1>3. NetlinkInv => CachesFollowKernel
  BY NlHolds DEF CachesFollowKernel
<1> QED BY <1>1, <1>2, <1>3, PTL DEF Spec
=============================================================================
