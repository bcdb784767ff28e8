-------------------------------- MODULE Arp ---------------------------------
(***************************************************************************)
(* Hardware addresses looked up through one Arp object that threads share  *)
(* (fabric/arp.hpp, arp.cpp): from the neighbour table, or with a request  *)
(* on the link whose reply the reactor thread matches by the IP address.   *)
(* Hosts answer late, several times, unasked, or not at all.               *)
(***************************************************************************)
EXTENDS Integers, Sequences, Functions

CONSTANTS Seekers, HostIps, Macs, NoMac,
          MaxReplies      \* bound: replies on the link

VARIABLES neighbors,   \* ip -> [mac, valid]: entries of the neighbour table
          seeking,     \* thread -> its call of get or request
          seekers,     \* ip -> PendingRequest (_pending): the mac it was given
          replies,     \* ARP replies on the link
          heard        \* history: <<ip, mac>> received since the thread asked
arpVars == <<neighbors, seeking, seekers, replies, heard>>

IdleSeek == [at |-> "idle", ip |-> CHOOSE i \in HostIps : TRUE, mac |-> NoMac, from |-> "none"]

Entered(f, x, v) == [y \in DOMAIN f \cup {x} |-> IF y = x THEN v ELSE f[y]]

\* addNeighbor and removeNeighbor, permanent and waited for; the kernel's own entries may be invalid.
AddEntry(ip, mac, valid) == neighbors' = Entered(neighbors, ip, [mac |-> mac, valid |-> valid])
ArpAdd(ip, mac) == AddEntry(ip, mac, TRUE) /\ UNCHANGED <<seeking, seekers, replies, heard>>
ArpRemove(ip) == ip \in DOMAIN neighbors /\ neighbors' = Restrict(neighbors, DOMAIN neighbors \ {ip}) /\ UNCHANGED <<seeking, seekers, replies, heard>>
EntryFails(ip, mac) == ip \notin DOMAIN neighbors /\ AddEntry(ip, mac, FALSE) /\ UNCHANGED <<seeking, seekers, replies, heard>>

CachedMac(ip) == IF ip \in DOMAIN neighbors /\ neighbors[ip].valid THEN neighbors[ip].mac ELSE NoMac

\* get: the cache first, and a request when it has nothing.
ArpGet(t, ip) ==
    /\ seeking[t].at = "idle"
    /\ seeking' = [seeking EXCEPT ![t] = [IdleSeek EXCEPT !.ip = ip, !.mac = CachedMac(ip), !.from = "cache",
                                          !.at = IF CachedMac(ip) = NoMac THEN "request" ELSE "idle"]]
    /\ heard' = [heard EXCEPT ![t] = {}]
    /\ UNCHANGED <<neighbors, seekers, replies>>

\* request, under the lock until the wait: a second one for the same address is refused.
ArpRequest(t) ==
    LET ip == seeking[t].ip IN
    /\ seeking[t].at = "request"
    /\ IF ip \in DOMAIN seekers
       THEN seeking' = [seeking EXCEPT ![t].at = "idle", ![t].from = "refused"] /\ UNCHANGED seekers
       ELSE /\ seeking' = [seeking EXCEPT ![t].at = "wait", ![t].from = "request"]
            /\ seekers' = Entered(seekers, ip, NoMac)
    /\ UNCHANGED <<neighbors, replies, heard>>

HostReplies(ip, mac) ==
    /\ Len(replies) < MaxReplies /\ replies' = Append(replies, <<ip, mac>>)
    /\ UNCHANGED <<neighbors, seeking, seekers, heard>>

Hears == heard' = [t \in Seekers |-> IF seeking[t].at \in {"wait", "woken", "late"} THEN heard[t] \cup {Head(replies)} ELSE heard[t]]
Wakes(ips) == seeking' = [t \in Seekers |-> IF seeking[t].at = "wait" /\ seeking[t].ip \in ips THEN [seeking[t] EXCEPT !.at = "woken"] ELSE seeking[t]]
\* Whoever waits for the sender's address is given its mac, over an earlier one too.
OnReply ==
    LET ip == Head(replies)[1] IN
    /\ replies # <<>> /\ replies' = Tail(replies) /\ Hears
    /\ seekers' = [i \in DOMAIN seekers |-> IF i = ip THEN Head(replies)[2] ELSE seekers[i]] /\ Wakes({ip})
    /\ UNCHANGED neighbors

\* The wait ends late, or by itself: it has no predicate.
SeekEnds(t, how) == seeking[t].at = "wait" /\ seeking' = [seeking EXCEPT ![t].at = how] /\ UNCHANGED <<neighbors, seekers, replies, heard>>
ArpReturns(t) ==
    /\ seeking[t].at \in {"woken", "late"}
    /\ seeking' = [seeking EXCEPT ![t].at = "idle", ![t].mac = IF seeking[t].at = "late" THEN NoMac ELSE seekers[seeking[t].ip]]
    /\ seekers' = Restrict(seekers, DOMAIN seekers \ {seeking[t].ip})
    /\ UNCHANGED <<neighbors, replies, heard>>

ArpInit ==
    /\ neighbors = <<>> /\ seekers = <<>> /\ replies = <<>>
    /\ seeking = [t \in Seekers |-> IdleSeek] /\ heard = [t \in Seekers |-> {}]
ArpNext ==
    \/ \E ip \in HostIps : ArpRemove(ip) \/ \E mac \in Macs : ArpAdd(ip, mac) \/ EntryFails(ip, mac) \/ HostReplies(ip, mac)
    \/ \E t \in Seekers : ArpRequest(t) \/ ArpReturns(t) \/ (\E ip \in HostIps : ArpGet(t, ip)) \/ (\E how \in {"woken", "late"} : SeekEnds(t, how))
    \/ OnReply

----------------------------------------------------------------------------
(***************************************************************************)
(* A request returns a hardware address only if a reply that arrived while *)
(* it waited gave that address for the very IP address it asked for, never *)
(* what was said of another host, or before; a wait that ended by itself   *)
(* returns no address.                                                     *)
(***************************************************************************)
MacsAnnounced ==
    \A t \in Seekers : (seeking[t].at = "idle" /\ seeking[t].from = "request" /\ seeking[t].mac # NoMac) =>
        <<seeking[t].ip, seeking[t].mac>> \in heard[t]

(***************************************************************************)
(* One thread at a time waits for an address, and an address with nobody   *)
(* waiting for it can be asked for again: no failure or timeout leaves its *)
(* entry behind.                                                           *)
(***************************************************************************)
SeekersWait ==
    LET waiting == {t \in Seekers : seeking[t].at \in {"wait", "woken", "late"}} IN
    /\ DOMAIN seekers = {seeking[t].ip : t \in waiting}
    /\ \A t, u \in waiting : seeking[t].ip = seeking[u].ip => t = u
=============================================================================
