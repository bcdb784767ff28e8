------------------------------ MODULE Fabric ------------------------------
(***************************************************************************)
(* The network services of the fabric library: the netlink manager and the *)
(* messages of its tables, ping and the probes of a path, name resolution  *)
(* and the framing of DNS over TLS, ARP and DHCP.  They have no state in   *)
(* common; part says which of them a behaviour exercises.                  *)
(***************************************************************************)
EXTENDS NetlinkManager, Ping, NameResolution, Arp, Dhcp

CONSTANT Parts    \* bound: the parts examined

VARIABLE part

vars == <<part, netlinkVars, tableVars, pingVars, pathVars, nameVars, dotVars, arpVars, dhcpVars>>

Init ==
    /\ part \in Parts
    /\ NetlinkInit /\ TableInit /\ PingInit /\ PathInit /\ NameInit
    /\ DotInit /\ ArpInit /\ DhcpInit
    /\ part = "netlink" \/ flavour = "link"
    /\ part = "path" \/ (goal = "mtu" /\ path = CHOOSE p \in Paths : TRUE)
    /\ part = "names" \/ (through = "resolver" /\ topic = "address")

InNetlink(A) ==
    /\ part = "netlink" /\ A
    /\ UNCHANGED <<part, tableVars, pingVars, pathVars, nameVars, dotVars, arpVars, dhcpVars>>
InTables(A) ==
    /\ part = "tables" /\ A
    /\ UNCHANGED <<part, netlinkVars, pingVars, pathVars, nameVars, dotVars, arpVars, dhcpVars>>
InPing(A) ==
    /\ part = "ping" /\ A
    /\ UNCHANGED <<part, netlinkVars, tableVars, pathVars, nameVars, dotVars, arpVars, dhcpVars>>
InPath(A) ==
    /\ part = "path" /\ A
    /\ UNCHANGED <<part, netlinkVars, tableVars, pingVars, nameVars, dotVars, arpVars, dhcpVars>>
InNames(A) ==
    /\ part = "names" /\ A
    /\ UNCHANGED <<part, netlinkVars, tableVars, pingVars, pathVars, dotVars, arpVars, dhcpVars>>
InDot(A) ==
    /\ part = "dot" /\ A
    /\ UNCHANGED <<part, netlinkVars, tableVars, pingVars, pathVars, nameVars, arpVars, dhcpVars>>
InArp(A) ==
    /\ part = "arp" /\ A
    /\ UNCHANGED <<part, netlinkVars, tableVars, pingVars, pathVars, nameVars, dotVars, dhcpVars>>
InDhcp(A) ==
    /\ part = "dhcp" /\ A
    /\ UNCHANGED <<part, netlinkVars, tableVars, pingVars, pathVars, nameVars, dotVars, arpVars>>

Next ==
    \/ InNetlink(NetlinkNext) \/ InTables(TableNext) \/ InPing(PingNext)
    \/ InPath(PathNext) \/ InNames(NameNext) \/ InDot(DotNext)
    \/ InArp(ArpNext) \/ InDhcp(DhcpNext)

Spec == Init /\ [][Next]_vars

----------------------------------------------------------------------------
(***************************************************************************)
(* The managers under notifications, dumps, requests and a receive buffer  *)
(* that overflows: the cache is the kernel's table as far as its messages  *)
(* were read, listeners were told what it holds, an answer is the caller's *)
(* own, and no job waits without a wakeup.                                 *)
(***************************************************************************)
CachesFollowKernel == CacheFollowsKernel /\ OwnAnswer /\ JobsNoticed /\ ListenersKeepUp

(***************************************************************************)
(* onLinkMessage, onAddressMessage and the others: an entry mirrors the    *)
(* kernel's, but for what no message says, and listeners are told of       *)
(* changes and of nothing else.                                            *)
(***************************************************************************)
EntriesReadRight == [](EntriesMirrored /\ AddressesMirrored) /\ FlagsAreChanges

(***************************************************************************)
(* Ping, the resolvers, Arp and Dhcp share one shape: a thread enters a    *)
(* request in a table and waits, the reactor's thread matches what arrives *)
(* and wakes it.  A thread is given an answer to what it asked, under the  *)
(* exceptions the parts name; the table holds the requests that wait, and  *)
(* nothing else.                                                           *)
(***************************************************************************)
AnswersReachAskers ==
    /\ OwnEcho /\ PendingAreWaiting /\ RepliesCounted
    /\ AnswersById /\ WatchedWhenConnected /\ TabledAreAsked
    /\ MacsAnnounced /\ SeekersWait
    /\ ExchangesAnswered /\ ReasonExplains

(***************************************************************************)
(* BasicTlsResolver: however the connection cuts what is read and written, *)
(* messages are delivered and sent whole.                                  *)
(***************************************************************************)
FramesWhole == ReadsWhole /\ WritesWhole

(***************************************************************************)
(* Ping::pathMtu finds the smallest MTU of the path, and trace tells of    *)
(* its hops in order, when the network does not lose too much.             *)
(***************************************************************************)
PathFound == PathMtuExact /\ TraceInOrder
=============================================================================
