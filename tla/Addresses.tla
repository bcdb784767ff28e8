----------------------------- MODULE Addresses -----------------------------
(***************************************************************************)
(* IpAddress and MacAddress (core/ip_address.cpp, core/mac_address.cpp),   *)
(* byte by byte and with their real widths: netmasks and prefixes,         *)
(* classification, the order maps and caches rely on, and the arithmetic   *)
(* of hardware addresses.  Parsing and printing are the C library's.       *)
(***************************************************************************)
EXTENDS Integers, Sequences, FiniteSets, Probe
LOCAL INSTANCE SequencesExt
LOCAL INSTANCE Bitwise

CONSTANTS Bytes0, Bytes1, BytesN, Steps    \* bound: values of the bytes, increments of a MAC address

Ip(fam, bytes, scope) == [fam |-> fam, bytes |-> bytes, scope |-> scope]
LengthOf(fam) == IF fam = 4 THEN 4 ELSE 16
Clip(n) == IF n < 0 THEN 0 ELSE IF n > 8 THEN 8 ELSE n

PopCount(b) == Cardinality({k \in 0..7 : (b \div 2 ^ k) % 2 = 1})
WordBits(bytes, w) == PopCount(bytes[4*w+1]) + PopCount(bytes[4*w+2]) + PopCount(bytes[4*w+3]) + PopCount(bytes[4*w+4])

\* ~((1 << (32 - prefix)) - 1), byte by byte.
V4Netmask(p) == [i \in 1..4 |-> 256 - 2 ^ (8 - Clip(p - 8 * (i - 1)))]
\* Whole bytes of ones, then 0xff << (8 - prefix).
V6Netmask(p) == [i \in 1..16 |-> (255 * 2 ^ (8 - Clip(p - 8 * (i - 1)))) % 256]
Netmask(p, fam) == Ip(fam, IF fam = 4 THEN V4Netmask(p) ELSE V6Netmask(p), 0)

V4Prefix(bytes) == WordBits(bytes, 0)

\* The last word that has a bit set says where the prefix ends.
V6Prefix(bytes) ==
    LET used == {w \in 0..3 : WordBits(bytes, w) > 0}
    IN  IF used = {} THEN 0
        ELSE LET w == CHOOSE w \in used : \A v \in used : v <= w IN 32 * (w + 1) - (32 - WordBits(bytes, w))
Prefix(a) == IF a.fam = 4 THEN V4Prefix(a.bytes) ELSE V6Prefix(a.bytes)

\* Word by word in the code; the operators throw for two families, and keep the first scope.
Combine(a, bytes) == Ip(a.fam, SubSeq(bytes, 1, LengthOf(a.fam)), a.scope)
BitAnd(a, b) == Combine(a, [i \in DOMAIN a.bytes |-> a.bytes[i] & b.bytes[i]])
BitOr(a, b) == Combine(a, [i \in DOMAIN a.bytes |-> a.bytes[i] | b.bytes[i]])
BitXor(a, b) == Combine(a, [i \in DOMAIN a.bytes |-> a.bytes[i] ^^ b.bytes[i]])
BitNot(a) == Combine(a, [i \in DOMAIN a.bytes |-> 255 - a.bytes[i]])

\* isBroadcast: all ones, or all ones after the prefix.
IsBroadcast(a, p) ==
    /\ a.fam = 4
    /\ \/ \A i \in 1..4 : a.bytes[i] = 255
       \/ p \in 0..32 /\ a.bytes = BitOr(BitAnd(a, Netmask(p, 4)), BitNot(Netmask(p, 4))).bytes

Zeros(bytes, n) == \A i \in 1..n : bytes[i] = 0

V4Classes(bytes) ==
    LET hi == 256 * bytes[1] + bytes[2] IN    \* the comparisons only look at the upper half
    {c \in {"wildcard", "loopback", "link", "unique", "multicast"} :
        CASE c = "wildcard" -> Zeros(bytes, 4)
          [] c = "loopback" -> bytes = <<127, 0, 0, 1>>
          [] c = "link" -> hi = 43518
          [] c = "unique" -> hi \div 256 = 10 \/ hi = 49320 \/ (hi >= 44048 /\ hi <= 44063)
          [] OTHER -> bytes[1] \div 16 = 14}

V6Classes(bytes) ==
    {c \in {"wildcard", "loopback", "link", "site", "unique", "multicast"} :
        CASE c = "wildcard" -> Zeros(bytes, 16)
          [] c = "loopback" -> Zeros(bytes, 15) /\ bytes[16] = 1
          [] c = "link" -> bytes[1] = 254 /\ bytes[2] \div 64 = 2
          [] c = "site" -> bytes[1] = 254 /\ bytes[2] \div 64 = 3
          [] c = "unique" -> bytes[1] \div 2 = 126
          [] OTHER -> bytes[1] = 255}

\* isUnicast and isGlobal, and the dispatch of the others on the family.
Classes(a) ==
    LET cs == (IF a.fam = 4 THEN V4Classes(a.bytes) ELSE V6Classes(a.bytes))
                  \cup (IF IsBroadcast(a, 0) THEN {"broadcast"} ELSE {})
    IN  cs \cup (IF cs = {} THEN {"global"} ELSE {})

Ipv4Compat(a) == a.fam = 4 \/ (Zeros(a.bytes, 12) /\ ~(Zeros(a.bytes, 15) /\ a.bytes[16] <= 1))
Ipv4Mapped(a) == a.fam = 4 \/ (Zeros(a.bytes, 10) /\ a.bytes[11] = 255 /\ a.bytes[12] = 255)
ToIpv6(a) ==
    IF a.fam = 4 THEN Ip(6, [i \in 1..16 |-> IF i > 12 THEN a.bytes[i - 12] ELSE IF i > 10 THEN 255 ELSE 0], 0) ELSE a
ToIpv4(a) == IF a.fam = 6 /\ (Ipv4Compat(a) \/ Ipv4Mapped(a)) THEN Ip(4, SubSeq(a.bytes, 13, 16), 0) ELSE a

\* memcmp
BytesLess(x, y) == \E i \in 1..Len(x) : x[i] < y[i] /\ \A j \in 1..i - 1 : x[j] = y[j]

IpEqual(a, b) == a.fam = b.fam /\ a.scope = b.scope /\ a.bytes = b.bytes
IpLess(a, b) ==
    IF a.fam # b.fam THEN LengthOf(a.fam) < LengthOf(b.fam)
    ELSE IF a.scope # b.scope THEN a.scope < b.scope ELSE BytesLess(a.bytes, b.bytes)

\* toIpv6: the prefix, and the EUI-64 of the hardware address.
MacToIpv6(mac, prefix, len) ==
    LET net == BitAnd(prefix, Netmask(len, 6))
    IN  [net EXCEPT !.bytes = SubSeq(@, 1, 8) \o <<mac[1] ^^ 2, mac[2], mac[3], 255, 254, mac[4], mac[5], mac[6]>>]
ToLinkLocalIpv6(mac) == MacToIpv6(mac, Ip(6, [i \in 1..16 |-> IF i = 1 THEN 254 ELSE IF i = 2 THEN 128 ELSE 0], 0), 10)
ToUniqueLocalIpv6(mac, rnd) == MacToIpv6(mac, Ip(6, [i \in 1..16 |-> IF i = 1 THEN 253 ELSE IF i \in 2..6 THEN rnd ELSE 0], 0), 48)

\* The constructors: by family (an invalid one throws) and from
\* a text, tried as IPv6 first; IPv4 text given for IPv6 is mapped.
Wildcard(fam) == Ip(fam, [i \in 1..LengthOf(fam) |-> 0], 0)
FromTextAs(text, fam) ==
    CASE text.is = "empty" -> <<Wildcard(fam)>>
      [] fam = 6 /\ text.is = "ip" -> <<ToIpv6(text.ip)>>
      [] fam = 4 /\ text.is = "ip" /\ text.ip.fam = 4 -> <<text.ip>>
      [] OTHER -> <<>>
FromText(text) ==
    CASE text.is = "empty" -> <<Wildcard(6)>>
      [] text.is = "ip" -> <<text.ip>>
      [] OTHER -> <<>>

\* BasicInternetEndpoint: a sockaddr_storage, which the IPv4 and the IPv6 setters share: the
\* IPv4 address lies where the IPv6 flow information does, the port is common.
NewEndpoint(fam) == [fam |-> fam, port |-> 0, flow |-> <<0, 0, 0, 0>>, six |-> Wildcard(6).bytes, scope |-> 0]
SetIp(e, a) == IF a.fam = 6 THEN [e EXCEPT !.fam = 6, !.six = a.bytes, !.scope = a.scope]
               ELSE [e EXCEPT !.fam = 4, !.flow = a.bytes]
SetPort(e, p) == [e EXCEPT !.port = p]
SetDevice(e, index) == IF e.fam = 6 THEN [e EXCEPT !.scope = index] ELSE e
GetIp(e) == IF e.fam = 6 THEN Ip(6, e.six, e.scope) ELSE Ip(4, e.flow, 0)
ApplyOp(e, op) ==
    CASE op[1] = "ip" -> SetIp(e, op[2]) [] op[1] = "port" -> SetPort(e, op[2]) [] OTHER -> SetDevice(e, op[2])

\* C's division truncates towards zero.
CDiv(x, y) == IF x >= 0 THEN x \div y ELSE -((-x) \div y)

\* Mutant: the last byte takes it all.
MacPlusNoCarry(mac, value) == [mac EXCEPT ![6] = (@ + value) % 256]

\* operator +=: one byte after the other, from the last, while something is carried.
MacPlus(mac, value) ==
    LET sum[pos \in 0..6, carry \in Int] ==
            IF pos = 0 \/ carry = 0 THEN <<>>
            ELSE <<<<pos, (mac[pos] + carry) % 256>>>> \o sum[pos - 1, CDiv(mac[pos] + carry, 256)]
        done == sum[6, value]
    IN  [i \in 1..6 |-> IF \E k \in 1..Len(done) : done[k][1] = i THEN done[7 - i][2] ELSE mac[i]]

-----------------------------------------------------------------------------
Sample4 == {Ip(4, <<a, b, c, d>>, 0) : a \in Bytes0, b \in Bytes1, c \in {0, 255}, d \in {0, 1, 255}}
Sample6 == {Ip(6, <<a, b, 0, 0, 0, 0, 0, c, 0, 0, e, e, d, 0, 0, d>>, s) :
                a \in {0, 252, 253, 254, 255}, b \in {0, 128, 192}, c \in {0, 255}, d \in BytesN, e \in {0, 255}, s \in 0..1}
Ordered == {Ip(4, <<0, 0, 0, d>>, 0) : d \in {0, 1}} \cup {Ip(6, [i \in 1..16 |-> IF i = k THEN d ELSE 0], s) :
                k \in {1, 16}, d \in {0, 255}, s \in 0..1}
Macs == {<<a, 0, b, c, d, d>> : a \in {0, 2}, b \in BytesN, c \in {0, 255}, d \in BytesN}

EndpointOps == {<<"ip", a>> : a \in Ordered} \cup {<<"port", 80>>, <<"device", 2>>}
Texts == {[is |-> "empty"], [is |-> "junk"]} \cup {[is |-> "ip", ip |-> a] : a \in Ordered}

AddressInit ==
    \/ Begin("prefix", {<<p, 4>> : p \in 0..32} \cup {<<p, 6>> : p \in 0..128})
    \/ Begin("subnet", Sample4 \X (0..32))
    \/ Begin("classes", Sample4 \cup Sample6)
    \/ Begin("order", Ordered \X Ordered \X Ordered)
    \/ Begin("mac", Macs \X Steps)
    \/ Begin("endpoint", {4, 6} \X EndpointOps \X EndpointOps \X EndpointOps)
    \/ Begin("text", Texts)

AddressNext ==
    \/ Compute("prefix", Prefix(Netmask(input[1], input[2])))
    \/ Compute("subnet", LET m == Netmask(input[2], 4) a == input[1] IN
                         [whole |-> BitXor(BitAnd(a, m), BitAnd(a, BitNot(m))), last |-> IsBroadcast(a, input[2])])
    \/ Compute("classes", [classes |-> Classes(input), six |-> ToIpv6(input), four |-> ToIpv4(ToIpv6(input))])
    \/ Compute("order", [i \in 1..3 |-> [j \in 1..3 |-> <<IpLess(input[i], input[j]), IpEqual(input[i], input[j])>>]])
    \/ Compute("mac", [sum |-> MacPlus(input[1], input[2]), link |-> ToLinkLocalIpv6(input[1]),
                       unique |-> ToUniqueLocalIpv6(input[1], 255)])
    \/ Compute("endpoint", FoldLeft(ApplyOp, NewEndpoint(input[1]), Tail(input)))
    \/ Compute("text", [any |-> FromText(input), four |-> FromTextAs(input, 4), six |-> FromTextAs(input, 6)])

\* Does the address begin with the bits of net, for len bits?
Matches(bytes, net, len) == \A i \in 1..Len(net) : BitAnd(Ip(4, <<bytes[i], 0, 0, 0>>, 0), Ip(4, <<V6Netmask(len)[i], 0, 0, 0>>, 0)).bytes[1] = net[i]

(* prefix () of the netmask of a prefix is that prefix, for both families and every    *)
(* length; a netmask splits an address without loss, and isBroadcast tells the last    *)
(* address of the subnet wherever the subnet has host bits (for /32 it says true of    *)
(* every address).                                                                     *)
PrefixInverse ==
    /\ Computed("prefix") => Result = input[1]
    /\ Computed("subnet") =>
        /\ Result.whole = input[1]
        /\ input[2] \in 1..30 => (Result.last <=> \A i \in 1..4 : input[1].bytes[i] % 2 ^ (8 - Clip(input[2] - 8 * (i - 1)))
                                                            = 2 ^ (8 - Clip(input[2] - 8 * (i - 1))) - 1)

(* The order of addresses is a strict total order that agrees with ==, over families   *)
(* and scopes: what std::map and the managers' caches need.                            *)
AddressOrder ==
    Computed("order") => \A i, j, k \in 1..3 :
        LET less(x, y) == Result[x][y][1] same(x, y) == Result[x][y][2] IN
        /\ ~less(i, i) /\ (same(i, j) <=> input[i] = input[j])
        /\ same(i, j) \/ (less(i, j) # less(j, i))
        /\ (less(i, j) /\ less(j, k)) => less(i, k)

(* Each address has exactly one class, and the classes are the registries' ranges; an  *)
(* IPv4 address survives the way through its mapped IPv6 form.                         *)
ClassesAreRanges ==
    Computed("classes") =>
        /\ Cardinality(Result.classes) = 1
        /\ "link" \in Result.classes <=> IF input.fam = 4 THEN Matches(input.bytes, <<169, 254>>, 16)
                                         ELSE Matches(input.bytes, <<254, 128>>, 10)
        /\ "unique" \in Result.classes <=>
            IF input.fam = 4 THEN \/ Matches(input.bytes, <<10>>, 8) \/ Matches(input.bytes, <<172, 16>>, 12)
                                  \/ Matches(input.bytes, <<192, 168>>, 16)
            ELSE Matches(input.bytes, <<252>>, 7)
        /\ input.fam = 4 => Result.four = input /\ Ipv4Mapped(Result.six)

(* A MAC address plus a positive number is the sum, carried over all bytes (a negative *)
(* number is not borrowed); the addresses derived from it are link local and unique    *)
(* local, and keep it readable.                                                        *)
MacArithmetic ==
    Computed("mac") =>
        /\ LET low(m) == 65536 * m[4] + 256 * m[5] + m[6] IN
           input[2] >= 0 => low(Result.sum) = (low(input[1]) + input[2]) % 2 ^ 24
        /\ Classes(Result.link) = {"link"} /\ Classes(Result.unique) = {"unique"}
        /\ SubSeq(Result.link.bytes, 9, 16) = SubSeq(Result.unique.bytes, 9, 16)
        /\ Result.link.bytes[9] % 4 # input[1][1] % 4 /\ SubSeq(Result.link.bytes, 14, 16) = SubSeq(input[1], 4, 6)

(* An endpoint gives back the last address and port set, whatever families came        *)
(* before; the device set after an IPv6 address is part of that address.  A text read  *)
(* for a family gives that address, mapped if need be, or is refused.                  *)
EndpointReadsBack ==
    /\ Computed("endpoint") =>
        LET set == {i \in 2..4 : input[i][1] = "ip"}
            last == CHOOSE i \in set : \A j \in set : j <= i IN
        /\ set # {} => LET a == input[last][2] IN
            /\ GetIp(Result).bytes = a.bytes
            /\ GetIp(Result).scope = IF a.fam = 6 /\ \E j \in last + 1..4 : input[j][1] = "device" THEN 2 ELSE a.scope
        /\ Result.port = IF \E i \in 2..4 : input[i][1] = "port" THEN 80 ELSE 0
    /\ Computed("text") =>
        /\ Result.four # <<>> => (Result.four[1].fam = 4 /\ Result.six[1] \in {ToIpv6(Result.four[1]), Wildcard(6)})
        /\ (Result.any = <<>>) = (Result.six = <<>>)
=============================================================================
