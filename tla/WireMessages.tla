---------------------------- MODULE WireMessages ----------------------------
(***************************************************************************)
(* The messages of fabric/ and services/ on the wire: DNS, DHCP and HTTP.  *)
(***************************************************************************)
EXTENDS Integers, Sequences, SequencesExt, Probe

-----------------------------------------------------------------------------
(***************************************************************************)
(* The DNS message codec (fabric/dns_message.hpp): names with compression  *)
(* pointers, questions, resource records.  A message is a sequence of      *)
(* cells, one per field the code reads or writes at once: a label, the end *)
(* of a name, a pointer (to a cell), a number, an address, a text.         *)
(* Positions and lengths count cells.  The authority and additional        *)
(* sections are coded as the answers are, and stand with them.             *)
(***************************************************************************)
CONSTANTS MaxPointers,     \* the depth decodeName accepts: 10
          NameCells        \* bound: the cells of a compressed name

Cell(t, v) == [t |-> t, v |-> v]
End == Cell("label", 0)    \* a label of length 0 is the end
IsEnd(c) == c.t = "label" /\ c.v = 0
Cat(ss) == FoldLeft(\o, <<>>, ss)

----------------------------------------------------------------------------
(* Names.  A label is a number; 0 is the empty label, of "a..b" and of ".a". *)
EncodeName(name) == Append([i \in DOMAIN name |-> Cell("label", name[i])], End)

NoName == [ok |-> FALSE, name |-> <<>>, next |-> 0]

\* Mutant: reading goes on after the target of the pointer.
DecodeNameStays(m, at) ==
    LET D[d \in 0..MaxPointers + 1, p \in 1..Len(m) + 1] ==
            IF d > MaxPointers \/ p > Len(m) \/ m[IF p > Len(m) THEN 1 ELSE p].t \notin {"label", "ptr"} THEN NoName
            ELSE IF m[p].t = "ptr" THEN D[d + 1, m[p].v]
            ELSE IF IsEnd(m[p]) THEN [ok |-> TRUE, name |-> <<>>, next |-> p + 1]
            ELSE [D[d, p + 1] EXCEPT !.name = <<m[p].v>> \o @]
    IN  D[0, at]

\* A pointer ends the name: the rest is read there, and reading goes on after the pointer.
DecodeName(m, at) ==
    LET D[d \in 0..MaxPointers + 1, p \in 1..Len(m) + 1] ==
            IF d > MaxPointers \/ p > Len(m) \/ m[IF p > Len(m) THEN 1 ELSE p].t \notin {"label", "ptr"} THEN NoName
            ELSE IF m[p].t = "ptr" THEN (IF D[d + 1, m[p].v].ok THEN [D[d + 1, m[p].v] EXCEPT !.next = p + 1] ELSE NoName)
            ELSE IF IsEnd(m[p]) THEN [ok |-> TRUE, name |-> <<>>, next |-> p + 1]
            ELSE [D[d, p + 1] EXCEPT !.name = <<m[p].v>> \o @]
    IN  D[0, at]

----------------------------------------------------------------------------
(* Records.  The data of a record is a sequence of fields, which depends on *)
(* the type; a type the code does not know has none that it reads.          *)
Types == {"A", "AAAA", "NS", "CNAME", "PTR", "MX", "SOA", "TXT", "SRV", "other"}
RData(type) ==
    CASE type \in {"A", "AAAA"} -> <<"addr">>
      [] type \in {"NS", "CNAME", "PTR"} -> <<"name">>
      [] type = "MX" -> <<"num", "name">>
      [] type = "SOA" -> <<"name", "mail", "num", "num", "num", "num", "num">>
      [] type = "SRV" -> <<"num", "num", "num", "name">>
      [] type = "TXT" -> <<"txts">>
      [] OTHER -> <<>>
\* Values of the fields: mails are [local, domain], each a sequence of labels.
Values(field, x) ==
    CASE field = "addr" -> x.num
      [] field = "num" -> x.num
      [] field = "name" -> x.name
      [] field = "mail" -> x.mail
      [] field = "txts" -> x.txts
EncodeMail(mail) == EncodeName(mail.local \o mail.domain)    \* the first '@' becomes a '.'
EncodeField(field, v) ==
    CASE field \in {"addr", "num"} -> <<Cell(field, v)>>
      [] field = "name" -> EncodeName(v)
      [] field = "mail" -> EncodeMail(v)
      [] field = "txts" -> [i \in DOMAIN v |-> Cell("text", v[i])]
EncodeData(r) == Cat([i \in DOMAIN RData(r.type) |-> EncodeField(RData(r.type)[i], r.data[i])])
EncodeQuestion(q) == EncodeName(q.host) \o <<Cell("type", q.type), Cell("num", q.class)>>
WithLength(r, data) == EncodeQuestion(r) \o <<Cell("num", r.ttl), Cell("num", Len(data))>> \o data
EncodeResource(r) == WithLength(r, EncodeData(r))
Serialize(p) == <<Cell("num", p.id), Cell("num", Len(p.questions)), Cell("num", Len(p.answers))>>
                \o Cat([i \in DOMAIN p.questions |-> EncodeQuestion(p.questions[i])])
                \o Cat([i \in DOMAIN p.answers |-> EncodeResource(p.answers[i])])

----------------------------------------------------------------------------
(* Decoding.  s.at is the position, 0 once the stream has failed; s.ok is    *)
(* FALSE once a function has returned -1; s.out is what was read.  A read    *)
(* that fails leaves the default, for an address whatever the stack held.    *)
(* A message that is out of step (a field read as another) counts as not     *)
(* read: what comes out of it is never the packet that was written.          *)
Garbage == -1
StartAt(m, at) == [at |-> at, ok |-> TRUE, out |-> <<>>]
Default(t) == IF t = "addr" THEN Garbage ELSE IF t = "type" THEN "none" ELSE 0
Read(m, s, t) ==
    IF ~s.ok THEN s
    ELSE IF s.at = 0 \/ s.at > Len(m) THEN [s EXCEPT !.at = 0, !.out = Append(@, Default(t))]
    ELSE IF m[s.at].t # t THEN [s EXCEPT !.ok = FALSE]
    ELSE [s EXCEPT !.at = @ + 1, !.out = Append(@, m[s.at].v)]
TakeName(s, d) == IF d.ok THEN [s EXCEPT !.at = d.next, !.out = Append(@, d.name)] ELSE [s EXCEPT !.ok = FALSE, !.at = 0]
ReadName(m, s) == IF ~s.ok THEN s ELSE TakeName(s, IF s.at = 0 THEN NoName ELSE DecodeName(m, s.at))
\* The first '.' becomes '@'; the result of reading a mail is not looked at.
AsMail(name) == IF Len(name) < 2 THEN [local |-> name, domain |-> <<>>] ELSE [local |-> <<Head(name)>>, domain |-> Tail(name)]
TakeMail(s, r) == IF r.ok THEN [r EXCEPT !.out = Append(s.out, AsMail(Last(r.out)))] ELSE [s EXCEPT !.at = 0, !.out = Append(@, AsMail(<<>>))]
ReadMail(m, s) == IF ~s.ok THEN s ELSE TakeMail(s, ReadName(m, s))
ReadTexts(m, s, len) ==
    IF ~s.ok \/ s.at = 0 THEN [s EXCEPT !.out = Append(@, <<>>)]
    ELSE IF s.at + len - 1 > Len(m) THEN [s EXCEPT !.ok = FALSE, !.at = 0]
    ELSE [s EXCEPT !.at = @ + len, !.out = Append(@, [i \in 1..len |-> m[s.at + i - 1].v])]
ReadField(m, s, field, len) ==
    CASE field \in {"addr", "num"} -> Read(m, s, field)
      [] field = "name" -> ReadName(m, s)
      [] field = "mail" -> ReadMail(m, s)
      [] field = "txts" -> ReadTexts(m, s, len)
DecodeQuestion(m, s) == Read(m, Read(m, ReadName(m, s), "type"), "num")
\* h is what was read of the record up to its length, e what its data gave.
ReadData(m, h) ==
    IF RData(h.out[2]) = <<>> /\ h.at # 0 THEN [h EXCEPT !.out = <<>>, !.at = @ + h.out[5]]
    ELSE FoldLeft(LAMBDA acc, f : ReadField(m, acc, f, h.out[5]), [h EXCEPT !.out = <<>>], RData(h.out[2]))
TakeRecord(s, h, e) ==
    IF ~h.ok \/ ~e.ok THEN [s EXCEPT !.ok = FALSE, !.at = 0]
    ELSE [e EXCEPT !.out = Append(s.out, [host |-> h.out[1], type |-> h.out[2], class |-> h.out[3], ttl |-> h.out[4], data |-> e.out])]
DecodeRecord(m, s, h) == TakeRecord(s, h, ReadData(m, h))
DecodeResource(m, s) ==
    IF ~s.ok THEN s ELSE DecodeRecord(m, s, Read(m, Read(m, DecodeQuestion(m, [s EXCEPT !.out = <<>>]), "num"), "num"))
TakeQuestion(s, d) ==
    IF ~s.ok THEN s ELSE IF ~d.ok THEN [s EXCEPT !.ok = FALSE]
    ELSE [d EXCEPT !.out = Append(s.out, [host |-> d.out[1], type |-> d.out[2], class |-> d.out[3]])]
ReadQuestions(m, s, n) == FoldLeft(LAMBDA acc, i : TakeQuestion(acc, DecodeQuestion(m, [acc EXCEPT !.out = <<>>])), s, [i \in 1..n |-> i])
ReadAnswers(m, s, n) == FoldLeft(LAMBDA acc, i : DecodeResource(m, acc), s, [i \in 1..n |-> i])
\* Records already read are kept when one cannot be read, and a caller that ignores the result uses them.
DecodedPacket(h, qs, as) == [ok |-> as.ok, id |-> h.out[1], questions |-> qs.out, answers |-> as.out]
DecodeAnswers(m, h, qs) == DecodedPacket(h, qs, ReadAnswers(m, [qs EXCEPT !.out = <<>>], h.out[3]))
DecodeQuestions(m, h) == DecodeAnswers(m, h, ReadQuestions(m, [h EXCEPT !.out = <<>>], h.out[2]))
Deserialize(m) == DecodeQuestions(m, Read(m, Read(m, Read(m, StartAt(m, 1), "num"), "num"), "num"))

----------------------------------------------------------------------------
Names == {<<>>, <<1>>, <<1, 2>>, <<0, 1>>, <<1, 0, 2>>}
Mails == {[local |-> <<1>>, domain |-> <<2>>], [local |-> <<1, 2>>, domain |-> <<1>>], [local |-> <<1>>, domain |-> <<>>]}
Records == UNION {[host : {<<1>>}, type : {t}, class : {1}, ttl : {3},
                   data : {[i \in DOMAIN RData(t) |-> Values(RData(t)[i], x)] : x \in [num : {4}, name : Names, mail : Mails, txts : {<<>>, <<1, 2>>}]}] : t \in Types}
Packets == [id : {7}, questions : {<<[host |-> n, type |-> "A", class |-> 1]>> : n \in Names}, answers : {<<r>> : r \in Records} \cup {<<r, s>> : r, s \in {x \in Records : Len(x.data) <= 1}}]
Compressed == UNION {[1..n -> {End, Cell("label", 1), Cell("label", 2)} \cup {Cell("ptr", p) : p \in 1..n + 1}] : n \in 1..NameCells}

\* What the format can carry.
Plain(name) == \A i \in DOMAIN name : name[i] # 0
Faithful(p) ==
    /\ Plain(p.questions[1].host)
    /\ \A i \in DOMAIN p.answers : \A j \in DOMAIN p.answers[i].data :
         LET f == RData(p.answers[i].type)[j] IN
         /\ f = "name" => Plain(p.answers[i].data[j])
         /\ f = "mail" => Len(p.answers[i].data[j].local) = 1

Cut(m, n) == SubSeq(m, 1, Len(m) - n)
DnsInit ==
    \/ Begin("dnsName", Compressed)
    \/ Begin("dnsPacket", Packets)
    \/ Begin("dnsCut", {<<p, n>> : p \in {x \in Packets : Faithful(x) /\ x.questions[1].host = <<1>>}, n \in 1..12})
DnsNext ==
    \/ Compute("dnsName", DecodeName(input, 1))
    \/ Compute("dnsPacket", Deserialize(Serialize(input)))
    \/ Compute("dnsCut", Deserialize(Cut(Serialize(input[1]), input[2])))

----------------------------------------------------------------------------
\* The cell reached after k cells of the name, 0 once it ended.
Walk(m) ==
    LET W[k \in 0..(Len(m) + 2) * (Len(m) + 2)] ==
            IF k = 0 THEN 1 ELSE LET p == W[k - 1] IN
            IF p = 0 \/ p > Len(m) THEN p ELSE IF m[p].t = "ptr" THEN m[p].v ELSE IF IsEnd(m[p]) THEN 0 ELSE p + 1
    IN  W
(***************************************************************************)
(* decodeName follows pointers anywhere, forwards and in circles: it gives *)
(* the labels met on the way when the name ends after at most MaxPointers  *)
(* pointers, and refuses the name otherwise, so that no message keeps it   *)
(* in a loop.  Reading goes on after the first pointer, or after the end.  *)
(***************************************************************************)
NamesExpand ==
    Computed("dnsName") =>
        LET W == Walk(input)
            ends == {k \in DOMAIN W : W[k] = 0}
            k0 == CHOOSE k \in ends : \A j \in ends : k <= j
            way == [k \in 1..k0 |-> input[W[k - 1]]]
            jumps == {k \in DOMAIN way : way[k].t = "ptr"}
            first == CHOOSE k \in jumps : \A j \in jumps : k <= j
        IN  /\ Result.ok <=> ends # {} /\ Cardinality(jumps) <= MaxPointers
            /\ Result.ok => /\ EncodeName(Result.name) = SelectSeq(way, LAMBDA c : c.t # "ptr")
                            /\ Result.next = 1 + (IF jumps = {} THEN k0 ELSE first)

(***************************************************************************)
(* A message is read back as it was written exactly when no name in it has *)
(* an empty label ("a..b" ends after "a") and the part of a mail address   *)
(* before the '@' has no dot.                                              *)
(***************************************************************************)
PacketsReadBack == Computed("dnsPacket") => ((Result.ok /\ [id |-> Result.id, questions |-> Result.questions, answers |-> Result.answers] = input) <=> Faithful(input))

(***************************************************************************)
(* A message cut anywhere gives the records before the cut unchanged, and  *)
(* at most one more, which may hold defaults or an address never received. *)
(***************************************************************************)
CutsKeepPrefix ==
    Computed("dnsCut") =>
        /\ Len(Result.answers) <= Len(input[1].answers)
        /\ \A i \in 1..Len(Result.answers) - 1 : Result.answers[i] = input[1].answers[i]

-----------------------------------------------------------------------------
(***************************************************************************)
(* DHCP options (fabric/dhcp_option), the DHCP message (dhcp_message) and  *)
(* the Ethernet, IP and UDP frame around it (dhcp.hpp).  Numbers are       *)
(* scaled: a byte is below ByteSpace, a word has two bytes, a long three,  *)
(* an IPv4 address two and a MAC address one.                              *)
(***************************************************************************)
CONSTANTS ByteSpace,       \* 256: the number of bytes
          WordSpace    \* 65536: the number of words of a checksum

Pad == 0
EndOption == ByteSpace - 1
OptionMax == ByteSpace - 1    \* the payload an option can carry

(* describe: one option for each type and each kind of limit; others are unknown. *)
Info(code) ==
    CASE code = 1 -> [type |-> "Byte", min |-> 0, max |-> 1, mask |-> {}]           \* IpForwarding
      [] code = 2 -> [type |-> "Byte", min |-> 1, max |-> 3, mask |-> {}]           \* OptionOverload
      [] code = 3 -> [type |-> "Byte", min |-> 0, max |-> 0, mask |-> {1, 2, 4, 8}] \* NetbiosNodeType
      [] code = 4 -> [type |-> "Word", min |-> 5, max |-> ByteSpace * ByteSpace - 1, mask |-> {}]  \* InterfaceMtu
      [] code = 5 -> [type |-> "Long", min |-> 0, max |-> 0, mask |-> {}]           \* IpAddressLeaseTime
      [] code = 6 -> [type |-> "SLong", min |-> 0, max |-> 0, mask |-> {}]          \* TimeOffset
      [] code = 7 -> [type |-> "Text", min |-> 0, max |-> 0, mask |-> {}]           \* HostName
      [] code = 8 -> [type |-> "Ip", min |-> 0, max |-> 0, mask |-> {}]             \* SubnetMask
      [] code = 9 -> [type |-> "Mac", min |-> 0, max |-> 0, mask |-> {}]            \* ClientIdentifier
      [] code = 10 -> [type |-> "Words", min |-> 2, max |-> ByteSpace * ByteSpace - 1, mask |-> {}] \* PathMtuPlateauTable
      [] code = 11 -> [type |-> "Ips", min |-> 0, max |-> 0, mask |-> {}]           \* Router
      [] code = 12 -> [type |-> "Bytes", min |-> 0, max |-> 0, mask |-> {}]         \* ParameterRequestList
      [] OTHER -> [type |-> "unknown", min |-> 0, max |-> 0, mask |-> {}]
OptionNumbers == {"Byte", "Word", "Long", "SLong"}
Lists == {"Words", "Ips", "Bytes"}
Width(type) == CASE type \in {"Byte", "Bytes", "Mac"} -> 1 [] type \in {"Word", "Words", "Ip", "Ips"} -> 2 [] OTHER -> 3
Pow(n) == IF n = 1 THEN ByteSpace ELSE IF n = 2 THEN ByteSpace * ByteSpace ELSE ByteSpace * ByteSpace * ByteSpace

Accepts(info, v) ==
    IF info.mask # {} THEN v \in info.mask ELSE info.max = 0 \/ (info.min <= v /\ v <= info.max)
FitsType(type, v) == IF type = "SLong" THEN -(Pow(3) \div 2) <= v /\ v < Pow(3) \div 2 ELSE 0 <= v /\ v < Pow(Width(type))
\* A value is tagged with what the caller passes: a number, a text, an address or a list of them.
ConvertNumber(i, v) == i.type \in OptionNumbers /\ FitsType(i.type, v) /\ Accepts(i, v)
ConvertText(i) == i.type = "Text"
ConvertAddress(i, is) == i.type = (IF is = "ip" THEN "Ip" ELSE "Mac")
ConvertList(i, of, v) == i.type = of /\ \A k \in DOMAIN v : Accepts(i, v[k])
ConvertsTo(i, x) ==
    CASE x.is = "number" -> ConvertNumber(i, x.v)
      [] x.is = "text" -> ConvertText(i)
      [] x.is \in {"ip", "mac"} -> ConvertAddress(i, x.is)
      [] x.is = "list" -> ConvertList(i, x.of, x.v)
Convert(code, x) == ConvertsTo(Info(code), x)
\* An option that is there already stays as it is.
InsertOption(options, code, x) ==
    IF Convert(code, x) /\ code \notin DOMAIN options THEN [c \in DOMAIN options \cup {code} |-> IF c = code THEN x ELSE options[c]] ELSE options

----------------------------------------------------------------------------
(* The option field. *)
Big(v, n) == [k \in 1..n |-> (v \div (IF k = n THEN 1 ELSE Pow(n - k))) % ByteSpace]    \* network byte order
Small(b) == FoldLeft(LAMBDA acc, x : acc * ByteSpace + x, 0, b)
OptionBytes(type, x) ==
    CASE type \in OptionNumbers -> Big(x.v % Pow(Width(type)), Width(type))
      [] type = "Text" -> x.v
      [] type = "Ip" -> Big(x.v, 2)
      [] type = "Mac" -> <<1, x.v>>
      [] type \in Lists -> FoldLeft(\o, <<>>, [k \in DOMAIN x.v |-> Big(x.v[k], Width(type))])
OptionPayload(code, x) == OptionBytes(Info(code).type, x)
Tlv(code, b) == <<code, Len(b)>> \o b
\* The payloads, in the order of the codes.
WriteOptions(codes, payloads) ==
    IF \E k \in DOMAIN codes : Len(payloads[k]) > OptionMax THEN [ok |-> FALSE, bytes |-> <<>>]
    ELSE [ok |-> TRUE, bytes |-> FoldLeft(\o, <<>>, [k \in DOMAIN codes |-> Tlv(codes[k], payloads[k])]) \o <<EndOption>>]
InOrder(options, codes) == WriteOptions(codes, [k \in DOMAIN codes |-> OptionPayload(codes[k], options[codes[k]])])
SerializeOptions(options) == InOrder(options, SetToSortSeq(DOMAIN options, <))

\* A short message is filled up; what goes before the options (op, id, addresses, cookie) is left out.
MinSize == 9
Filled(s) ==
    [ok |-> s.ok, options |-> s.bytes \o [k \in 1..(IF Len(s.bytes) < MinSize THEN MinSize - Len(s.bytes) ELSE 0) |-> Pad], file |-> <<Pad>>, sname |-> <<Pad>>]
DhcpSerialize(options) == Filled(SerializeOptions(options))
\* The codes and payloads of a field, until its end; not ok when one of them is cut.
Fields(bytes) ==
    LET F[p \in 1..Len(bytes) + 1] ==
            IF p > Len(bytes) \/ bytes[IF p > Len(bytes) THEN 1 ELSE p] = EndOption THEN [ok |-> TRUE, tlvs |-> <<>>]
            ELSE IF bytes[p] = Pad THEN F[p + 1]
            ELSE IF p + 1 > Len(bytes) \/ p + 1 + bytes[IF p + 1 > Len(bytes) THEN p ELSE p + 1] > Len(bytes) THEN [ok |-> FALSE, tlvs |-> <<>>]
            ELSE [F[p + 2 + bytes[p + 1]] EXCEPT !.tlvs = <<<<bytes[p], SubSeq(bytes, p + 2, p + 1 + bytes[p + 1])>>>> \o @]
    IN  F[1]
Groups(b, n) == [k \in 1..Len(b) \div n |-> Small(SubSeq(b, (k - 1) * n + 1, k * n))]
Signed(v) == IF v >= Pow(3) \div 2 THEN v - Pow(3) ELSE v
\* A payload of the wrong size for its type is passed over.
Readable(type, b) ==
    CASE type \in OptionNumbers \cup {"Ip"} -> Len(b) = Width(type)
      [] type = "Mac" -> Len(b) = 2 /\ b[1] = 1
      [] type \in Lists -> Len(b) % Width(type) = 0
      [] OTHER -> type = "Text"
OptionValue(type, b) ==
    CASE type = "SLong" -> [is |-> "number", v |-> Signed(Small(b))]
      [] type \in OptionNumbers -> [is |-> "number", v |-> Small(b)]
      [] type = "Text" -> [is |-> "text", v |-> b]
      [] type = "Ip" -> [is |-> "ip", v |-> Small(b)]
      [] type = "Mac" -> [is |-> "mac", v |-> b[2]]
      [] OTHER -> [is |-> "list", of |-> type, v |-> Groups(b, Width(type))]
TakeOption(o, code, type, b) == IF Readable(type, b) THEN InsertOption(o, code, OptionValue(type, b)) ELSE o
Heard(options, tlvs) == FoldLeft(LAMBDA o, t : TakeOption(o, t[1], Info(t[1]).type, t[2]), options, tlvs)

\* The option overload extends the options to the file and server name fields, in this order.
Overloads(o, bits) == 2 \in DOMAIN o /\ o[2].v \in bits
FieldIf(uses, bytes) == IF uses THEN Fields(bytes) ELSE [ok |-> TRUE, tlvs |-> <<>>]
Heeded(o, f, s) == IF f.ok /\ s.ok THEN [ok |-> TRUE, options |-> Heard(o, f.tlvs \o s.tlvs)] ELSE [ok |-> FALSE, options |-> <<>>]
Overloaded(m, o) == Heeded(o, FieldIf(Overloads(o, {1, 3}), m.file), FieldIf(Overloads(o, {2, 3}), m.sname))
OptionsOf(m, a) == IF a.ok THEN Overloaded(m, Heard(<<>>, a.tlvs)) ELSE [ok |-> FALSE, options |-> <<>>]
DhcpDeserialize(m) == OptionsOf(m, Fields(m.options))

----------------------------------------------------------------------------
(* The frame.  A field is a word; the payload is a sequence of words. *)
Ones(words) ==
    LET sum == FoldLeft(+, 0, words)
        once == (sum \div WordSpace) + (sum % WordSpace)
    IN  WordSpace - 1 - ((once + (once \div WordSpace)) % WordSpace)
\* 0 is sent as its other representation: 0 means that there is no checksum.
UdpChecksum(f, payload) ==
    LET sum == Ones(<<f.saddr, f.daddr, 17 % WordSpace, f.len, f.sport, f.dport, f.len>> \o payload) IN IF sum = 0 THEN WordSpace - 1 ELSE sum
ServerPort == 1
ClientPort == 2
UdpHeader == 1
Transmit(payload, source, destination, boot) ==
    LET f == [proto |-> 3, saddr |-> source, daddr |-> destination, sport |-> IF boot THEN ClientPort ELSE ServerPort,
              dport |-> IF boot THEN ServerPort ELSE ClientPort, len |-> UdpHeader + Len(payload)] IN
    [f |-> f, ipcheck |-> Ones(<<f.proto, f.saddr, f.daddr>>), check |-> UdpChecksum(f, payload), payload |-> payload]
ReceiveFrame(frame) ==
    LET f == frame.f IN
    /\ f.proto = 3
    /\ frame.ipcheck = Ones(<<f.proto, f.saddr, f.daddr>>)
    /\ {f.sport, f.dport} = {ServerPort, ClientPort}
    /\ UdpHeader <= f.len /\ f.len <= UdpHeader + Len(frame.payload)
    /\ frame.check # 0 => frame.check = UdpChecksum(f, SubSeq(frame.payload, 1, f.len - UdpHeader))

----------------------------------------------------------------------------
Number(v) == [is |-> "number", v |-> v]
OptionTexts == {[is |-> "text", v |-> [k \in 1..n |-> 1]] : n \in {0, 1, OptionMax, OptionMax + 1}}
Inputs == {<<c, Number(v)>> : c \in 1..6, v \in {-1 - Pow(3) \div 2, -1, 0, 1, 4, 5, 8, ByteSpace - 1, ByteSpace, Pow(2), Pow(3) \div 2, Pow(3) - 1, Pow(3)}}
          \cup {<<7, t>> : t \in OptionTexts} \cup {<<8, [is |-> "ip", v |-> ByteSpace + 2]>>, <<9, [is |-> "mac", v |-> 3]>>}
          \cup {<<c, [is |-> "list", of |-> Info(c).type, v |-> [k \in 1..n |-> 3]]>> : c \in 10..12, n \in {0, 2, 7, 8, 15, 16}}
          \cup {<<10, [is |-> "list", of |-> "Words", v |-> <<3, 1>>]>>}
Chunks == {<<Pad>>, <<EndOption>>, <<1, 1, 1>>, <<1, 1, 0>>, <<1, 1, 2>>, <<1, 2, 0, 0>>, <<2, 1, 3>>, <<2, 1, 1>>, <<4, 2, 0, 1>>, <<4, 2, 1, 0>>,
           <<9, 2, 1, 7>>, <<9, 2, 0, 7>>, <<7, 0>>, <<13, 1, 0>>, <<7, 2, 1>>}
Short == {<<>>, <<1, 1, 1>>, <<1, 1, 0>>, <<7, 1, 1>>}
Messages == [options : {a \o b \o c : a, b, c \in Chunks}, file : Short, sname : Short]
Sent == {Transmit(p, s, d, b) : p \in UNION {[1..n -> 0..WordSpace - 1] : n \in 0..1}, s \in {0, 3}, d \in {1, WordSpace - 1}, b \in BOOLEAN}
Damaged(x) ==
    {[x EXCEPT !.f[w] = v] : w \in DOMAIN x.f \ {"len"}, v \in 0..WordSpace - 1} \cup {[x EXCEPT !.payload[k] = v] : k \in DOMAIN x.payload, v \in 0..WordSpace - 1}
    \cup {[x EXCEPT !.ipcheck = v] : v \in 0..WordSpace - 1} \cup {[x EXCEPT !.check = v] : v \in 0..WordSpace - 1}

InsertBoth(x, y) == InsertOption(InsertOption(<<>>, x[1], x[2]), y[1], y[2])
SendAndReceive(m) == [sent |-> m.ok, got |-> DhcpDeserialize(m)]
UpTo(b, n) == [options |-> SubSeq(b, 1, IF n > Len(b) THEN Len(b) ELSE n), file |-> <<>>, sname |-> <<>>]

DhcpInit ==
    \/ Begin("dhcpOptions", {<<x, y>> : x, y \in Inputs})
    \/ Begin("dhcpHeard", Messages)
    \/ Begin("dhcpCut", {<<InsertBoth(x, y), n>> : x, y \in {z \in Inputs : Len(OptionPayload(z[1], z[2])) <= 4}, n \in 0..9})
    \/ Begin("dhcpFrame", UNION {{<<x, y>> : y \in Damaged(x)} : x \in Sent})
DhcpNext ==
    \/ Compute("dhcpOptions", SendAndReceive(DhcpSerialize(InsertBoth(input[1], input[2]))))
    \/ Compute("dhcpHeard", DhcpDeserialize(input))
    \/ Compute("dhcpCut", DhcpDeserialize(UpTo(SerializeOptions(input[1]).bytes, input[2])))
    \/ Compute("dhcpFrame", <<ReceiveFrame(input[1]), ReceiveFrame(input[2])>>)

----------------------------------------------------------------------------
(***************************************************************************)
(* Options that are sent are received with the same values, signs and all: *)
(* a message is refused only when an option is longer than OptionMax.      *)
(***************************************************************************)
OptionsReadBack ==
    LET Same(o) ==
            /\ Result.sent <=> \A c \in DOMAIN o : Len(OptionPayload(c, o[c])) <= OptionMax
            /\ Result.sent => Result.got = [ok |-> TRUE, options |-> o]
    IN  Computed("dhcpOptions") => Same(InsertBoth(input[1], input[2]))

\* The codes and values of a field that an application could have inserted.
Legal(bytes) ==
    LET Valued(tlvs) == [k \in DOMAIN tlvs |-> <<tlvs[k][1], TakeOption(<<>>, tlvs[k][1], Info(tlvs[k][1]).type, tlvs[k][2])>>]
    IN  SelectSeq(Valued(Fields(bytes).tlvs), LAMBDA t : t[2] # <<>>)
FirstOf(all, c) == CHOOSE k \in DOMAIN all : all[k][1] = c /\ \A j \in 1..k - 1 : all[j][1] # c
(***************************************************************************)
(* Whatever the three fields of a message hold, the options taken from it  *)
(* are values an application could have inserted, and the first legal one  *)
(* in the options, the file field and the server name field counts.        *)
(***************************************************************************)
HeardFirstLegal ==
    LET over(own) == {own[k][2][2].v : k \in {j \in DOMAIN own : own[j][1] = 2 /\ FirstOf(own, 2) = j}}
        all(own) == own \o (IF over(own) \in {{1}, {3}} THEN Legal(input.file) ELSE <<>>) \o (IF over(own) \in {{2}, {3}} THEN Legal(input.sname) ELSE <<>>)
        First(o, legal) ==
            /\ DOMAIN o = {legal[k][1] : k \in DOMAIN legal}
            /\ \A c \in DOMAIN o : o[c] = legal[FirstOf(legal, c)][2][c]
    IN  (Computed("dhcpHeard") /\ Result.ok) => First(Result.options, all(Legal(input.options)))

(***************************************************************************)
(* A message cut anywhere is refused or gives some of its options, with    *)
(* their values: never one it did not carry.                               *)
(***************************************************************************)
CutsNeverAlter ==
    (Computed("dhcpCut") /\ Result.ok) =>
        \A c \in DOMAIN Result.options : c \in DOMAIN input[1] /\ input[1][c] = Result.options[c]

(***************************************************************************)
(* receive takes every frame transmit builds, and refuses one in which one *)
(* word other than the length was changed, but for the two representations *)
(* of 0 in one's complement, and a checksum that became 0, "unchecked".    *)
(***************************************************************************)
BothZeros == {0, WordSpace - 1}
FramesChecked ==
    Computed("dhcpFrame") =>
        LET x == input[1]
            y == input[2]
            same == \/ x = y
                    \/ y.check = 0 /\ x.f = y.f /\ x.payload = y.payload
                    \/ \E w \in DOMAIN x.f : x.f[w] # y.f[w] /\ {x.f[w], y.f[w]} = BothZeros
                    \/ \E k \in DOMAIN x.payload : x.payload[k] # y.payload[k] /\ {x.payload[k], y.payload[k]} = BothZeros
        IN  Result[1] /\ x.check # 0 /\ (Result[2] => same)

-----------------------------------------------------------------------------
(***************************************************************************)
(* The request line of HTTP (services/http_message.cpp): how a request is  *)
(* written, how it is read, its query taken apart and its path decoded and *)
(* normalized.  Texts are sequences of characters over alphabets that hold *)
(* the ones the code treats specially.                                     *)
(***************************************************************************)
CONSTANTS PathLength,    \* bound: characters of the paths that are normalized
          ValueLength,   \* bound: characters of a parameter
          MaxHeaderLen   \* _maxHeaderLen, the longest line with its end

TextsOver(chars, n) == UNION {[1..k -> chars] : k \in 0..n}
Has(text, chars) == \E i \in DOMAIN text : text[i] \in chars
\* find: the first place from pos on where c stands, 0 if there is none.
Find(text, c, pos) == SelectInSubSeq(text, pos, Len(text), LAMBDA x : x = c)
Part(text, from, to) == SubSeq(text, from, to)

----------------------------------------------------------------------------
\* removeLastSegment: up to the last slash, and without it.
RemoveLastSegment(path) == Part(path, 1, SelectLastInSeq(path, LAMBDA c : c = "/") - 1)
\* normalize: slashes are made single, then the rules of RFC 3986, 5.2.4, are applied.
SingleSlashes(path) ==
    FoldLeft(LAMBDA out, c : IF c = "/" /\ out # <<>> /\ Last(out) = "/" THEN out ELSE Append(out, c), <<>>, path)
RECURSIVE RemoveDots(_, _)
RemoveDots(path, out) ==
    LET Starts(prefix) == IsPrefix(prefix, path)
        Without(n) == Part(path, n + 1, Len(path))
        slash == Find(path, "/", IF path[1] = "/" THEN 2 ELSE 1)
        next == IF slash = 0 THEN Len(path) + 1 ELSE slash
    IN  CASE path = <<>> -> out
          [] Starts(<<".", ".", "/">>) -> RemoveDots(Without(3), out)
          [] Starts(<<".", "/">>) -> RemoveDots(Without(2), out)
          [] Starts(<<"/", ".", "/">>) -> RemoveDots(Without(2), out)
          [] path = <<"/", ".">> -> RemoveDots(<<"/">>, out)
          [] Starts(<<"/", ".", ".", "/">>) -> RemoveDots(Without(3), RemoveLastSegment(out))
          [] path = <<"/", ".", ".">> -> RemoveDots(<<"/">>, RemoveLastSegment(out))
          [] path # <<>> /\ ~Has(path, {"/", "a"}) -> out    \* nothing but dots
          [] OTHER -> RemoveDots(Part(path, next, Len(path)), out \o Part(path, 1, next - 1))
Normalize(path) == RemoveDots(SingleSlashes(path), <<>>)

----------------------------------------------------------------------------
\* decodeUrl: two characters after a percent sign are a byte, those that are no digits read as 0,
\* past the end too.
Byte(x, y) == IF x = "2" /\ y = "6" THEN "&" ELSE "other"
RECURSIVE DecodeUrl(_)
DecodeUrl(url) ==
    IF url = <<>> THEN <<>>
    ELSE IF url[1] = "%"
         THEN <<Byte(IF Len(url) > 1 THEN url[2] ELSE "", IF Len(url) > 2 THEN url[3] ELSE "")>> \o DecodeUrl(Part(url, 4, Len(url)))
         ELSE <<url[1]>> \o DecodeUrl(Tail(url))
\* store: a name up to the next =, a value up to the next &.
RECURSIVE Store(_)
Store(query) ==
    LET eq == Find(query, "=", 1)
        amp == IF eq = 0 THEN 0 ELSE Find(query, "&", eq + 1)
        end == IF amp = 0 THEN Len(query) ELSE amp - 1
        this == <<DecodeUrl(Part(query, 1, eq - 1)), DecodeUrl(Part(query, eq + 1, end))>>
        more == IF amp = 0 THEN {} ELSE Store(Part(query, amp + 1, Len(query)))
    IN  IF eq = 0 THEN {} ELSE more \cup (IF \E p \in more : p[1] = this[1] THEN {} ELSE {this})    \* a later one wins

\* dumpParameters and query: nothing is encoded.
DumpParameters(params) ==
    FoldLeft(LAMBDA text, p : text \o (IF text = <<>> THEN <<>> ELSE <<"&">>) \o p[1] \o <<"=">> \o p[2], <<>>, params)
Query(params) == IF params = <<>> THEN <<>> ELSE <<"?">> \o DumpParameters(params)
\* writeHeaders and parseFirstLine: method, target and version with spaces between.
RequestLine(r) == <<r.method, " ">> \o r.path \o Query(r.params) \o <<" ", "HTTP/1.1">>
Methods == {"HEAD", "GET", "PUT", "POST", "DELETE"}
ParseFirstLine(line) ==
    LET first == Find(line, " ", 1)
        second == IF first = 0 THEN 0 ELSE Find(line, " ", first + 1)
        target == Part(line, first + 1, second - 1)
        mark == Find(target, "?", 1)
        path == IF mark = 0 THEN target ELSE Part(target, 1, mark - 1)
    IN  CASE second = 0 -> [error |-> "BadRequest"]
          [] second # 0 /\ (first # 2 \/ line[1] \notin Methods) -> [error |-> "Unsupported"]
          [] OTHER -> [error |-> "", method |-> line[1], path |-> Normalize(DecodeUrl(path)),
                       params |-> IF mark = 0 THEN {} ELSE Store(Part(target, mark + 1, Len(target))),
                       version |-> Part(line, second + 1, Len(line))]

\* The status line of a response.
StatusLine(r) == r.version \o <<" ">> \o r.status \o <<" ">> \o r.reason
ParseStatusLine(line) ==
    LET first == Find(line, " ", 1)
        second == IF first = 0 THEN 0 ELSE Find(line, " ", first + 1)
    IN  IF second = 0 THEN [error |-> "BadRequest"]
        ELSE [error |-> "", version |-> Part(line, 1, first - 1), status |-> Part(line, first + 1, second - 1), reason |-> Part(line, second + 1, Len(line))]

----------------------------------------------------------------------------
\* getline: up to a line feed, carriage returns left out, among as many characters as the line may have.
Getline(text) ==
    LET end == Find(Part(text, 1, IF Len(text) < MaxHeaderLen THEN Len(text) ELSE MaxHeaderLen), "LF", 1)
    IN  IF end = 0 THEN [got |-> FALSE, line |-> <<>>, rest |-> <<>>]
        ELSE [got |-> TRUE, line |-> SelectSeq(Part(text, 1, end - 1), LAMBDA c : c # "CR"), rest |-> Part(text, end + 1, Len(text))]
\* dumpHeaders, and the empty line.
DumpHeaders(headers) == FlattenSeq([i \in DOMAIN headers |-> headers[i][1] \o <<":", " ">> \o headers[i][2] \o <<"CR", "LF">>]) \o <<"CR", "LF">>
\* parseHeader: the first colon with a space ends the name.
ParseHeader(line) ==
    LET colon == SelectInSubSeq([i \in 1..(Len(line) - 1) |-> <<line[i], line[i + 1]>>], 1, Len(line) - 1, LAMBDA x : x = <<":", " ">>)
    IN  IF colon = 0 THEN <<>> ELSE <<<<Part(line, 1, colon - 1), Part(line, colon + 2, Len(line))>>>>
\* readHeaders, after the first line.
RECURSIVE ReadHeaders(_, _)
ReadHeaders(text, headers) ==
    LET l == Getline(text) IN
    CASE ~l.got -> [error |-> "HeaderTooLarge"]
      [] l.got /\ l.line = <<>> -> [error |-> "", headers |-> headers, rest |-> l.rest]
      [] OTHER -> LET h == ParseHeader(l.line) IN
                  IF h = <<>> THEN [error |-> "BadRequest"] ELSE ReadHeaders(l.rest, Append(headers, h[1]))

----------------------------------------------------------------------------
Param == TextsOver({"2", "6", "=", "&", "%"}, 1) \X TextsOver({"2", "6", "=", "&", "%"}, ValueLength)
Requests ==
    [method : {"GET"}, path : {<<"/">>}, params : {<<p>> : p \in Param} \cup {<<p, <<<<"6">>, <<"=">>>>>> : p \in {q \in Param : q[1] # <<"6">>}}]
    \cup [method : {"PUT", "OTHER"}, path : {<<"/">> \o p : p \in TextsOver({"/", "a", ".", "?", " ", "%"}, 4)}, params : {<<>>, <<<<<<"2">>, <<"6">>>>>>}]

HeaderTexts == TextsOver({"h", ":", " ", "CR"}, 3)
Headers == {<<<<n, v>>>> : n \in HeaderTexts, v \in HeaderTexts} \cup {<<<<n, <<"h">>>>, <<<<"x">>, v>>>> : n \in HeaderTexts, v \in HeaderTexts}
Responses == [version : TextsOver({"1", " "}, 2), status : TextsOver({"2", " "}, 2), reason : TextsOver({"O", " "}, 3)]

HttpMessageInit ==
    \/ Begin("http path", TextsOver({"/", ".", "a"}, PathLength))
    \/ Begin("http request", Requests)
    \/ Begin("http response", Responses)
    \/ Begin("http headers", Headers)
HttpMessageNext ==
    \/ Compute("http path", Normalize(input))
    \/ Compute("http request", ParseFirstLine(RequestLine(input)))
    \/ Compute("http response", ParseStatusLine(StatusLine(input)))
    \/ Compute("http headers", ReadHeaders(DumpHeaders(input), <<>>))

----------------------------------------------------------------------------
Segments(path) ==
    FoldLeft(LAMBDA out, c : IF c = "/" THEN Append(out, <<>>) ELSE [out EXCEPT ![Len(out)] = Append(@, c)], <<<<>>>>, path)
Walked(segments) ==
    FoldLeft(LAMBDA at, s : IF s \in {<<>>, <<".">>} THEN at ELSE IF s = <<".", ".">> THEN Front(at \o (IF at = <<>> THEN <<<<>>>> ELSE <<>>)) ELSE Append(at, s), <<>>, segments)

(***************************************************************************)
(* normalize leads where walking the path leads, "." staying and ".."      *)
(* going up but never above the root, keeps whether a directory was meant, *)
(* and leaves no segment that could lead anywhere else; of a path without  *)
(* a root, no segment that goes up is left either.                         *)
(***************************************************************************)
PathsWalked ==
    Computed("http path") =>
        /\ \A i \in DOMAIN Segments(Result) : Segments(Result)[i] \notin {<<".">>, <<".", ".">>}
        /\ input # <<>> /\ input[1] = "/" =>
            /\ Result # <<>> /\ Result[1] = "/"
            /\ SelectSeq(Segments(Result), LAMBDA s : s # <<>>) = Walked(Segments(input))
            /\ (Last(Result) = "/") <=> Last(Segments(input)) \in {<<>>, <<".">>, <<".", ".">>}

(***************************************************************************)
(* A request is read as it was written exactly when its method is one of   *)
(* the five, its path is normal and free of what ends or escapes a target, *)
(* no name holds = or a percent sign and no value & or a percent sign: the *)
(* writer encodes nothing, the reader decodes.                             *)
(***************************************************************************)
RequestsReadBack ==
    Computed("http request") =>
        LET clean == /\ input.method \in Methods
                     /\ ~Has(input.path, {"?", " ", "%"}) /\ Normalize(input.path) = input.path
                     /\ \A i \in DOMAIN input.params : ~Has(input.params[i][1], {"=", "%"}) /\ ~Has(input.params[i][2], {"&", "%"})
        IN  clean <=> Result = [error |-> "", method |-> input.method, path |-> input.path,
                                params |-> Range(input.params), version |-> <<"HTTP/1.1">>]

(***************************************************************************)
(* A response is read as it was written exactly when neither its version   *)
(* nor its status holds a space.  Headers are read as they were written,   *)
(* and nothing after them, exactly when they hold no carriage return, no   *)
(* name holds what ends a name, and no line is longer than the longest,    *)
(* its two end characters counted.                                         *)
(***************************************************************************)
HeadersReadBack ==
    /\ Computed("http response") =>
        (~Has(input.version \o input.status, {" "}) <=> Result = [error |-> ""] @@ input)
    /\ Computed("http headers") =>
        LET clean == \A i \in DOMAIN input :
                        /\ ~Has(input[i][1] \o input[i][2], {"CR"}) /\ Len(input[i][1]) + Len(input[i][2]) + 4 <= MaxHeaderLen
                        /\ \A j \in 1..(Len(input[i][1]) - 1) : input[i][1][j] # ":" \/ input[i][1][j + 1] # " "
        IN  clean <=> Result = [error |-> "", headers |-> input, rest |-> <<>>]
=============================================================================
