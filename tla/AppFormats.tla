----------------------------- MODULE AppFormats -----------------------------
(***************************************************************************)
(* Messages above UDP and TCP: TFTP and QUIC (phases/04-transport), then   *)
(* those of phases/06-application-protocols and 07-tls: DNS (names with    *)
(* compression, the resolver's query and its reading of a response, the    *)
(* authoritative server's zone and its answer, length prefixes, truncation *)
(* and the EDNS(0) OPT record), HTTP/2 frames and HPACK integers,          *)
(* WebSocket, NTP, URL encoding, virtual hosts, TLS records and the        *)
(* ClientHello.  A name is its text: octets with Period between the        *)
(* labels.  A TTL and other words of 32 bits are their four octets.        *)
(***************************************************************************)
EXTENDS PacketFormats

-----------------------------------------------------------------------------
(* 04/05 tftp.c: strings are sequences of octets other than zero.          *)

\* nfs_tftp_build_rrq (also for WRQ), _data, _ack, _error.
TftpRequest(opcode, filename, mode, room) ==
    IF \/ opcode \notin {1, 2} \/ Len(filename) \notin 1..255 \/ Len(mode) \notin 1..15
    THEN Refused ELSE Into(Be(opcode, 2) \o filename \o <<0>> \o mode \o <<0>>, room)
TftpData(block, data, room) ==
    IF Len(data) > 512 THEN Refused ELSE Into(Be(3, 2) \o Be(block, 2) \o data, room)
TftpAck(block, room) == Into(Be(4, 2) \o Be(block, 2), room)
TftpError(code, msg, room) ==
    IF Len(msg) >= 128 THEN Refused ELSE Into(Be(5, 2) \o Be(code, 2) \o msg \o <<0>>, room)

\* Mutant: a string may end with the packet instead of a zero.
FindNulOrEnd(buf, start) ==
    {Min({i \in start..(Len(buf) - 1) : buf[i + 1] = 0} \cup {Len(buf)})}

\* find_nul.
FindNul(buf, start) ==
    LET nuls == {i \in start..(Len(buf) - 1) : buf[i + 1] = 0}
    IN IF nuls = {} THEN Refused ELSE {Min(nuls)}

\* The string at an offset, shorter than its field, and the offset after it.
TftpString(buf, start, size) ==
    {[text |-> Part(buf, start, nul - start), next |-> nul + 1] :
        nul \in {n \in FindNul(buf, start) : n - start < size}}

\* nfs_tftp_parse: what follows the last field of a request, an
\* acknowledgement or an error is not looked at.
TftpParse(buf) ==
    IF Len(buf) < 2 THEN Refused
    ELSE LET op == At16(buf, 0)
         IN CASE op \in {1, 2} ->
                 UNION {{[opcode |-> op, filename |-> f.text, mode |-> m.text] :
                             m \in {x \in TftpString(buf, f.next, 16) : x.text # <<>>}} :
                         f \in {x \in TftpString(buf, 2, 256) : x.text # <<>>}}
              [] op = 3 /\ Len(buf) \in 4..516 ->
                 {[opcode |-> 3, block |-> At16(buf, 2), data |-> From(buf, 4)]}
              [] op = 4 /\ Len(buf) >= 4 -> {[opcode |-> 4, block |-> At16(buf, 2)]}
              [] op = 5 /\ Len(buf) >= 5 ->
                 {[opcode |-> 5, code |-> At16(buf, 2), msg |-> m.text] :
                      m \in TftpString(buf, 4, 128)}
              [] OTHER -> Refused

-----------------------------------------------------------------------------
(* 04/36 quic.c: a value of 64 bits is its eight octets.                   *)

\* nfs_quic_varint_size: two bits of the first octet say how many there are.
VarintSize(v) ==
    LET fits == {n \in {1, 2, 4, 8} : v[9 - n] <= 63 /\ \A i \in 1..(8 - n) : v[i] = 0}
    IN IF fits = {} THEN Refused ELSE {Min(fits)}

VarintPrefix(n) == CASE n = 1 -> 0 [] n = 2 -> 1 [] n = 4 -> 2 [] n = 8 -> 3

VarintEncode(v, room) ==
    UNION {Into([i \in 1..n |-> v[8 - n + i] + (IF i = 1 THEN 64 * VarintPrefix(n) ELSE 0)], room) :
               n \in VarintSize(v)}

\* nfs_quic_varint_decode, with the octets it has used.
VarintDecode(buf) ==
    IF buf = <<>> THEN Refused
    ELSE LET n == 2 ^ (buf[1] \div 64)
         IN IF Len(buf) < n THEN Refused
            ELSE {[value |-> Zeros(8 - n) \o <<buf[1] % 64>> \o Part(buf, 1, n - 1), used |-> n]}

MaxCid == 20

\* nfs_quic_long_hdr_build sets the form bit.
LongHdrBuild(h, room) ==
    IF Len(h.dcid) > MaxCid \/ Len(h.scid) > MaxCid THEN Refused
    ELSE Into(<<128 + (h.first_byte % 128)>> \o h.version \o <<Len(h.dcid)>> \o h.dcid
                  \o <<Len(h.scid)>> \o h.scid, room)

\* A connection identifier behind its length; `after' octets must follow it.
CidAt(buf, off, after) ==
    IF off >= Len(buf) THEN Refused
    ELSE LET len == buf[off + 1]
         IN IF len > MaxCid \/ off + 1 + len + after > Len(buf) THEN Refused
            ELSE {Part(buf, off + 1, len)}

\* nfs_quic_long_hdr_parse.
LongHdrParse(buf) ==
    IF Len(buf) < 7 THEN Refused
    ELSE IF buf[1] < 128 THEN Refused
    ELSE UNION {{[first_byte |-> buf[1], version |-> Part(buf, 1, 4), dcid |-> d, scid |-> s] :
                     s \in CidAt(buf, 6 + Len(d), 0)} : d \in CidAt(buf, 5, 1)}

\* nfs_quic_long_hdr_type.
LongHdrType(first_byte) == (first_byte \div 16) % 4

\* nfs_quic_short_hdr_build clears the form bit and sets the fixed bit.
ShortHdrBuild(h, room) ==
    IF Len(h.dcid) > MaxCid THEN Refused
    ELSE Into(<<64 + (h.first_byte % 64)>> \o h.dcid, room)

ShortHdrParse(buf, dcid_len) ==
    IF dcid_len > MaxCid \/ Len(buf) < 1 + dcid_len THEN Refused
    ELSE IF buf[1] >= 128 THEN Refused
    ELSE {[first_byte |-> buf[1], dcid |-> Part(buf, 1, dcid_len)]}

\* nfs_quic_short_hdr_spin, nfs_quic_short_hdr_key_phase.
SpinAndKeyPhase(first_byte) == <<(first_byte \div 32) % 2, (first_byte \div 4) % 2>>

\* nfs_quic_is_stream_frame, and the bits OFF, LEN, FIN of its type.
IsStreamFrame(type) == type \in 8..15
StreamBits(type) == <<(type \div 4) % 2, (type \div 2) % 2, type % 2>>
-----------------------------------------------------------------------------
(* Sizes of the DNS lessons.                                               *)
Period == 46
MaxName == 255       \* NFS_DNS_MAX_NAME, the size of a name's buffer
MaxJumps == 128
MaxAnswers == 32     \* NFS_DNS_MAX_RR of the resolver
ZoneSize == 128      \* NFS_DNS_MAX_RR of the server
MaxRdata == 512

-----------------------------------------------------------------------------
(* Names.                                                                  *)

\* nfs_dns_name_encode: empty labels are skipped, also between two dots.
NameEncode(name, room) ==
    LET labels == SelectSeq(SplitOn(name, Period), LAMBDA l : l # <<>>)
    IN IF \E i \in DOMAIN labels : Len(labels[i]) > 63 THEN Refused
       ELSE Into(FlattenSeq([i \in DOMAIN labels |-> <<Len(labels[i])>> \o labels[i]]) \o <<0>>, room)

\* Where the pointer at an offset leads, over further pointers, after so many
\* jumps; refused when one is cut off, leaves the message or is one too many.
Follow(buf, start, before) ==
    LET Ptr(cur) == 256 * (buf[cur + 1] % 64) + buf[cur + 2]
        At[cur \in Nat, jumps \in Nat] ==
            IF cur >= Len(buf) THEN Refused
            ELSE IF buf[cur + 1] < 192 THEN {[cur |-> cur, jumps |-> jumps]}
            ELSE IF cur + 1 >= Len(buf) \/ jumps = MaxJumps THEN Refused
            ELSE At[Ptr(cur), jumps + 1]
    IN At[start, before]

\* The labels from an offset on and the octets they take there.  A name that
\* runs into the end of the message is refused, unless a pointer led there.
Labels(buf, start) ==
    LET At[cur \in Nat, jumps \in Nat] ==
            IF cur >= Len(buf) THEN IF jumps = 0 THEN Refused ELSE {[labels |-> <<>>, used |-> 0]}
            ELSE LET len == buf[cur + 1]
                 IN CASE len = 0 -> {[labels |-> <<>>, used |-> 1]}
                      [] len >= 192 ->
                         UNION {{[t EXCEPT !.used = 2] : t \in At[f.cur, f.jumps]} :
                                    f \in Follow(buf, cur, jumps)}
                      [] len \in 64..191 -> Refused
                      [] OTHER ->
                         IF cur + 1 + len > Len(buf) THEN Refused
                         ELSE {[labels |-> <<Part(buf, cur + 1, len)>> \o t.labels,
                                used |-> 1 + len + t.used] : t \in At[cur + 1 + len, jumps]}
    IN At[start, 0]

\* nfs_dns_name_decode into a buffer of MaxName characters.
NameDecode(buf, start) ==
    {n \in {[name |-> JoinWith(t.labels, Period), used |-> t.used] : t \in Labels(buf, start)} :
         Len(n.name) < MaxName}

-----------------------------------------------------------------------------
(* 06/02 dns_resolver.c.                                                   *)

DnsHeader == <<<<"id", 2, "num">>, <<"flags", 2, "num">>, <<"qdcount", 2, "num">>,
               <<"ancount", 2, "num">>, <<"nscount", 2, "num">>, <<"arcount", 2, "num">>>>

IsResponse(flags) == flags >= 32768
Rcode(flags) == flags % 16

Question(encoded, qtype, qclass) == encoded \o Be(qtype, 2) \o Be(qclass, 2)

\* nfs_dns_query_build: one question, recursion desired.
QueryBuild(name, qtype, id, room) ==
    UNION {Into(Pack(DnsHeader, [id |-> id, flags |-> 256, qdcount |-> 1, ancount |-> 0,
                                 nscount |-> 0, arcount |-> 0]) \o Question(n, qtype, 1), room) :
               n \in NameEncode(name, room)}

\* A question at an offset, and one of a section's answers.
QuestionAt(buf, off) ==
    {[name |-> n.name, qtype |-> At16(buf, off + n.used), qclass |-> At16(buf, off + n.used + 2),
      next |-> off + n.used + 4] :
        n \in {m \in NameDecode(buf, off) : off + m.used + 4 <= Len(buf)}}

RrHead == <<<<"type", 2, "num">>, <<"rclass", 2, "num">>, <<"ttl", 4, "raw">>,
            <<"rdlength", 2, "num">>>>

AnswerAt(buf, off) ==
    UNION {LET at == off + n.used + 10
               h == Unpack(RrHead, Part(buf, at - 10, 10))
           IN IF at > Len(buf) THEN Refused
              ELSE IF at + h.rdlength > Len(buf) \/ h.rdlength > MaxRdata THEN Refused
              ELSE {[rr |-> [name |-> n.name, type |-> h.type, rclass |-> h.rclass, ttl |-> h.ttl,
                             rdata |-> Part(buf, at, h.rdlength)],
                     next |-> at + h.rdlength]} : n \in NameDecode(buf, off)}

\* So many questions, answers from an offset on.
Questions(buf, off, count) ==
    LET From_[at \in Nat, n \in Nat] ==
            IF n = 0 THEN {[qs |-> <<>>, next |-> at]}
            ELSE UNION {{[qs |-> <<q>> \o rest.qs, next |-> rest.next] : rest \in From_[q.next, n - 1]} :
                            q \in QuestionAt(buf, at)}
    IN From_[off, count]

Answers(buf, off, count) ==
    LET From_[at \in Nat, n \in Nat] ==
            IF n = 0 THEN {<<>>}
            ELSE UNION {{<<a.rr>> \o rest : rest \in From_[a.next, n - 1]} : a \in AnswerAt(buf, at)}
    IN From_[off, count]

\* nfs_dns_response_parse: every question, the first MaxAnswers answers; the
\* other sections are not read.
ResponseParse(buf) ==
    IF Len(buf) < 12 THEN Refused
    ELSE LET h == Unpack(DnsHeader, buf)
         IN IF ~IsResponse(h.flags) THEN Refused
            ELSE UNION {{[hdr |-> h, answers |-> a,
                          question |-> IF q.qs = <<>> THEN <<>>
                                       ELSE <<q.qs[1].name, q.qs[1].qtype, q.qs[1].qclass>>] :
                             a \in Answers(buf, q.next, Min({h.ancount, MaxAnswers}))} :
                         q \in Questions(buf, 12, h.qdcount)}

-----------------------------------------------------------------------------
(* 06/03 dns_auth.c: a zone has an origin and a sequence of records.       *)

ZoneHasRoom(zone) == Len(zone.rrs) < ZoneSize

\* nfs_dns_zone_init, nfs_dns_zone_add_rr.
ZoneInit(origin) == IF Len(origin) >= MaxName THEN Refused ELSE {[origin |-> origin, rrs |-> <<>>]}
ZoneAddRr(zone, rr) ==
    IF ~ZoneHasRoom(zone) \/ Len(rr.rdata) > MaxRdata \/ Len(rr.name) >= MaxName THEN Refused
    ELSE {[zone EXCEPT !.rrs = Append(@, rr)]}

Rr(name, type, ttl, rdata) == [name |-> name, type |-> type, rclass |-> 1, ttl |-> ttl, rdata |-> rdata]

\* nfs_dns_zone_add_a, _ns, _soa; times and serial of a SOA are 20 octets.
ZoneAddA(zone, name, ttl, addr) == ZoneAddRr(zone, Rr(name, 1, ttl, addr))
ZoneAddNs(zone, name, ttl, nsname) ==
    UNION {ZoneAddRr(zone, Rr(name, 2, ttl, n)) : n \in NameEncode(nsname, MaxName)}
ZoneAddSoa(zone, name, ttl, mname, rname, times) ==
    UNION {UNION {IF Len(m) + Len(r) + 20 > MaxRdata THEN Refused
                  ELSE ZoneAddRr(zone, Rr(name, 6, ttl, m \o r \o times)) :
                      r \in NameEncode(rname, MaxRdata - Len(m))} : m \in NameEncode(mname, MaxRdata)}

\* strcasecmp.
Lower(name) == [i \in DOMAIN name |-> IF name[i] \in 65..90 THEN name[i] + 32 ELSE name[i]]

\* Mutant: names are compared by their octets.
NameEqExact(a, b) == a = b

NameEq(a, b) == Lower(a) = Lower(b)

\* nfs_dns_zone_lookup: type 255 asks for all.
ZoneLookup(zone, qname, qtype) ==
    SelectSeq(zone.rrs, LAMBDA rr : NameEq(rr.name, qname) /\ (qtype = 255 \/ rr.type = qtype))

\* write_rr_wire, for all records of a section; the octets, or refused when a
\* name cannot be encoded.
WriteRrs(rrs) ==
    LET Names(rr) == NameEncode(rr.name, MaxName + 2)
        Wire(rr) == (CHOOSE n \in Names(rr) : TRUE) \o Be(rr.type, 2) \o Be(rr.rclass, 2) \o rr.ttl
                        \o Be(Len(rr.rdata), 2) \o rr.rdata
    IN IF \E i \in DOMAIN rrs : Names(rrs[i]) = Refused THEN Refused
       ELSE {FlattenSeq([i \in DOMAIN rrs |-> Wire(rrs[i])])}

\* QR and AA, RD as asked, and NXDOMAIN for a name that nothing has.
ResponseFlags(zone, flags, qname, answers) ==
    33792 + (IF (flags \div 256) % 2 = 1 THEN 256 ELSE 0)
          + (IF answers = <<>> /\ ZoneLookup(zone, qname, 255) = <<>> THEN 3 ELSE 0)

\* nfs_dns_zone_build_response: the first question, its answers and the
\* zone's name servers.
BuildResponse(zone, query, room) ==
    IF Len(query) < 12 THEN Refused
    ELSE LET h == Unpack(DnsHeader, query)
             Reply(q) ==
                 LET answers == ZoneLookup(zone, q.name, q.qtype)
                     servers == ZoneLookup(zone, zone.origin, 2)
                     head == Pack(DnsHeader, [id |-> h.id, qdcount |-> 1, arcount |-> 0,
                                 flags |-> ResponseFlags(zone, h.flags, q.name, answers),
                                 ancount |-> Len(answers), nscount |-> Len(servers)])
                 IN UNION {{head \o Question(n, q.qtype, q.qclass) \o rrs :
                                rrs \in WriteRrs(answers \o servers)} : n \in NameEncode(q.name, MaxName + 2)}
         IN IF h.qdcount = 0 THEN Refused
            ELSE {r \in UNION {Reply(q) : q \in QuestionAt(query, 12)} : Len(r) <= room}

-----------------------------------------------------------------------------
(* 06/04 dns_transport.c.                                                  *)

UdpMax == 512

\* nfs_dns_tcp_frame, nfs_dns_tcp_unframe with the octets used.
TcpFrame(msg, room) == IF msg = <<>> THEN Refused ELSE Into(Be(Len(msg), 2) \o msg, room)
TcpUnframe(buf) ==
    IF Len(buf) < 2 THEN Refused
    ELSE LET len == At16(buf, 0)
         IN IF len < 12 \/ len + 2 > Len(buf) THEN Refused
            ELSE {[msg |-> Part(buf, 2, len), used |-> 2 + len]}

\* nfs_dns_tcp_parse_stream: the whole messages a stream begins with.
TcpMessage(buf, off) ==
    IF off + 2 > Len(buf) THEN Stop(<<>>)
    ELSE LET len == At16(buf, off)
         IN IF len = 0 \/ off + 2 + len > Len(buf) THEN Stop(<<>>)
            ELSE Item(Part(buf, off + 2, len), off + 2 + len)
TcpParseStream(buf, max) == Walk(buf, 0, max, TcpMessage)

\* nfs_dns_is_truncated, nfs_dns_set_truncated, nfs_dns_clear_truncated.
IsTruncated(msg) == Len(msg) >= 12 /\ (At16(msg, 2) \div 512) % 2 = 1
WithTc(msg, tc) == [msg EXCEPT ![3] = @ - 2 * ((@ \div 2) % 2) + (IF tc THEN 2 ELSE 0)]
SetTruncated(msg) == IF Len(msg) < 12 THEN Refused ELSE {WithTc(msg, TRUE)}
ClearTruncated(msg) == IF Len(msg) < 12 THEN Refused ELSE {WithTc(msg, FALSE)}

\* Where the name at an offset ends; lengths are not checked here.
SkipName(msg, start) ==
    LET At[pos \in Nat] ==
            IF pos >= Len(msg) THEN pos
            ELSE CASE msg[pos + 1] = 0 -> pos + 1
                   [] msg[pos + 1] >= 192 -> pos + 2
                   [] OTHER -> At[pos + 1 + msg[pos + 1]]
    IN At[start]

QuestionsEnd(msg, count) ==
    FoldLeft(LAMBDA pos, i : SkipName(msg, pos) + 4, 12, [i \in 1..count |-> i])

\* Mutant: the counts still promise the records that were cut off.
CutHeaderCounts(h, questionsKept) == [h EXCEPT !.qdcount = IF questionsKept THEN @ ELSE 0]

\* No records are left, and the questions only when they fit.
CutHeader(h, questionsKept) ==
    [h EXCEPT !.ancount = 0, !.nscount = 0, !.arcount = 0, !.qdcount = IF questionsKept THEN @ ELSE 0]

\* nfs_dns_truncate_response: what does not fit becomes its header, with TC,
\* and its questions if they fit.
TruncateResponse(msg, max, room) ==
    IF Len(msg) < 12 \/ max < 12 THEN Refused
    ELSE IF Len(msg) <= max THEN Into(msg, room)
    ELSE LET h == Unpack(DnsHeader, msg)
             end == QuestionsEnd(msg, h.qdcount)
             kept == IF end <= max THEN end ELSE 12
         IN Into(WithTc(Pack(DnsHeader, CutHeader(h, end <= max)) \o Part(msg, 12, kept - 12), TRUE), room)

-----------------------------------------------------------------------------
(* 06/05 edns.c.                                                           *)

MaxOptData == 512
MaxOptions == 16

\* nfs_edns_encode_option, nfs_edns_decode_option.
EdnsOption(opt, room) == Into(Be(opt.code, 2) \o Be(Len(opt.data), 2) \o opt.data, room)
EdnsDecode(buf, off) ==
    IF off + 4 > Len(buf) THEN Refused
    ELSE LET len == At16(buf, off + 2)
         IN IF off + 4 + len > Len(buf) \/ len > MaxOptData THEN Refused
            ELSE Item([code |-> At16(buf, off), data |-> Part(buf, off + 4, len)], off + 4 + len)

\* nfs_edns_build_opt: the root name, type 41, and the payload size and flags
\* in the places of class and TTL.
EdnsBuild(size, ext_rcode, version, do_bit, opts, room) ==
    LET rdata == FlattenSeq([i \in DOMAIN opts |->
                     Be(opts[i].code, 2) \o Be(Len(opts[i].data), 2) \o opts[i].data])
    IN Into(<<0>> \o Be(41, 2) \o Be(size, 2) \o <<ext_rcode, version, IF do_bit THEN 128 ELSE 0, 0>>
                \o Be(Len(rdata), 2) \o rdata, room)

\* nfs_edns_parse_opt: more than MaxOptions options are refused.
EdnsParse(buf) ==
    IF Len(buf) < 11 THEN Refused
    ELSE LET end == 11 + At16(buf, 9)
         IN IF buf[1] # 0 \/ At16(buf, 1) # 41 \/ end > Len(buf) THEN Refused
            ELSE {[udp_payload_size |-> At16(buf, 3), ext_rcode |-> buf[6], version |-> buf[7],
                   do_bit |-> buf[8] >= 128, options |-> opts, used |-> end] :
                      opts \in {o \in Walk(Part(buf, 0, end), 11, Len(buf), EdnsDecode) :
                                    Len(o) <= MaxOptions}}

\* nfs_edns_build_nsid, _cookie, _padding.
EdnsNsid(text) == IF Len(text) > MaxOptData THEN Refused ELSE {[code |-> 3, data |-> text]}
EdnsCookie(client, server) ==
    IF server # <<>> /\ Len(server) \notin 8..32 THEN Refused
    ELSE {[code |-> 10, data |-> client \o server]}
EdnsPadding(len) == IF len > MaxOptData THEN Refused ELSE {[code |-> 12, data |-> Zeros(len)]}
-----------------------------------------------------------------------------
(* 06/12 h2frame.c.                                                        *)

H2Layout == <<<<"length", 3, "num">>, <<"type", 1, "num">>, <<"flags", 1, "num">>,
              <<"stream_id", 4, "raw">>>>

\* The reserved bit of a stream identifier is cleared.
StreamId(octets) == <<octets[1] % 128, octets[2], octets[3], octets[4]>>

\* nfs_h2_frame_build: 24 bits of length.
H2Build(type, flags, stream_id, payload, room) ==
    IF Len(payload) > 16777215 THEN Refused
    ELSE Into(Pack(H2Layout, [length |-> Len(payload), type |-> type, flags |-> flags,
                              stream_id |-> StreamId(stream_id)]) \o payload, room)

\* The payload is there as well.
H2Whole(buf, h) == Len(buf) >= 9 + h.length

\* nfs_h2_frame_parse.
H2Parse(buf) ==
    IF Len(buf) < 9 THEN Refused
    ELSE {[type |-> h.type, flags |-> h.flags, stream_id |-> StreamId(h.stream_id),
           payload |-> Part(buf, 9, h.length)] : h \in {x \in {Unpack(H2Layout, buf)} : H2Whole(buf, x)}}

SettingLayout == <<<<"id", 2, "num">>, <<"value", 4, "raw">>>>

\* nfs_h2_settings_build, nfs_h2_settings_parse.
H2Settings(settings, room) ==
    Into(FlattenSeq([i \in DOMAIN settings |-> Pack(SettingLayout, settings[i])]), room)
H2SettingsParse(payload, max) ==
    IF Len(payload) % 6 # 0 \/ Len(payload) \div 6 > max THEN Refused
    ELSE {[i \in 1..(Len(payload) \div 6) |-> Unpack(SettingLayout, Part(payload, 6 * (i - 1), 6))]}

-----------------------------------------------------------------------------
(* 06/13 hpack.c: integers.  A decoded integer is the first part and the   *)
(* groups of seven bits that are added to it, the lowest first.            *)

MaxPrefix(bits) == 2 ^ bits - 1

\* Groups of seven bits, all but the last with the continuation bit.
HpackGroups(value) ==
    LET From_[v \in Nat] == IF v < 128 THEN <<v>> ELSE <<128 + (v % 128)>> \o From_[v \div 128]
    IN From_[value]

\* nfs_hpack_encode_int.
HpackEncodeInt(value, bits, room) ==
    IF bits \notin 1..8 \/ room = 0 THEN Refused
    ELSE IF value < MaxPrefix(bits) THEN {<<value>>}
    ELSE Into(<<MaxPrefix(bits)>> \o HpackGroups(value - MaxPrefix(bits)), room)

\* Mutant: the prefix is not added when more octets follow.
HpackFirstLost(buf, bits) == IF buf[1] % (2 ^ bits) = MaxPrefix(bits) THEN 0 ELSE buf[1] % (2 ^ bits)

\* The part of the value in the first octet.
HpackFirst(buf, bits) == buf[1] % (2 ^ bits)

\* nfs_hpack_decode_int: at most ten groups.
HpackDecodeInt(buf, bits) ==
    LET last == {i \in 2..Min({Len(buf), 11}) : buf[i] < 128}
    IN IF buf = <<>> \/ bits \notin 1..8 THEN Refused
       ELSE IF buf[1] % (2 ^ bits) < MaxPrefix(bits)
            THEN {[first |-> HpackFirst(buf, bits), groups |-> <<>>, used |-> 1]}
       ELSE IF last = {} THEN Refused
       ELSE {[first |-> HpackFirst(buf, bits), used |-> Min(last),
              groups |-> [i \in 1..(Min(last) - 1) |-> buf[i + 1] % 128]]}

-----------------------------------------------------------------------------
(* 06/16 websocket.c: a length is its eight octets.  NeedMore stands for   *)
(* the return value 1.                                                     *)

NeedMore == {[more |-> TRUE]}

OctetXor(a, b) ==
    LET Bit(n, k) == (n \div (2 ^ k)) % 2
    IN FoldLeft(LAMBDA s, k : s + (2 ^ k) * ((Bit(a, k) + Bit(b, k)) % 2), 0, <<0, 1, 2, 3, 4, 5, 6, 7>>)

\* nfs_ws_mask_payload.
WsMask(data, key) == [i \in DOMAIN data |-> OctetXor(data[i], key[1 + ((i - 1) % 4)])]

\* Seven bits, or 126 and two octets, or 127 and eight.
WsLength(len) ==
    CASE len <= 125 -> <<len>>
      [] len \in 126..65535 -> <<126>> \o Be(len, 2)
      [] OTHER -> <<127>> \o Zeros(4) \o Be(len, 4)

\* nfs_ws_build_frame; key = <<>> stands for an unmasked frame.
WsBuild(opcode, fin, key, payload, room) ==
    LET len == WsLength(Len(payload))
        masked == key # <<>>
    IN Into(<<128 * fin + (opcode % 16), len[1] + (IF masked THEN 128 ELSE 0)>> \o Tail(len) \o key
                \o (IF masked THEN WsMask(payload, key) ELSE payload), room)

\* nfs_ws_parse_frame reads the header; the payload need not be there yet.
WsParse(buf) ==
    IF Len(buf) < 2 THEN NeedMore
    ELSE LET len7 == buf[2] % 128
             ext == CASE len7 <= 125 -> 0 [] len7 = 126 -> 2 [] len7 = 127 -> 8
             len == IF ext = 0 THEN Zeros(7) \o <<len7>> ELSE Zeros(8 - ext) \o Part(buf, 2, ext)
             masked == buf[2] >= 128
             size == 2 + ext + (IF masked THEN 4 ELSE 0)
             b == Split(buf[1], <<1, 3, 4>>)
         IN IF Len(buf) < 2 + ext THEN NeedMore
            ELSE IF len[1] >= 128 THEN Refused
            ELSE IF Len(buf) < size THEN NeedMore
            ELSE {[more |-> FALSE, fin |-> b[1], rsv |-> b[2], opcode |-> b[3], payload_len |-> len,
                   key |-> IF masked THEN Part(buf, size - 4, 4) ELSE <<>>, header_len |-> size]}

-----------------------------------------------------------------------------
(* 06/20 ntp.c: poll and precision are the octets of signed numbers, a     *)
(* timestamp is eight octets on the wire and a number in the arithmetic.   *)

NtpLayout == <<<<"li_vn_mode", 1, "num">>, <<"stratum", 1, "num">>, <<"poll", 1, "num">>,
               <<"precision", 1, "num">>, <<"root_delay", 4, "raw">>, <<"root_dispersion", 4, "raw">>,
               <<"ref_id", 4, "raw">>, <<"ref_ts", 8, "raw">>, <<"origin_ts", 8, "raw">>,
               <<"recv_ts", 8, "raw">>, <<"xmit_ts", 8, "raw">>>>

\* nfs_ntp_build, nfs_ntp_parse; li_vn_mode is the triple of the fields.
NtpBuild(p, room) == Into(Pack(NtpLayout, [p EXCEPT !.li_vn_mode = Join(@, <<2, 3, 3>>)]), room)
NtpParse(buf) ==
    IF Len(buf) < 48 THEN Refused
    ELSE {[Unpack(NtpLayout, buf) EXCEPT !.li_vn_mode = Split(@, <<2, 3, 3>>)]}

\* Mutant: the times of one direction are taken the other way round.
NtpOffset2Swapped(t1, t2, t3, t4) == (t2 - t1) + (t4 - t3)

\* nfs_ntp_offset, twice its value so that it is whole, and nfs_ntp_rtt.
NtpOffset2(t1, t2, t3, t4) == (t2 - t1) + (t3 - t4)
NtpRtt(t1, t2, t3, t4) == (t4 - t1) - (t3 - t2)

-----------------------------------------------------------------------------
(* 06/27 urlenc.c: characters are their codes; `form' tells the form       *)
(* encoding, where a space is a plus, from percent-encoding.               *)

Percent == 37
Plus == 43
Space == 32

\* Mutant: a percent sign goes out as it is.
UnreservedPercent(c) == c \in (48..57) \cup (65..90) \cup (97..122) \cup {45, 95, 46, 126, Percent}

\* is_unreserved: letters, digits, hyphen, underscore, period and tilde.
Unreserved(c) == c \in (48..57) \cup (65..90) \cup (97..122) \cup {45, 95, 46, 126}

\* hex_chars, and hex_val of either case.
HexChar(n) == IF n < 10 THEN 48 + n ELSE 55 + n
HexVal(c) ==
    CASE c \in 48..57 -> {c - 48}
      [] c \in 97..102 -> {c - 87}
      [] c \in 65..70 -> {c - 55}
      [] OTHER -> Refused

\* nfs_url_encode, nfs_form_encode: room for the final zero is needed too.
UrlEncode(text, form, room) ==
    LET Code(c) == IF form /\ c = Space THEN <<Plus>>
                   ELSE IF Unreserved(c) THEN <<c>> ELSE <<Percent, HexChar(c \div 16), HexChar(c % 16)>>
    IN Into(FlattenSeq([i \in DOMAIN text |-> Code(text[i])]), room - 1)

\* One character of an encoded text.
UrlChar(text, off, form) ==
    CASE form /\ text[off + 1] = Plus -> Item(Space, off + 1)
      [] text[off + 1] = Percent ->
         IF off + 3 > Len(text) THEN Refused
         ELSE UNION {UNION {Item(16 * hi + lo, off + 3) : lo \in HexVal(text[off + 3])} :
                         hi \in HexVal(text[off + 2])}
      [] OTHER -> Item(text[off + 1], off + 1)

\* nfs_url_decode, nfs_form_decode.
UrlDecode(text, form, room) ==
    LET Step(buf, off) == UrlChar(buf, off, form)
    IN {t \in Walk(text, 0, Len(text), Step) : Len(t) < room}

-----------------------------------------------------------------------------
(* 06/25 vhost.c: a table has hosts, each with a name, a document root and *)
(* aliases, and the index of the default (0: none).  A request is its      *)
(* version ("none": no line is complete) and its complete header lines.    *)

MaxHosts == 32
MaxAliases == 8
MaxHostname == 256
MaxDocroot == 512

\* nfs_vhost_table_init, nfs_vhost_add, nfs_vhost_add_alias.
VhostInit == [hosts |-> <<>>, default |-> 0]
VhostAdd(table, hostname, docroot, is_default) ==
    IF Len(table.hosts) >= MaxHosts \/ Len(hostname) >= MaxHostname \/ Len(docroot) >= MaxDocroot
    THEN Refused
    ELSE {[hosts |-> Append(table.hosts, [hostname |-> hostname, docroot |-> docroot, aliases |-> <<>>]),
           default |-> IF is_default \/ table.hosts = <<>> THEN Len(table.hosts) + 1 ELSE table.default]}
VhostAddAlias(table, idx, alias) ==
    IF idx \notin DOMAIN table.hosts \/ Len(alias) >= MaxHostname THEN Refused
    ELSE IF Len(table.hosts[idx].aliases) >= MaxAliases THEN Refused
    ELSE {[table EXCEPT !.hosts[idx].aliases = Append(@, alias)]}

VhostHas(vh, name) == NameEq(vh.hostname, name) \/ \E j \in DOMAIN vh.aliases : NameEq(vh.aliases[j], name)

\* nfs_vhost_get_default.
VhostDefault(table) == IF table.default \in DOMAIN table.hosts THEN {table.default} ELSE Refused

\* Mutant: the last of the hosts that have a name is found.
FirstMatchLast(matches) == Max(matches)

\* The search returns at the first match.
FirstMatch(matches) == Min(matches)

\* nfs_vhost_lookup: the index of the host.
VhostLookup(table, name) ==
    LET matches == {i \in DOMAIN table.hosts : VhostHas(table.hosts[i], name)}
    IN IF matches # {} THEN {FirstMatch(matches)} ELSE VhostDefault(table)

OpenBracket == 91
CloseBracket == 93
PortColon == 58

\* The digits a text begins with, as a port of 16 bits.
PortAt(text) ==
    LET stops == {i \in DOMAIN text : text[i] \notin 48..57} \cup {Len(text) + 1}
    IN FoldLeft(LAMBDA p, c : (10 * p + c - 48) % 65536, 0, SubSeq(text, 1, Min(stops) - 1))

\* nfs_vhost_parse_host_value: a bracketed address or what comes before the
\* first colon, and the port, 80 if none is given.
ParseHostValue(value, size) ==
    LET bracketed == value # <<>> /\ value[1] = OpenBracket
        ends == {i \in DOMAIN value : value[i] = IF bracketed THEN CloseBracket ELSE PortColon}
        end == IF ends = {} THEN Len(value) + 1 ELSE Min(ends)
        host == SubSeq(value, IF bracketed THEN 2 ELSE 1, end - 1)
        colon == IF bracketed THEN end + 1 ELSE end
    IN IF (bracketed /\ ends = {}) \/ Len(host) >= size THEN Refused
       ELSE {[host |-> host,
              port |-> IF colon \in DOMAIN value /\ value[colon] = PortColon
                       THEN PortAt(From(value, colon)) ELSE 80]}

HostHeader == <<104, 111, 115, 116>>

SkipSpaces(text) ==
    LET solid == {i \in DOMAIN text : text[i] # Space}
    IN IF solid = {} THEN <<>> ELSE From(text, Min(solid) - 1)

\* nfs_vhost_extract_host: of the first Host line that has something behind
\* the colon; the port is dropped.
ExtractHost(request, size) ==
    LET found == SelectSeq(request.lines, LAMBDA l : Lower(l.name) = HostHeader /\ l.value # <<>>)
    IN IF request.version = "none" \/ found = <<>> THEN Refused
       ELSE IF Len(SkipSpaces(found[1].value)) >= MaxHostname THEN Refused
       ELSE {v.host : v \in ParseHostValue(SkipSpaces(found[1].value), size)}

\* nfs_vhost_route, nfs_vhost_validate_request; "short" is a first line of
\* fewer than eight characters.
VhostRoute(table, request) ==
    LET name == ExtractHost(request, MaxHostname)
    IN IF name = Refused THEN VhostDefault(table) ELSE UNION {VhostLookup(table, n) : n \in name}
VhostValidate(request) ==
    /\ request.version \notin {"none", "short"}
    /\ request.version = "HTTP/1.1" => ExtractHost(request, MaxHostname) # Refused

-----------------------------------------------------------------------------
(* 07/07 tls_record.c.                                                     *)

MaxCiphertext == 16640

RecordLayout == <<<<"content_type", 1, "num">>, <<"version", 2, "num">>, <<"length", 2, "num">>>>

\* nfs_tls_record_build does not check the type, nfs_tls_record_parse does.
RecordBuild(type, version, fragment, room) ==
    IF Len(fragment) > MaxCiphertext THEN Refused
    ELSE Into(Pack(RecordLayout, [content_type |-> type, version |-> version,
                                  length |-> Len(fragment)]) \o fragment, room)
RecordParse(buf) ==
    IF Len(buf) < 5 THEN Refused
    ELSE {[content_type |-> h.content_type, version |-> h.version, fragment |-> Part(buf, 5, h.length),
           used |-> 5 + h.length] :
              h \in {x \in {Unpack(RecordLayout, buf)} :
                        /\ x.content_type \in 20..23
                        /\ x.length <= MaxCiphertext /\ 5 + x.length <= Len(buf)}}

\* nfs_tls_alert_build, nfs_tls_alert_parse: warning or fatal.
AlertBuild(level, description, room) == Into(<<level, description>>, room)
AlertParse(fragment) ==
    IF Len(fragment) < 2 THEN Refused
    ELSE IF fragment[1] \notin {1, 2} THEN Refused
    ELSE {[level |-> fragment[1], description |-> fragment[2]]}

-----------------------------------------------------------------------------
(* 07/08 tls_clienthello.c.                                                *)

MaxExtensions == 16

Counted(body, n) == Be(Len(body), n) \o body

Extension(e) == Be(e.type, 2) \o Counted(e.data, 2)

\* nfs_tls_ch_build.
ChBuild(ch, room) ==
    LET Words(ws) == FlattenSeq([i \in DOMAIN ws |-> Be(ws[i], 2)])
        body == Be(ch.legacy_version, 2) \o ch.random \o Counted(ch.session_id, 1)
                    \o Counted(Words(ch.cipher_suites), 2) \o Counted(ch.compression, 1)
                    \o Counted(FlattenSeq([i \in DOMAIN ch.extensions |-> Extension(ch.extensions[i])]), 2)
    IN Into(<<1>> \o Counted(body, 3), room)

\* Mutant: a vector may reach beyond the message it is in.
VectorFitsBuffer(buf, next, end) == next <= Len(buf)

VectorFits(buf, next, end) == next <= end

\* The vector at an offset behind n octets of length, inside a message that
\* ends at an offset.
VectorAt(buf, off, n, end) ==
    IF off + n > end THEN Refused
    ELSE LET next == off + n + Num(Part(buf, off, n))
         IN IF VectorFits(buf, next, end) THEN {[body |-> Part(buf, off + n, next - off - n), next |-> next]}
            ELSE Refused

\* One turn of the loop: fewer than four octets at the end are ignored.
ExtensionAt(buf, off) ==
    IF off + 4 > Len(buf) THEN Stop(<<>>)
    ELSE LET len == At16(buf, off + 2)
         IN IF off + 4 + len > Len(buf) THEN Refused
            ELSE Item([type |-> At16(buf, off), data |-> Part(buf, off + 4, len)], off + 4 + len)

\* nfs_tls_ch_parse; `used' is what it returns.
ChParse(buf) ==
    LET end == 4 + Num(Part(buf, 1, 3))
        Sids == {v \in VectorAt(buf, 38, 1, end) : Len(v.body) <= 32}
        Suites(off) == {v \in VectorAt(buf, off, 2, end) : Len(v.body) % 2 = 0 /\ Len(v.body) <= 32}
        Methods(off) == {v \in VectorAt(buf, off, 1, end) : Len(v.body) <= 4}
        Read(sid, cs, comp, ext) ==
            {[legacy_version |-> At16(buf, 4), random |-> Part(buf, 6, 32), session_id |-> sid.body,
              cipher_suites |-> [i \in 1..(Len(cs.body) \div 2) |-> At16(cs.body, 2 * (i - 1))],
              compression |-> comp.body, extensions |-> es,
              used |-> FoldLeft(LAMBDA n, e : n + 4 + Len(e.data), comp.next + 2, es)] :
                es \in Walk(ext.body, 0, MaxExtensions, ExtensionAt)}
    IN IF Len(buf) < 4 THEN Refused
       ELSE IF buf[1] # 1 \/ end > Len(buf) \/ end < 38 THEN Refused
       ELSE UNION {UNION {UNION {UNION {Read(sid, cs, comp, ext) : ext \in VectorAt(buf, comp.next, 2, end)} :
                                     comp \in Methods(cs.next)} : cs \in Suites(sid.next)} : sid \in Sids}

\* nfs_tls_ext_iter_next: the extension at the iterator's offset, and where
\* the iterator stands afterwards, also when the extension is cut off.
ExtIterNext(data, off) ==
    IF off + 4 > Len(data) THEN [ext |-> Refused, offset |-> off]
    ELSE LET len == At16(data, off + 2)
         IN IF off + 4 + len > Len(data) THEN [ext |-> Refused, offset |-> off + 4]
            ELSE [ext |-> {[type |-> At16(data, off), data |-> Part(data, off + 4, len)]},
                  offset |-> off + 4 + len]
=============================================================================
