---------------------------- MODULE PacketFormats ---------------------------
(***************************************************************************)
(* Octets, and what goes on the wire below the applications.               *)
(*                                                                         *)
(* First the arithmetic that header codecs share: byte order               *)
(* (phases/01-bits-and-wires/02-bits-bytes-endianness/htonl.c), fields     *)
(* inside a word (04-bit-fields-and-packed-structs/bitfields.c), headers   *)
(* as packed structs, and the Internet checksum (common/c/checksum.c,      *)
(* phases/03-network-layer/02-internet-checksum/incremental.c).  Then the  *)
(* headers, options and addresses of phases/01-bits-and-wires to           *)
(* 04-transport, except TFTP and QUIC, which are in AppFormats.            *)
(*                                                                         *)
(* A buffer is a sequence of octets; `room' is the size of the buffer a    *)
(* builder is given.  A number of more than 31 bits and an address are     *)
(* kept as their octets in network order.  A function that can fail yields *)
(* a set: {} when it returns an error, {x} when it succeeds with x.        *)
(***************************************************************************)
EXTENDS Integers, Sequences, SequencesExt, FiniteSets, FiniteSetsExt

Refused == {}

Zeros(n) == [i \in 1..n |-> 0]

\* The n octets at a C offset, and the octets from it on.
Part(buf, off, n) == SubSeq(buf, off + 1, off + n)
From(buf, off) == SubSeq(buf, off + 1, Len(buf))

-----------------------------------------------------------------------------
(* Byte order.                                                             *)

\* The value of octets in network order.
Num(octets) == FoldLeft(LAMBDA v, b : 256 * v + b, 0, octets)

\* nfs_swap16, nfs_swap32: the octets change places.
Swap(octets) == Reverse(octets)

\* nfs_htons, nfs_htonl as they lie in memory: the highest octet first.  A
\* value that is too large for n octets loses its upper bits.
Be(v, n) == [i \in 1..n |-> (v \div (256 ^ (n - i))) % 256]

\* A word in the order of a little-endian host.
Le(v, n) == Swap(Be(v, n))

At16(buf, off) == Num(Part(buf, off, 2))

\* A builder writes the whole message into the `room' it has, or fails.
Into(buf, room) == IF Len(buf) <= room THEN {buf} ELSE Refused

-----------------------------------------------------------------------------
(* Fields inside a word, the highest first: a shift and a mask per field.  *)

\* Mutant: a field is not masked before it is shifted into place.
JoinUnmasked(values, widths) ==
    FoldLeft(LAMBDA v, i : v * (2 ^ widths[i]) + values[i], 0, [i \in DOMAIN widths |-> i])

Join(values, widths) ==
    FoldLeft(LAMBDA v, i : v * (2 ^ widths[i]) + (values[i] % (2 ^ widths[i])),
             0, [i \in DOMAIN widths |-> i])

Below(widths, i) == FoldLeft(LAMBDA s, w : s + w, 0, SubSeq(widths, i + 1, Len(widths)))

Split(word, widths) ==
    [i \in DOMAIN widths |-> (word \div (2 ^ Below(widths, i))) % (2 ^ widths[i])]

-----------------------------------------------------------------------------
(* Packed structs: a layout is a sequence of <<name, octets, kind>>, where  *)
(* kind "num" is a number in network order, "le" one in little-endian      *)
(* order and "raw" the octets themselves.                                  *)

FieldOctets(v, field) ==
    CASE field[3] = "num" -> Be(v, field[2])
      [] field[3] = "le" -> Le(v, field[2])
      [] field[3] = "raw" -> v

FieldValue(octets, field) ==
    CASE field[3] = "num" -> Num(octets)
      [] field[3] = "le" -> Num(Swap(octets))
      [] field[3] = "raw" -> octets

SizeOf(layout) == FoldLeft(LAMBDA s, f : s + f[2], 0, layout)

Pack(layout, h) == FoldLeft(LAMBDA buf, f : buf \o FieldOctets(h[f[1]], f), <<>>, layout)

Unpack(layout, buf) ==
    LET Index(name) == CHOOSE i \in DOMAIN layout : layout[i][1] = name
        Content(i) == FieldValue(Part(buf, SizeOf(SubSeq(layout, 1, i - 1)), layout[i][2]), layout[i])
    IN [name \in {layout[i][1] : i \in DOMAIN layout} |-> Content(Index(name))]

-----------------------------------------------------------------------------
(* Lists of options: Step(buf, off) reads the option at an offset and      *)
(* yields its items, the offset of the next one and whether the list ends; *)
(* the walk stops there, at the end of the buffer or after max items.      *)

Walk(buf, start, max, Step(_, _)) ==
    LET From_[off \in Nat, left \in Nat] ==
            IF off >= Len(buf) \/ left = 0 THEN {<<>>}
            ELSE UNION {IF s.last THEN {s.items}
                        ELSE {s.items \o rest : rest \in From_[s.next, left - Len(s.items)]} :
                            s \in Step(buf, off)}
    IN From_[start, max]

\* A step that reads the item x, one that reads nothing, and the end.
Item(x, next) == {[items |-> <<x>>, next |-> next, last |-> FALSE]}
Skip(next) == {[items |-> <<>>, next |-> next, last |-> FALSE]}
Stop(items) == {[items |-> items, next |-> 0, last |-> TRUE]}

-----------------------------------------------------------------------------
(* Text: hexadecimal digits by their value, and separators.                *)

Colon == 16
Dash == 17
Dot == 18
Slash == 19

SplitOn(text, sep) ==
    FoldLeft(LAMBDA gs, c : IF c = sep THEN Append(gs, <<>>)
                            ELSE [gs EXCEPT ![Len(gs)] = Append(@, c)], <<<<>>>>, text)

JoinWith(groups, sep) ==
    FoldLeft(LAMBDA t, i : t \o (IF i = 1 THEN <<>> ELSE <<sep>>) \o groups[i],
             <<>>, [i \in DOMAIN groups |-> i])

\* The digits a text begins with, at most so many.
Leading(text, base, width) ==
    LET stops == {i \in DOMAIN text : text[i] >= base} \cup {Len(text) + 1}
    IN SubSeq(text, 1, Min({Min(stops) - 1, width}))

Value(digits, base) == FoldLeft(LAMBDA v, d : base * v + d, 0, digits)

\* sscanf with n hexadecimal numbers of at most so many digits: it reads them
\* all or fails, and does not look at what follows the last.
Scan(text, sep, n, width) ==
    LET groups == SplitOn(text, sep)
        Read(k) == Leading(groups[k], 16, width)
    IN IF /\ Len(groups) >= n
          /\ \A k \in 1..n : Read(k) # <<>> /\ (k < n => Read(k) = groups[k])
       THEN {[k \in 1..n |-> Value(Read(k), 16)]} ELSE Refused

-----------------------------------------------------------------------------
(* The Internet checksum.                                                  *)

\* internet_checksum_partial: words in network order, padded with a zero.
PartialSum(data, seed) ==
    FoldLeft(LAMBDA s, k : s + At16(data, 2 * k - 2), seed, [k \in 1..(Len(data) \div 2) |-> k])
        + (IF Len(data) % 2 = 1 THEN 256 * data[Len(data)] ELSE 0)

\* Adding the carries until there are none: 0 stays 0, a multiple of 65535
\* ends as 65535.
Folded(sum) == IF sum = 0 THEN 0 ELSE 1 + ((sum - 1) % 65535)

Complement(word) == 65535 - word

\* internet_checksum_fold, internet_checksum.
ChecksumFold(sum) == Complement(Folded(sum))
Checksum(data) == ChecksumFold(PartialSum(data, 0))

\* A message with the checksum of the whole in a field that is still zero.
Sealed(buf, off) ==
    LET sum == Be(Checksum(buf), 2) IN [buf EXCEPT ![off + 1] = sum[1], ![off + 2] = sum[2]]

\* Mutant: the old word is added instead of taken out.
ChecksumUpdateKeepsOld(check, old, new) == ChecksumFold(Complement(check) + old + new)

\* internet_checksum_update (RFC 1624, equation 3).
ChecksumUpdate(check, old, new) == ChecksumFold(Complement(check) + Complement(old) + new)

\* internet_checksum_update_n: all words of a field of even length.
ChecksumUpdateN(check, old, new) ==
    ChecksumFold(FoldLeft(LAMBDA s, k : s + Complement(At16(old, 2 * k - 2)) + At16(new, 2 * k - 2),
                          Complement(check), [k \in 1..(Len(old) \div 2) |-> k]))

-----------------------------------------------------------------------------
(* 01/11 wire.c: preambles.                                                *)

Preamble == [i \in 1..8 |-> IF i = 8 THEN 171 ELSE 170]

\* nfs_preamble_detect: the offset of the first start-of-frame delimiter that
\* follows seven preamble octets.
PreambleDetect(data) ==
    LET starts == {i \in 0..(Len(data) - 8) : Part(data, i, 8) = Preamble}
    IN IF starts = {} THEN Refused ELSE {Min(starts) + 7}

-----------------------------------------------------------------------------
(* 01/01 network.c: a first packet format.                                 *)

PktLayout == <<<<"ver_type", 1, "num">>, <<"flags", 1, "num">>, <<"length", 2, "num">>, <<"id", 4, "raw">>>>

\* nfs_pkt_build: the length counts the header too.
PktBuild(version, type, flags, id, payload, room) ==
    LET total == 8 + Len(payload)
    IN IF total > 65535 THEN Refused
       ELSE Into(Pack(PktLayout, [ver_type |-> Join(<<version, type>>, <<4, 4>>), flags |-> flags,
                                  length |-> total, id |-> id]) \o payload, room)

\* nfs_pkt_parse: what follows the packet in the buffer is not its payload.
PktParse(buf) ==
    IF Len(buf) < 8 THEN Refused
    ELSE {[hdr |-> h, payload |-> Part(buf, 8, h.length - 8)] :
              h \in {g \in {Unpack(PktLayout, buf)} : g.length \in 8..Len(buf)}}

-----------------------------------------------------------------------------
(* 05/11 iovec.c: a message spread over buffers, some of them empty.       *)

\* nfs_iov_total_len of the first n buffers.
IovTotalLen(iov, n) == FoldLeft(LAMBDA s, b : s + Len(b), 0, SubSeq(iov, 1, n))

\* Mutant: the copy starts again from the data's beginning in each buffer.
CopiedBeforeNone(iov, i) == 0

\* How much of the data is copied when the loop comes to a buffer.
CopiedBefore(iov, i) == IovTotalLen(iov, i - 1)

\* nfs_iov_scatter: the buffers afterwards; a rest stays as it was.
IovScatter(iov, data) ==
    [i \in DOMAIN iov |->
        LET copied == CopiedBefore(iov, i)
        IN [k \in DOMAIN iov[i] |-> IF copied + k <= Len(data) THEN data[copied + k] ELSE iov[i][k]]]

\* nfs_iov_gather.
IovGather(iov, room) == Into(FlattenSeq(iov), room)

\* nfs_iov_find_byte: the buffer and the offset in it, both from zero.
IovFindByte(iov, index) ==
    LET holding == {i \in DOMAIN iov : index < IovTotalLen(iov, i)}
    IN IF holding = {} THEN Refused
       ELSE {[idx |-> Min(holding) - 1, offset |-> index - IovTotalLen(iov, Min(holding) - 1)]}

-----------------------------------------------------------------------------
(* 02/02 mac.c.                                                            *)

Broadcast == [i \in 1..6 |-> 255]
IsBroadcast(mac) == mac = Broadcast
IsMulticast(mac) == mac[1] % 2 = 1
IsUnicast(mac) == mac[1] % 2 = 0
IsLocal(mac) == (mac[1] \div 2) % 2 = 1

\* nfs_mac_type_str.
MacType(mac) ==
    CASE IsBroadcast(mac) -> "broadcast"
      [] ~IsBroadcast(mac) /\ IsMulticast(mac) -> "multicast"
      [] IsUnicast(mac) /\ IsLocal(mac) -> "unicast/local"
      [] OTHER -> "unicast/global"

MacFormat(mac) == JoinWith([k \in 1..6 |-> <<mac[k] \div 16, mac[k] % 16>>], Colon)

\* nfs_mac_parse: colons or else dashes, each number at most 0xFF.
MacParse(text) ==
    LET Read(sep) == Scan(text, sep, 6, Len(text))
    IN {mac \in IF Read(Colon) # Refused THEN Read(Colon) ELSE Read(Dash) :
            \A k \in 1..6 : mac[k] <= 255}

\* nfs_wol_mac_parse: two digits and a separator of either kind, five times,
\* two digits, and the end.
WolMacParse(text) ==
    IF /\ Len(text) = 17
       /\ \A i \in 1..17 : IF i % 3 = 0 THEN text[i] \in {Colon, Dash} ELSE text[i] < 16
    THEN {[k \in 1..6 |-> 16 * text[3 * k - 2] + text[3 * k - 1]]} ELSE Refused

-----------------------------------------------------------------------------
(* 02/01 ethernet.c, 02/05 frame.c, 02/03 sniff.c, 02/13 mtu.c.            *)

EthLayout == <<<<"dst", 6, "raw">>, <<"src", 6, "raw">>, <<"ethertype", 2, "num">>>>

\* Mutant: short payloads are not padded.
PaddedNot(payload) == payload

\* At least 46 octets of payload.
Padded(payload) == IF Len(payload) < 46 THEN payload \o Zeros(46 - Len(payload)) ELSE payload

\* nfs_eth_build, and nfs_frame_build, which refuses more than 1500 octets.
EthBuild(h, payload, room) == Into(Pack(EthLayout, h) \o Padded(payload), room)
FrameBuild(h, payload, room) ==
    IF Len(payload) > 1500 THEN Refused ELSE EthBuild(h, payload, room)

\* nfs_eth_parse, nfs_parse_eth_frame.
EthParse(frame) ==
    IF Len(frame) < 14 THEN Refused
    ELSE {[hdr |-> Unpack(EthLayout, frame), payload |-> From(frame, 14)]}

\* nfs_frame_parse keeps at most 1500 octets.
FrameParse(frame) ==
    {[p EXCEPT !.payload = SubSeq(@, 1, Min({Len(@), 1500}))] : p \in EthParse(frame)}

\* nfs_frame_valid, for a frame without its FCS.
FrameValid(frame) == Len(frame) >= 60 /\ Len(frame) <= 1514 /\ At16(frame, 12) >= 1536

\* nfs_mtu_frame_valid, for the length of a frame with its FCS.
MtuFrameValid(len, mtu) == len >= 64 /\ len <= 14 + mtu + 4

MtuPayloadFits(len, mtu) == len <= mtu
MtuNeedsFragmentation(len, mtu) == len > mtu

\* The two profiles, and nfs_path_mtu.
MtuProfiles == {[mtu |-> 1500, min_frame |-> 64, max_frame |-> 1518],
                [mtu |-> 9000, min_frame |-> 64, max_frame |-> 9018]}
PathMtu(mtus) == IF mtus = <<>> THEN 0 ELSE Min(Range(mtus))

-----------------------------------------------------------------------------
(* 02/06 arp.c: the responder.                                             *)

ArpLayout == <<<<"hw_type", 2, "num">>, <<"proto_type", 2, "num">>, <<"hw_addr_len", 1, "num">>,
               <<"proto_addr_len", 1, "num">>, <<"opcode", 2, "num">>, <<"sender_hw", 6, "raw">>,
               <<"sender_proto", 4, "raw">>, <<"target_hw", 6, "raw">>, <<"target_proto", 4, "raw">>>>

\* send_arp_reply.
ArpReply(eth, arp, mac, ip) ==
    Pack(EthLayout, [dst |-> eth.src, src |-> mac, ethertype |-> 2054])
        \o Pack(ArpLayout, [hw_type |-> 1, proto_type |-> 2048, hw_addr_len |-> 6,
                            proto_addr_len |-> 4, opcode |-> 2, sender_hw |-> mac,
                            sender_proto |-> ip, target_hw |-> arp.sender_hw,
                            target_proto |-> arp.sender_proto])

\* Mutant: replies are answered as well.
ArpAsksAnything(eth, arp, ip) == eth.ethertype = 2054 /\ arp.target_proto = ip

\* A request for our address.
ArpAsks(eth, arp, ip) == eth.ethertype = 2054 /\ arp.opcode = 1 /\ arp.target_proto = ip

\* One turn of the loop: nothing, or a reply.
ArpRespond(frame, mac, ip) ==
    IF Len(frame) < 42 THEN Refused
    ELSE LET eth == Unpack(EthLayout, frame)
             arp == Unpack(ArpLayout, From(frame, 14))
         IN IF ArpAsks(eth, arp, ip) THEN {ArpReply(eth, arp, mac, ip)} ELSE Refused

-----------------------------------------------------------------------------
(* 02/08 vlan.c.                                                           *)

TciWidths == <<3, 1, 12>>

\* nfs_vlan_set, and nfs_vlan_pcp, _dei, _vid in this order.
VlanTag(pcp, dei, vid) == Be(33024, 2) \o Be(Join(<<pcp, dei, vid>>, TciWidths), 2)
VlanTci(tag) == Split(At16(tag, 2), TciWidths)

VlanIsTagged(frame) == Len(frame) >= 14 /\ At16(frame, 12) = 33024

VlanInsert(frame, vid, pcp, room) ==
    IF Len(frame) < 14 THEN Refused
    ELSE Into(Part(frame, 0, 12) \o VlanTag(pcp, 0, vid) \o From(frame, 12), room)

\* nfs_vlan_tag_strip: the frame without its tag, and the tag's VID.
VlanStrip(frame, room) ==
    IF Len(frame) < 18 \/ ~VlanIsTagged(frame) THEN Refused
    ELSE {[frame |-> f, vid |-> VlanTci(Part(frame, 12, 4))[3]] :
              f \in Into(Part(frame, 0, 12) \o From(frame, 16), room)}

-----------------------------------------------------------------------------
(* 02/09 stp.c: a bridge id is its priority and its address.               *)

BpduHead == <<<<"proto_id", 2, "num">>, <<"version", 1, "num">>, <<"type", 1, "num">>>>
BpduLayout ==
    BpduHead \o <<<<"flags", 1, "num">>, <<"root_id", 8, "raw">>, <<"root_path_cost", 4, "raw">>,
                  <<"sender_id", 8, "raw">>, <<"port_id", 2, "num">>, <<"message_age", 2, "num">>,
                  <<"max_age", 2, "num">>, <<"hello_time", 2, "num">>, <<"forward_delay", 2, "num">>>>

BridgeId(priority, mac) == Be(priority, 2) \o mac

\* nfs_bpdu_build: a topology change notification is the head alone.
BpduBuild(bpdu, room) ==
    CASE bpdu.type = 128 -> Into(Pack(BpduHead, bpdu), room)
      [] bpdu.type = 0 -> Into(Pack(BpduLayout, bpdu), room)
      [] OTHER -> Refused

\* nfs_bpdu_parse: the fields a notification lacks are zero.
BpduParse(buf) ==
    IF Len(buf) < 4 THEN Refused
    ELSE LET head == Unpack(BpduHead, buf)
         IN IF head.proto_id # 0 \/ head.version \notin {0, 2} THEN Refused
            ELSE CASE head.type = 128 -> {Unpack(BpduLayout, Part(buf, 0, 4) \o Zeros(31))}
                   [] head.type = 0 /\ Len(buf) >= 35 -> {Unpack(BpduLayout, buf)}
                   [] OTHER -> Refused

-----------------------------------------------------------------------------
(* 02/16 wifi.c.                                                           *)

\* Frame control, highest bit first: order, protected, more data, power,
\* retry, more fragments, from DS, to DS, subtype, type, version.
FcWidths == <<1, 1, 1, 1, 1, 1, 1, 1, 4, 2, 2>>
FcFields == <<"htc_order", "protected_frame", "more_data", "power_mgmt", "retry", "more_frag",
              "from_ds", "to_ds", "subtype", "type", "version">>

FcPack(fc) == Join([i \in DOMAIN FcFields |-> fc[FcFields[i]]], FcWidths)
FcUnpack(raw) ==
    [f \in Range(FcFields) |-> Split(raw, FcWidths)[CHOOSE i \in DOMAIN FcFields : FcFields[i] = f]]

\* Mutant: data frames never have a fourth address.
WifiHdrSizeNoWds(fc) ==
    IF fc.type = 1 THEN IF fc.subtype \in {12, 13} THEN 10 ELSE 16 ELSE 24

\* nfs_wifi_hdr_size: 10 for CTS and ACK, 16 for other control frames, 30 for
\* data between access points, 24 otherwise.
WifiHdrSize(fc) ==
    CASE fc.type = 1 /\ fc.subtype \in {12, 13} -> 10
      [] fc.type = 1 /\ fc.subtype \notin {12, 13} -> 16
      [] fc.type = 2 /\ fc.to_ds = 1 /\ fc.from_ds = 1 -> 30
      [] OTHER -> 24

WifiLayout == <<<<"fc", 2, "le">>, <<"duration", 2, "le">>, <<"addr1", 6, "raw">>,
                <<"addr2", 6, "raw">>, <<"addr3", 6, "raw">>, <<"seq_ctrl", 2, "le">>,
                <<"addr4", 6, "raw">>>>

\* nfs_wifi_hdr_build: the fields up to the header's size.
WifiBuild(h, room) ==
    Into(SubSeq(Pack(WifiLayout, [h EXCEPT !.fc = FcPack(@)]), 1, WifiHdrSize(h.fc)), room)

\* nfs_wifi_hdr_parse: fields that the header does not reach are zero.
WifiParse(data) ==
    IF Len(data) < 10 THEN Refused
    ELSE LET size == WifiHdrSize(FcUnpack(Num(Swap(Part(data, 0, 2)))))
         IN IF Len(data) < size THEN Refused
            ELSE {[Unpack(WifiLayout, Part(data, 0, size) \o Zeros(30 - size))
                       EXCEPT !.fc = FcUnpack(@)]}

\* nfs_wifi_get_da, _sa, _bssid: which address it is, by direction.
WifiDa(h) == IF h.fc.to_ds = 1 THEN h.addr3 ELSE h.addr1
WifiSa(h) ==
    CASE h.fc.from_ds = 0 -> h.addr2
      [] h.fc.from_ds = 1 /\ h.fc.to_ds = 0 -> h.addr3
      [] OTHER -> h.addr4
WifiBssid(h) ==
    CASE h.fc.to_ds = 0 /\ h.fc.from_ds = 0 -> {h.addr3}
      [] h.fc.to_ds = 1 /\ h.fc.from_ds = 0 -> {h.addr1}
      [] h.fc.to_ds = 0 /\ h.fc.from_ds = 1 -> {h.addr2}
      [] OTHER -> Refused

\* nfs_wifi_seq_ctrl; nfs_wifi_seq_num and nfs_wifi_frag_num in this order.
SeqCtrl(seq, frag) == Join(<<seq, frag>>, <<12, 4>>)
SeqFrag(ctrl) == Split(ctrl, <<12, 4>>)

-----------------------------------------------------------------------------
(* 02/04 tuntap.c, 02/14 wol.c.                                            *)

PiLayout == <<<<"flags", 2, "num">>, <<"proto", 2, "num">>>>

\* nfs_tun_wrap_ip, nfs_tap_wrap_frame: both announce IPv4.
TunWrap(packet, room) == Into(Pack(PiLayout, [flags |-> 0, proto |-> 2048]) \o packet, room)
TunUnwrap(data) ==
    IF Len(data) < 4 THEN Refused
    ELSE {[proto |-> Unpack(PiLayout, data).proto, payload |-> From(data, 4)]}

\* nfs_wol_build, nfs_wol_build_with_password.
WolBuild(mac, password, room) ==
    IF Len(password) \notin {0, 4, 6} THEN Refused
    ELSE Into(Broadcast \o FlattenSeq([i \in 1..16 |-> mac]) \o password, room)

\* Mutant: the copies of the address are not compared.
WolCopiesAny(packet) == TRUE

\* All sixteen copies are the same.
WolCopiesAgree(packet) == \A i \in 1..15 : Part(packet, 6 + 6 * i, 6) = Part(packet, 6, 6)

WolValidate(packet) ==
    IF Len(packet) >= 102 /\ Part(packet, 0, 6) = Broadcast /\ WolCopiesAgree(packet)
    THEN {Part(packet, 6, 6)} ELSE Refused

-----------------------------------------------------------------------------
(* 02/12 pcap.c: a capture file, in the byte order of the host that wrote  *)
(* it.  The host that reads is little-endian.                              *)

PcapMagic == <<161, 178, 195, 212>>

PcapWord(v, n, order) == IF order = "little" THEN Le(v, n) ELSE Be(v, n)

PcapHeader(snaplen, linktype, order) ==
    (IF order = "little" THEN Swap(PcapMagic) ELSE PcapMagic)
        \o PcapWord(2, 2, order) \o PcapWord(4, 2, order) \o Zeros(8)
        \o PcapWord(snaplen, 4, order) \o PcapWord(linktype, 4, order)

PcapPacket(sec, usec, data, order) ==
    PcapWord(sec, 4, order) \o PcapWord(usec, 4, order)
        \o PcapWord(Len(data), 4, order) \o PcapWord(Len(data), 4, order) \o data

\* nfs_pcap_read_header: swapped when the magic is.
PcapReadHeader(file) ==
    LET Word(off, n) == IF Part(file, 0, 4) = PcapMagic THEN Num(Part(file, off, n))
                        ELSE Num(Swap(Part(file, off, n)))
    IN IF Len(file) < 24 \/ Part(file, 0, 4) \notin {PcapMagic, Swap(PcapMagic)} THEN Refused
       ELSE {[major |-> Word(4, 2), minor |-> Word(6, 2), snaplen |-> Word(16, 4),
              linktype |-> Word(20, 4)]}

\* nfs_pcap_read_packet returns 1: no whole record header is left.
PcapAtEnd(file, off) == Len(file) < off + 16

\* nfs_pcap_read_packet at an offset: its header is taken in host order.  A
\* record that is larger than the buffer or cut off is refused.
PcapReadPacket(file, off, room) ==
    LET len == Swap(Part(file, off + 8, 4))
        huge == len[1] # 0 \/ len[2] # 0
    IN IF PcapAtEnd(file, off) \/ huge \/ Num(len) > room \/ Len(file) < off + 16 + Num(len)
       THEN Refused
       ELSE {[ts_sec |-> Num(Swap(Part(file, off, 4))), data |-> Part(file, off + 16, Num(len))]}

-----------------------------------------------------------------------------
(* 03/01 ipv4.c.                                                           *)

Ipv4Layout == <<<<"ver_ihl", 1, "num">>, <<"tos", 1, "num">>, <<"total_length", 2, "num">>,
                <<"identification", 2, "num">>, <<"flags_frag", 2, "num">>, <<"ttl", 1, "num">>,
                <<"protocol", 1, "num">>, <<"checksum", 2, "num">>, <<"src_addr", 4, "raw">>,
                <<"dst_addr", 4, "raw">>>>

\* nfs_ipv4_build: options are zero, the checksum is filled in last.
Ipv4Build(h, room) ==
    LET size == 4 * h.ihl
        words == [ver_ihl |-> Join(<<h.version, h.ihl>>, <<4, 4>>),
                  tos |-> Join(<<h.dscp, h.ecn>>, <<6, 2>>),
                  flags_frag |-> Join(<<h.flags, h.frag_offset>>, <<3, 13>>),
                  total_length |-> h.total_length, identification |-> h.identification,
                  ttl |-> h.ttl, protocol |-> h.protocol, checksum |-> 0,
                  src_addr |-> h.src_addr, dst_addr |-> h.dst_addr]
    IN IF size < 20 \/ room < size THEN Refused
       ELSE {Sealed(Pack(Ipv4Layout, words) \o Zeros(size - 20), 10)}

\* Mutant: the header's own checksum is not verified.
HeaderIntactAlways(buf, size) == TRUE

HeaderIntact(buf, size) == Checksum(Part(buf, 0, size)) = 0

\* nfs_ipv4_parse: version, length of the header and its checksum.
Ipv4Parse(buf) ==
    IF Len(buf) < 20 THEN Refused
    ELSE LET w == Unpack(Ipv4Layout, buf)
             vi == Split(w.ver_ihl, <<4, 4>>)
             tos == Split(w.tos, <<6, 2>>)
             ff == Split(w.flags_frag, <<3, 13>>)
         IN IF vi[1] # 4 \/ vi[2] < 5 \/ Len(buf) < 4 * vi[2] THEN Refused
            ELSE IF ~HeaderIntact(buf, 4 * vi[2]) THEN Refused
            ELSE {[version |-> vi[1], ihl |-> vi[2], dscp |-> tos[1], ecn |-> tos[2],
                   flags |-> ff[1], frag_offset |-> ff[2], total_length |-> w.total_length,
                   identification |-> w.identification, ttl |-> w.ttl, protocol |-> w.protocol,
                   src_addr |-> w.src_addr, dst_addr |-> w.dst_addr]}

-----------------------------------------------------------------------------
(* 03/03 cidr.c.                                                           *)

\* The bits of octet i that lie in a prefix, and an address cut to them.
InPrefix(p, i) == Max({0, Min({8, p - 8 * (i - 1)})})
FirstBits(addr, p) == [i \in DOMAIN addr |-> addr[i] - (addr[i] % (2 ^ (8 - InPrefix(p, i))))]

CidrMask(p) == FirstBits(<<255, 255, 255, 255>>, p)
CidrNetwork(c) == FirstBits(c.addr, c.prefix_len)
CidrBroadcast(c) ==
    [i \in 1..4 |-> CidrNetwork(c)[i] + (2 ^ (8 - InPrefix(c.prefix_len, i))) - 1]

\* nfs_cidr_host_count, as octets: network and broadcast are not hosts, but
\* a /31 has two and a /32 one.
CidrHostCount(p) ==
    CASE p >= 32 -> Be(1, 4)
      [] p = 31 -> Be(2, 4)
      [] p = 0 -> <<255, 255, 255, 254>>
      [] OTHER -> Be(2 * ((2 ^ (31 - p)) - 1), 4)

CidrContains(c, ip) == FirstBits(ip, c.prefix_len) = CidrNetwork(c)

\* Mutant: the longer of the two prefixes is compared.
CommonPrefixLonger(a, b) == Max({a.prefix_len, b.prefix_len})

CommonPrefix(a, b) == Min({a.prefix_len, b.prefix_len})

CidrOverlap(a, b) == LET p == CommonPrefix(a, b) IN FirstBits(a.addr, p) = FirstBits(b.addr, p)

Decimal(n) ==
    IF n >= 100 THEN <<n \div 100, (n \div 10) % 10, n % 10>>
    ELSE IF n >= 10 THEN <<n \div 10, n % 10>> ELSE <<n>>

IsNumber(group) == group # <<>> /\ Leading(group, 10, Len(group)) = group

IpFormat(ip) == JoinWith([k \in 1..4 |-> Decimal(ip[k])], Dot)

\* nfs_ip_parse: four decimal numbers, nothing after them.
IpParse(text) ==
    LET groups == SplitOn(text, Dot)
    IN IF Len(groups) = 4 /\ \A k \in 1..4 : IsNumber(groups[k]) /\ Value(groups[k], 10) <= 255
       THEN {[k \in 1..4 |-> Value(groups[k], 10)]} ELSE Refused

CidrFormat(c) == IpFormat(c.addr) \o <<Slash>> \o Decimal(c.prefix_len)

\* nfs_cidr_parse: at the first slash.
CidrParse(text) ==
    LET groups == SplitOn(text, Slash)
    IN IF Len(groups) # 2 \/ Len(groups[1]) >= 16 THEN Refused
       ELSE IF ~IsNumber(groups[2]) \/ Value(groups[2], 10) > 32 THEN Refused
       ELSE {[addr |-> ip, prefix_len |-> Value(groups[2], 10)] : ip \in IpParse(groups[1])}

-----------------------------------------------------------------------------
(* 03/09 icmp.c.                                                           *)

IcmpLayout == <<<<"type", 1, "num">>, <<"code", 1, "num">>, <<"checksum", 2, "num">>,
                <<"id", 2, "num">>, <<"seq", 2, "num">>>>

IcmpEchoRequest(id, seq, payload, room) ==
    {Sealed(m, 2) : m \in Into(Pack(IcmpLayout, [type |-> 8, code |-> 0, checksum |-> 0,
                                                 id |-> id, seq |-> seq]) \o payload, room)}

IcmpParse(buf) == IF Len(buf) < 8 THEN Refused ELSE {Unpack(IcmpLayout, buf)}

IcmpValid(buf) == Len(buf) >= 8 /\ Checksum(buf) = 0

-----------------------------------------------------------------------------
(* 03/11 ip_opts.c.                                                        *)

\* The option at an offset; the end of the list counts as one.
IpOption(buf, off) ==
    CASE buf[off + 1] = 0 -> Stop(<<[type |-> 0, length |-> 0, data |-> <<>>]>>)
      [] buf[off + 1] = 1 -> Item([type |-> 1, length |-> 0, data |-> <<>>], off + 1)
      [] OTHER ->
         IF off + 1 >= Len(buf) THEN Refused
         ELSE LET len == buf[off + 2]
              IN IF len < 2 \/ off + len > Len(buf) THEN Refused
                 ELSE Item([type |-> buf[off + 1], length |-> len,
                            data |-> Part(buf, off + 2, Min({len - 2, 38}))], off + len)

IpOptsParse(buf, max) == Walk(buf, 0, max, IpOption)

\* nfs_ip_opts_build_rr and _ts: empty slots behind a pointer to the first.
RecordRoute(hops, room) ==
    IF hops < 1 \/ 3 + 4 * hops > 40 THEN Refused
    ELSE Into(<<7, 3 + 4 * hops, 4>> \o Zeros(4 * hops), room)
Timestamps(slots, room) ==
    IF slots < 1 \/ 4 + 4 * slots > 40 THEN Refused
    ELSE Into(<<68, 4 + 4 * slots, 5, 0>> \o Zeros(4 * slots), room)

Missing(len) == (4 - (len % 4)) % 4

\* nfs_ip_opts_pad: no-operations, and the end of the list in the last octet.
IpOptsPad(opts) ==
    LET pad == Missing(Len(opts))
    IN IF Len(opts) + pad > 40 THEN Refused
       ELSE {opts \o [i \in 1..pad |-> IF i = pad THEN 0 ELSE 1]}

-----------------------------------------------------------------------------
(* 03/12 ipv6.c, 03/13 ipv6_addr.c, 03/15 slaac.c.                         *)

\* The flow label is kept as its upper four bits and two octets.
Ipv6Build(tc, flow, next_hdr, hop_limit, src, dst, payload_len, room) ==
    Into(<<96 + (tc \div 16), 16 * (tc % 16) + (flow[1] % 16), flow[2], flow[3]>>
             \o Be(payload_len, 2) \o <<next_hdr, hop_limit>> \o src \o dst, room)

Ipv6Parse(buf) ==
    IF Len(buf) < 40 \/ buf[1] \div 16 # 6 THEN Refused
    ELSE {[tc |-> 16 * (buf[1] % 16) + (buf[2] \div 16), flow |-> <<buf[2] % 16, buf[3], buf[4]>>,
           payload_len |-> At16(buf, 4), next_hdr |-> buf[7], hop_limit |-> buf[8],
           src |-> Part(buf, 8, 16), dst |-> Part(buf, 24, 16)]}

Hex4(hi, lo) == <<hi \div 16, hi % 16, lo \div 16, lo % 16>>
Ipv6Format(addr) == JoinWith([k \in 1..8 |-> Hex4(addr[2 * k - 1], addr[2 * k])], Colon)

Ipv6Octets(groups) == FlattenSeq([k \in 1..8 |-> Be(groups[k], 2)])

\* nfs_ipv6_addr_parse of ipv6.c: 39 characters, a colon after every four.
Ipv6ParseFull(text) ==
    IF Len(text) = 39 /\ \A k \in 1..7 : text[5 * k] = Colon
    THEN {Ipv6Octets(groups) : groups \in Scan(text, Colon, 8, 4)} ELSE Refused

\* nfs_ipv6_addr_parse of ipv6_addr.c: eight groups of one to four digits.
Ipv6ParseGroups(text) ==
    LET groups == SplitOn(text, Colon)
    IN IF Len(groups) = 8 /\ \A k \in 1..8 : groups[k] # <<>> /\ Leading(groups[k], 16, 4) = groups[k]
       THEN {Ipv6Octets([k \in 1..8 |-> Value(groups[k], 16)])} ELSE Refused

IsLoopback(addr) == addr = Zeros(15) \o <<1>>
IsUnspecified(addr) == addr = Zeros(16)
IsLinkLocal(addr) == addr[1] = 254 /\ addr[2] \div 64 = 2
IsMulticast6(addr) == addr[1] = 255
IsUla(addr) == addr[1] \div 2 = 126
IsGlobal(addr) == addr[1] \div 32 = 1

\* nfs_ipv6_addr_type_str: the first that applies.
Ipv6Type(addr) ==
    CASE IsLoopback(addr) -> "loopback"
      [] IsUnspecified(addr) -> "unspecified"
      [] IsMulticast6(addr) -> "multicast"
      [] IsLinkLocal(addr) -> "link-local"
      [] IsUla(addr) -> "unique local"
      [] IsGlobal(addr) -> "global unicast"
      [] ~(\/ IsLoopback(addr) \/ IsUnspecified(addr) \/ IsMulticast6(addr)
           \/ IsLinkLocal(addr) \/ IsUla(addr) \/ IsGlobal(addr)) -> "other"

\* Mutant: the universal/local bit is set rather than flipped.
FlipUlSet(b) == IF (b \div 2) % 2 = 1 THEN b ELSE b + 2

\* mac[0] ^ 0x02.
FlipUl(b) == IF (b \div 2) % 2 = 1 THEN b - 2 ELSE b + 2

\* nfs_slaac_eui64, nfs_ipv6_addr_from_eui64.
Eui64(mac) == <<FlipUl(mac[1]), mac[2], mac[3], 255, 254, mac[4], mac[5], mac[6]>>
FromEui64(mac, prefix) == prefix \o Eui64(mac)
LinkLocal(mac) == FromEui64(mac, <<254, 128>> \o Zeros(6))

\* nfs_ipv6_addr_solicited_node, nfs_slaac_solicited_node.
SolicitedNode(addr) == <<255, 2>> \o Zeros(9) \o <<1, 255>> \o Part(addr, 13, 3)

\* nfs_slaac_generate_addr: a prefix of up to 64 bits is filled with zeros, a
\* longer one leaves only the bits after it to the interface identifier.
SlaacAddress(prefix, len, mac) ==
    IF len > 128 THEN Refused
    ELSE IF len <= 64 THEN {FirstBits(Part(prefix, 0, 8), len) \o Eui64(mac)}
    ELSE {Part(prefix, 0, 8) \o
              [i \in 1..8 |-> FirstBits(prefix, len)[8 + i]
                                  + (Eui64(mac)[i] % (2 ^ (8 - InPrefix(len, 8 + i))))]}

SlaacPrefixValid(prefix, len, reject_linklocal) ==
    /\ len = 64
    /\ ~IsMulticast6(prefix) /\ ~(reject_linklocal /\ IsLinkLocal(prefix))
    /\ ~IsLoopback(prefix) /\ ~IsUnspecified(prefix)

-----------------------------------------------------------------------------
(* 03/14 ndp.c.                                                            *)

NdpHead == <<<<"type", 1, "num">>, <<"code", 1, "num">>, <<"checksum", 2, "num">>>>

\* Router solicitation 133 and advertisement 134, neighbour solicitation 135
\* and advertisement 136.
NdpLayout(type) ==
    NdpHead \o
    CASE type = 133 -> <<<<"reserved", 4, "raw">>>>
      [] type = 134 -> <<<<"cur_hop_limit", 1, "num">>, <<"flags", 1, "num">>,
                         <<"router_lifetime", 2, "num">>, <<"reachable_time", 4, "raw">>,
                         <<"retrans_timer", 4, "raw">>>>
      [] type = 135 -> <<<<"reserved", 4, "raw">>, <<"target", 16, "raw">>>>
      [] type = 136 -> <<<<"flags", 4, "raw">>, <<"target", 16, "raw">>>>

\* build_lla_option: the source's address, or in 136 the target's; <<>> stands
\* for no address.
NdpLla(type, mac) ==
    IF mac = <<>> THEN <<>> ELSE <<IF type = 136 THEN 2 ELSE 1, 1>> \o mac

\* nfs_ndp_build_ns, _na, _rs, _ra; code, checksum and reserved are zero.
NdpBuild(h, mac, room) == Into(Pack(NdpLayout(h.type), h) \o NdpLla(h.type, mac), room)

\* nfs_ndp_parse_ns, _na, _rs, _ra.
NdpParse(type, buf) ==
    IF Len(buf) < SizeOf(NdpLayout(type)) \/ buf[1] # type \/ buf[2] # 0 THEN Refused
    ELSE {Unpack(NdpLayout(type), buf)}

\* nfs_ndp_parse_type; a redirect (137) has at least 40 octets.
NdpType(buf) ==
    IF Len(buf) < 4 \/ buf[1] \notin 133..137 THEN Refused
    ELSE LET least == IF buf[1] = 137 THEN 40 ELSE SizeOf(NdpLayout(buf[1]))
         IN IF Len(buf) < least \/ buf[2] # 0 THEN Refused ELSE {buf[1]}

\* Mutant: a length of zero is taken for an empty option.
NdpLengthValidAny(buf, off) == off + 8 * buf[off + 2] <= Len(buf)

\* Lengths are in units of eight octets, and not zero.
NdpLengthValid(buf, off) == buf[off + 2] # 0 /\ off + 8 * buf[off + 2] <= Len(buf)

\* nfs_ndp_option_next: total_len has eight bits.
NdpOptionNext(buf, off) ==
    IF off + 2 > Len(buf) THEN Refused
    ELSE IF ~NdpLengthValid(buf, off) THEN Refused
    ELSE LET total == 8 * buf[off + 2]
         IN Item([type |-> buf[off + 1], total_len |-> total % 256,
                  data |-> Part(buf, off + 2, total - 2)], off + total)

-----------------------------------------------------------------------------
(* 03/16 dhcp.c.                                                           *)

DhcpCookie == <<99, 130, 83, 99>>

\* One option: the end, padding, or a code, a length and so many octets.
DhcpOption(buf, off) ==
    CASE buf[off + 1] = 255 -> Stop(<<>>)
      [] buf[off + 1] = 0 -> Skip(off + 1)
      [] OTHER ->
         IF off + 1 >= Len(buf) THEN Refused
         ELSE LET len == buf[off + 2]
              IN IF off + 2 + len > Len(buf) THEN Refused
                 ELSE Item([code |-> buf[off + 1], data |-> Part(buf, off + 2, len)], off + 2 + len)

\* nfs_dhcp_parse_options: all are checked, the first max are kept.
DhcpOptions(buf, max) ==
    IF Len(buf) < 4 \/ Part(buf, 0, 4) # DhcpCookie THEN Refused
    ELSE {SubSeq(opts, 1, Min({Len(opts), max})) : opts \in Walk(buf, 4, Len(buf), DhcpOption)}

\* nfs_dhcp_build_discover: flags is written in host order.
DhcpDiscover(mac, xid, room) ==
    Into(<<1, 1, 6, 0>> \o xid \o Zeros(2) \o Le(128, 2) \o Zeros(16) \o mac \o Zeros(10)
             \o Zeros(192) \o DhcpCookie \o <<53, 1, 1, 255>> \o Zeros(304), room)

\* nfs_dhcp_get_msg_type: of the first option 53 that is not empty.
DhcpMessageType(opts) ==
    LET found == SelectSeq(opts, LAMBDA o : o.code = 53 /\ o.data # <<>>)
    IN IF found = <<>> THEN Refused ELSE {found[1].data[1]}

-----------------------------------------------------------------------------
(* 03/19 tunnel.c.                                                         *)

\* nfs_ipip_encapsulate: an outer header with DF and protocol 4.
IpipEncapsulate(src, dst, ttl, inner, room) ==
    LET outer == Pack(Ipv4Layout, [ver_ihl |-> 69, tos |-> 0, total_length |-> 20 + Len(inner),
                     identification |-> 0, flags_frag |-> 16384, ttl |-> ttl, protocol |-> 4,
                     checksum |-> 0, src_addr |-> src, dst_addr |-> dst])
    IN IF 20 + Len(inner) > 65535 THEN Refused ELSE Into(Sealed(outer, 10) \o inner, room)

\* nfs_ipip_decapsulate: total_len says where the inner packet ends.
IpipDecapsulate(buf) ==
    IF Len(buf) < 20 THEN Refused
    ELSE LET w == Unpack(Ipv4Layout, buf)
             ihl == 4 * (w.ver_ihl % 16)
         IN IF \/ w.ver_ihl \div 16 # 4 \/ ihl < 20 \/ ihl > Len(buf) \/ w.protocol # 4
               \/ w.total_length > Len(buf) \/ w.total_length < ihl
            THEN Refused ELSE {Part(buf, ihl, w.total_length - ihl)}

\* GRE: checksum 0x8000, key 0x2000, sequence number 0x1000.
GreFlagWord(flags) ==
    (IF "C" \in flags THEN 32768 ELSE 0) + (IF "K" \in flags THEN 8192 ELSE 0)
        + (IF "S" \in flags THEN 4096 ELSE 0)
GreFlags(word) == {f \in {"C", "K", "S"} : (word \div GreFlagWord({f})) % 2 = 1}

GreEncapsulate(flags, protocol, key, seq, payload, room) ==
    LET Given(f, octets) == IF f \in flags THEN octets ELSE <<>>
        packet == Be(GreFlagWord(flags), 2) \o Be(protocol, 2) \o Given("C", Zeros(4))
                      \o Given("K", key) \o Given("S", seq) \o payload
    IN Into(IF "C" \in flags THEN Sealed(packet, 4) ELSE packet, room)

\* Mutant: a key is looked for at the same place with and without a checksum.
GreOffsetFixed(flags, f) == IF f = "S" /\ "K" \in flags THEN 8 ELSE 4

\* Where an optional field begins: four octets for every one before it.
GreOffset(flags, f) ==
    4 + 4 * Cardinality(flags \cap (IF f = "K" THEN {"C"} ELSE {"C", "K"}))

\* nfs_gre_parse: the checksum is not verified.
GreParse(buf) ==
    IF Len(buf) < 4 THEN Refused
    ELSE LET flags == GreFlags(At16(buf, 0))
             Given(f) == IF f \in flags THEN Part(buf, GreOffset(flags, f), 4) ELSE Zeros(4)
         IN IF At16(buf, 0) % 8 # 0 \/ Len(buf) < 4 + 4 * Cardinality(flags) THEN Refused
            ELSE {[flags |-> flags, protocol |-> At16(buf, 2), key |-> Given("K"),
                   seq |-> Given("S"), hdr_len |-> 4 + 4 * Cardinality(flags)]}

GrePayload(buf) == {From(buf, h.hdr_len) : h \in GreParse(buf)}

-----------------------------------------------------------------------------
(* 04/02 udp.c, 04/03 udp_csum.c.                                          *)

UdpLayout == <<<<"src_port", 2, "num">>, <<"dst_port", 2, "num">>, <<"length", 2, "num">>,
               <<"checksum", 2, "num">>>>

\* nfs_udp_build writes the fields it is given.
UdpBuild(h, payload, room) == Into(Pack(UdpLayout, h) \o payload, room)

\* nfs_udp_parse: the length field covers the header; it is not compared with
\* the buffer.
UdpParse(buf) ==
    IF Len(buf) < 8 THEN Refused ELSE {h \in {Unpack(UdpLayout, buf)} : h.length >= 8}

\* Mutant: the destination is left out of the pseudo-header.
PseudoHeaderNoDst(src, dst, protocol, len) == src \o <<0, protocol>> \o Be(len, 2)

PseudoHeader(src, dst, protocol, len) == src \o dst \o <<0, protocol>> \o Be(len, 2)

\* The checksum over pseudo-header and segment.
SegmentChecksum(src, dst, protocol, segment) ==
    ChecksumFold(PartialSum(segment,
                            PartialSum(PseudoHeader(src, dst, protocol, Len(segment)), 0)))

\* nfs_udp_checksum_ipv4, nfs_udp_checksum: zero is sent as 0xFFFF.
UdpChecksum(src, dst, segment) ==
    LET sum == SegmentChecksum(src, dst, 17, segment) IN IF sum = 0 THEN 65535 ELSE sum

\* nfs_udp_validate, nfs_udp_verify_checksum: zero means not computed.
UdpValid(src, dst, segment) ==
    /\ Len(segment) >= 8
    /\ At16(segment, 6) = 0 \/ SegmentChecksum(src, dst, 17, segment) = 0

-----------------------------------------------------------------------------
(* 04/07 tcp_hdr.c, 04/08 tcp_csum.c, 04/09 tcp.c.                         *)

TcpLayout == <<<<"src_port", 2, "num">>, <<"dst_port", 2, "num">>, <<"seq", 4, "raw">>,
               <<"ack", 4, "raw">>, <<"data_off_flags", 2, "num">>, <<"window", 2, "num">>,
               <<"checksum", 2, "num">>, <<"urgent", 2, "num">>>>

\* nfs_tcp_data_offset, nfs_tcp_flags.
TcpDataOffset(h) == h.data_off_flags \div 4096
TcpFlags(h) == h.data_off_flags % 512

\* nfs_tcp_build: a header without options; checksum and urgent are zero.
TcpBuild(h, room) ==
    Into(Pack(TcpLayout, [src_port |-> h.src_port, dst_port |-> h.dst_port, seq |-> h.seq,
                          ack |-> h.ack, data_off_flags |-> 20480 + (h.flags % 512),
                          window |-> h.window, checksum |-> 0, urgent |-> 0]), room)

\* Mutant: the options a header announces may be missing.
OptionsPresentAny(h, len) == TcpDataOffset(h) >= 5

\* The header reaches as far as it says, which is at least its fixed part.
OptionsPresent(h, len) == TcpDataOffset(h) >= 5 /\ len >= 4 * TcpDataOffset(h)

\* nfs_tcp_parse of tcp_hdr.c.
TcpParse(buf) ==
    IF Len(buf) < 20 THEN Refused
    ELSE {h \in {Unpack(TcpLayout, buf)} : OptionsPresent(h, Len(buf))}

\* serialize_hdr and nfs_tcp_parse of tcp.c, which does not look for options.
SegmentSerialize(h, room) == Into(Pack(TcpLayout, h), room)
SegmentParse(buf) ==
    IF Len(buf) < 20 THEN Refused
    ELSE {h \in {Unpack(TcpLayout, buf)} : TcpDataOffset(h) >= 5}

\* nfs_tcp_checksum, nfs_tcp_verify_checksum.
TcpChecksum(src, dst, segment) == SegmentChecksum(src, dst, 6, segment)
TcpValid(src, dst, segment) == Len(segment) >= 20 /\ SegmentChecksum(src, dst, 6, segment) = 0

-----------------------------------------------------------------------------
(* 04/14 wscale.c.                                                         *)

MaxShift == 14
ShiftUsed(shift) == Min({shift, MaxShift})

\* nfs_wscale_apply, nfs_wscale_compress, nfs_wscale_compute.
WscaleApply(window, shift) == window * (2 ^ ShiftUsed(shift))
WscaleCompress(window, shift) == Min({window \div (2 ^ ShiftUsed(shift)), 65535})

\* Mutant: one shift less is thought to be enough.
WscaleComputeShort(window) == Min({s \in 0..MaxShift : window \div (2 ^ s) <= 131071} \cup {MaxShift})

WscaleCompute(window) == Min({s \in 0..MaxShift : window \div (2 ^ s) <= 65535} \cup {MaxShift})

\* nfs_wscale_build_option refuses a shift that is too large,
\* nfs_wscale_parse_option does not.
WscaleOption(shift, room) == IF shift > MaxShift THEN Refused ELSE Into(<<3, 3, shift>>, room)
WscaleParse(buf) ==
    IF Len(buf) < 3 THEN Refused ELSE IF Part(buf, 0, 2) # <<3, 3>> THEN Refused ELSE {buf[3]}

-----------------------------------------------------------------------------
(* 04/15 tcp_opts.c.                                                       *)

\* The builders of options, by kind; value is what follows kind and length.
TcpOption(kind, value, room) == Into(<<kind, 2 + Len(value)>> \o value, room)

\* The lengths a kind may have: MSS, window scale, SACK permitted, SACK with
\* at most four blocks, timestamps, and any for another kind.
TcpOptionFits(kind, len) ==
    CASE kind = 2 -> len = 4
      [] kind = 3 -> len = 3
      [] kind = 4 -> len = 2
      [] kind = 5 -> (len - 2) % 8 = 0 /\ (len - 2) \div 8 <= 4
      [] kind = 8 -> len = 10
      [] OTHER -> TRUE

\* An option without data, and one whose data is not kept.
TcpOptionRead(buf, off) ==
    CASE buf[off + 1] = 0 -> Stop(<<>>)
      [] buf[off + 1] = 1 -> Item([kind |-> 1, length |-> 1, data |-> <<>>], off + 1)
      [] OTHER ->
         IF off + 1 >= Len(buf) THEN Refused
         ELSE LET kind == buf[off + 1]
                  len == buf[off + 2]
              IN IF len < 2 \/ off + len > Len(buf) THEN Refused
                 ELSE IF ~TcpOptionFits(kind, len) THEN Refused
                 ELSE Item([kind |-> kind, length |-> len,
                            data |-> IF kind \in {2, 3, 5, 8} THEN Part(buf, off + 2, len - 2)
                                     ELSE <<>>], off + len)

TcpOptsParse(buf, max) == Walk(buf, 0, max, TcpOptionRead)

\* nfs_tcp_opts_pad: the end of the list, then no-operations.
TcpOptsPad(opts) ==
    opts \o [i \in 1..((4 - (Len(opts) % 4)) % 4) |-> IF i = 1 THEN 0 ELSE 1]

\* 04/19 sack.c, nfs_sack_build_option and nfs_sack_parse_option: a block is
\* its two edges.  A scoreboard without blocks writes nothing.
SackOption(blocks, room) ==
    IF blocks = <<>> THEN {<<>>}
    ELSE Into(<<5, 2 + 8 * Len(blocks)>> \o FlattenSeq([i \in DOMAIN blocks |-> blocks[i].left \o blocks[i].right]),
              room)
SackParse(buf, max) ==
    IF Len(buf) < 2 \/ buf[1] # 5 \/ buf[2] < 2 \/ buf[2] > Len(buf) \/ buf[2] % 8 # 2 THEN Refused
    ELSE {[i \in 1..Min({(buf[2] - 2) \div 8, max}) |->
              [left |-> Part(buf, 8 * i - 6, 4), right |-> Part(buf, 8 * i - 2, 4)]]}
=============================================================================
