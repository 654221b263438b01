------------------------------ MODULE MCCodecs ------------------------------
(***************************************************************************)
(* The encoders and decoders on every short message: a message grows by a  *)
(* symbol at a time, from an alphabet that holds the symbols its code      *)
(* treats apart, and line noise flips some of its bits.  A zone of the     *)
(* name server and a table of virtual hosts grow by an entry at a time.    *)
(* `which' is chosen once.                                                 *)
(***************************************************************************)
EXTENDS AppFormats

VARIABLES
    which,
    data,             \* the message, or the entries added so far
    noise,            \* the bits of it that the line has flipped
    start, near, far, \* a sequence number, and two distances walked from it
    tx_frames, rx_frames, dropped, bit_errors, promiscuous, total_seen, accepted, rejected,
    broadcast_count, multicast_count, unicast_count, other_unicast,
    buffer, misjudged                                              \* VirtualWire

FullBlock == 4     \* COBS blocks of up to three bytes
HalfCircle == 4    \* sequence numbers of three bits

LineCodes == INSTANCE LineCodes
Seqnum == INSTANCE Seqnum WITH Half <- HalfCircle
Wire == INSTANCE VirtualWire WITH AddrBits <- {0, 1, 2}, LocalMac <- {1},
            Senders <- {{1}, {2}, {0, 2}, {0, 1, 2}}, MaxFlips <- 1, MaxFrames <- 3

ASSUME CodecSuiteConstants ==
    LineCodes!FramingConstants /\ Seqnum!SeqnumConstants /\ Wire!VirtualWireConstants

\* Names that differ in case, one that is a part of another, and a stranger.
Ex == <<101, 120>>
ExUpper == <<69, 88>>
WwwEx == <<119, 46, 101, 120>>
Stranger == <<122>>

Addr == <<10, 0, 0, 1>>
Ttl == <<0, 0, 14, 16>>

\* Bytes of the CRC messages are sets of bits: 0x00, 0x7E and 0xFF.
Alphabet(code) ==
    CASE code = "stuffing" -> {126, 125, 94, 93}
      [] code = "slip" -> {192, 219, 220, 221}
      [] code = "cobs" -> {0, 1}
      [] code = "bits" -> {0, 1}
      [] code = "nibbles" -> 0..15
      [] code = "chunked" -> {"x", "0", "CR", "LF"}
      [] code = "crc" -> {{}, 1..6, 0..7}
      [] code \in {"frames", "packets", "segments", "messages"} -> {0, 1, 255}
      [] code = "options" -> {0, 1, 2, 8, 255}
      [] code = "addresses" -> {0, 1, 128, 255}
      [] code = "numbers" -> {0, 1, 30, 31, 158, 65535, 65536, 1073725440}
      [] code = "text" -> {Space, Percent, Plus, Period, 48, 65, 200}
      [] code = "zone" -> {<<Ex, 1, Addr>>, <<Ex, 2, WwwEx>>, <<ExUpper, 1, Zeros(4)>>, <<WwwEx, 1, Addr>>,
                           <<Ex, 6, WwwEx>>}
      [] code = "hosts" -> [name : {Ex, ExUpper, WwwEx}, of : 0..2, default : {FALSE}]
                               \cup {[name |-> WwwEx, of |-> 0, default |-> TRUE]}
      [] code \in {"seqnum", "wire"} -> {}

MaxLen(code) ==
    CASE code \in {"stuffing", "slip", "chunked", "addresses", "options"} -> 4
      [] code = "cobs" -> 8
      [] code = "bits" -> 10
      [] code \in {"frames", "packets", "segments", "messages", "text", "zone", "hosts"} -> 3
      [] OTHER -> 2

MaxFlips == 3

seqVars == <<start, near, far>>
wireVars == <<tx_frames, rx_frames, dropped, bit_errors, promiscuous, total_seen, accepted, rejected,
              broadcast_count, multicast_count, unicast_count, other_unicast, buffer, misjudged>>
vars == <<which, data, noise, seqVars, wireVars>>

Init ==
    /\ which \in {"stuffing", "slip", "cobs", "bits", "nibbles", "chunked", "crc", "seqnum", "wire",
                  "frames", "packets", "segments", "messages", "options", "addresses", "numbers",
                  "text", "zone", "hosts"}
    /\ data = <<>>
    /\ noise = {}
    /\ start = 0 /\ near = 0 /\ far = 0
    /\ Wire!Init /\ (promiscuous => which = "wire")

Grow ==
    /\ noise = {} /\ Len(data) < MaxLen(which)
    /\ \E s \in Alphabet(which) : data' = Append(data, s)
    /\ UNCHANGED <<which, noise, seqVars, wireVars>>

\* A burst: the flipped bits lie within eight.
Flip ==
    /\ which = "crc" /\ Cardinality(noise) < MaxFlips
    /\ \E k \in 0..(8 * Len(data) - 1) :
           /\ \A j \in noise : k # j /\ k - j < 8 /\ j - k < 8
           /\ noise' = noise \cup {k}
    /\ UNCHANGED <<which, data, seqVars, wireVars>>

\* The start is anywhere on the circle; then the two positions move away.
WalkTheCircle ==
    /\ which = "seqnum"
    /\ \/ far = 0 /\ start < Seqnum!Word - 1 /\ start' = start + 1 /\ UNCHANGED <<near, far>>
       \/ far < Seqnum!Word - 1 /\ far' = far + 1 /\ UNCHANGED <<start, near>>
       \/ near < far /\ near' = near + 1 /\ UNCHANGED <<start, far>>
    /\ UNCHANGED <<which, data, noise, wireVars>>

UseTheWire ==
    /\ which = "wire"
    /\ Wire!Next
    /\ UNCHANGED <<which, data, noise, seqVars>>

Next == Grow \/ Flip \/ WalkTheCircle \/ UseTheWire

Spec == Init /\ [][Next]_vars

-----------------------------------------------------------------------------
NoneInside(frame, flag) == \A i \in 2..(Len(frame) - 1) : frame[i] # flag

NoRun(bits, b, n) == \A i \in 1..(Len(bits) - n + 1) : \E k \in i..(i + n - 1) : bits[k] # b

StuffingRoundTrips ==
    LET frame == LineCodes!ByteStuff(data)
    IN LineCodes!ByteUnstuff(frame) = data /\ NoneInside(frame, LineCodes!PppFlag)

SlipRoundTrips ==
    LET frame == LineCodes!SlipEncode(data)
    IN LineCodes!SlipDecode(frame) = data /\ NoneInside(frame, LineCodes!SlipEnd)

CobsRoundTrips ==
    LET code == LineCodes!CobsEncode(data)
    IN /\ LineCodes!CobsDecode(code) = data
       /\ 0 \notin Range(code)
       /\ Len(code) <= Len(data) + 1 + (Len(data) \div (FullBlock - 1))

BitsRoundTrip ==
    LET stuffed == LineCodes!BitStuff(data)
    IN /\ LineCodes!BitUnstuff(stuffed) = data /\ NoRun(stuffed, 1, 6)
       /\ LineCodes!ManchesterDecode(LineCodes!ManchesterEncode(data)) = data
       /\ LineCodes!NrziDecode(LineCodes!NrziEncode(data)) = data

NibblesRoundTrip ==
    LET Code(n) == LineCodes!Encode4b5b[n + 1]
    IN /\ \A i \in DOMAIN data : LineCodes!Decode4b5b[Code(data[i]) + 1] = data[i]
       /\ NoRun(FlattenSeq([i \in DOMAIN data |-> LineCodes!BitsOf(Code(data[i]), 5)]), 0, 4)

ChunksRoundTrip ==
    \A size \in 1..3 :
        LET code == LineCodes!ChunkedEncode(data, size)
        IN /\ LineCodes!ChunkedDecode(code) = {<<data, Len(code)>>}
           /\ \A n \in 0..Len(code) : \A r \in LineCodes!ChunkedDecode(SubSeq(code, 1, n)) :
                  IsPrefix(r[1], data)

\* Decoders invert encoders and frames can be told apart: no payload shows a
\* delimiter (framing.c, slip_ppp.c), no six ones or four zeros in a row
\* (framing.c, encoding.c), and a chunked body that is cut off anywhere never
\* decodes to other than a beginning of it (chunked.c).
FramesRoundTrip ==
    /\ which = "stuffing" => StuffingRoundTrips
    /\ which = "slip" => SlipRoundTrips
    /\ which = "cobs" => CobsRoundTrips
    /\ which = "bits" => BitsRoundTrip
    /\ which = "nibbles" => NibblesRoundTrip
    /\ which = "chunked" => ChunksRoundTrip

-----------------------------------------------------------------------------
Noisy == [i \in DOMAIN data |-> LineCodes!Xor(data[i], {k - 8 * (i - 1) : k \in
              {j \in noise : 8 * (i - 1) <= j /\ j < 8 * i}})]

\* Reference: the register of a polynomial division, fed bit by bit.
Divided(bits, w, poly, init) ==
    FoldLeft(LAMBDA r, b : IF (b = 1) # (w - 1 \in r) THEN LineCodes!Xor(LineCodes!Up(r, 1, w), poly)
                           ELSE LineCodes!Up(r, 1, w), init, bits)

\* The bits of a message, a byte's highest first or its lowest first.
HighFirst == FlattenSeq([i \in DOMAIN data |-> [k \in 1..8 |-> IF 8 - k \in data[i] THEN 1 ELSE 0]])
LowFirst == FlattenSeq([i \in DOMAIN data |-> [k \in 1..8 |-> IF k - 1 \in data[i] THEN 1 ELSE 0]])

CrcsAreRemainders ==
    /\ LineCodes!Crc8(data) = Divided(HighFirst, 8, LineCodes!Poly8, {})
    /\ LineCodes!Crc16(data) = Divided(HighFirst, 16, LineCodes!Poly16, 0..15)
    /\ LineCodes!Crc32(data) =
           LineCodes!Xor(0..31, LineCodes!Mirror(Divided(LowFirst, 32, LineCodes!Poly32, 0..31), 32))
    /\ LineCodes!PppFcs16(data) =
           LineCodes!Xor(0..15, LineCodes!Mirror(Divided(LowFirst, 16, LineCodes!Poly16, 0..15), 16))

BurstsAreNoticed ==
    noise # {} =>
        /\ LineCodes!Crc8(Noisy) # LineCodes!Crc8(data) /\ LineCodes!Crc16(Noisy) # LineCodes!Crc16(data)
        /\ LineCodes!Crc32(Noisy) # LineCodes!Crc32(data) /\ LineCodes!PppFcs16(Noisy) # LineCodes!PppFcs16(data)

\* A PPP frame with this payload is read back, and refused with noise in it.
PppFramesAreSafe ==
    LET ip == <<{}, {0, 5}>>
        frame == LineCodes!PppBuild(ip, data)
        Wrong(f) == SubSeq(f, 1, 5) \o Noisy \o SubSeq(f, 6 + Len(data), Len(f))
    IN \A f \in frame : LineCodes!PppParse(IF noise = {} THEN f ELSE Wrong(f)) =
           IF noise = {} THEN {[protocol |-> ip, payload |-> data]} ELSE {}

FlippedSymbolIsNoticed ==
    LET symbols == LineCodes!ManchesterEncode(data)
    IN \A i \in DOMAIN symbols :
           LineCodes!ManchesterDecode([symbols EXCEPT ![i] = 1 - @]) = LineCodes!Refused

FlippedBitIsCorrected ==
    \A i \in DOMAIN data : LET cw == LineCodes!Hamming74Encode(data[i])
        IN /\ LineCodes!Hamming74Decode(cw) = <<data[i], FALSE>>
           /\ \A p \in 1..7 : LineCodes!Hamming74Decode(LineCodes!Xor(cw, {p})) = <<data[i], TRUE>>

\* The table-driven CRCs are the remainders of a division and notice every
\* burst of noise, also inside a PPP frame (crc.c, slip_ppp.c), Manchester refuses a flipped symbol
\* (encoding.c), and Hamming(7,4) corrects a flipped bit (hamming.c).
ErrorsAreNoticed ==
    /\ which = "crc" => CrcsAreRemainders /\ BurstsAreNoticed /\ PppFramesAreSafe
    /\ which = "bits" => FlippedSymbolIsNoticed
    /\ which = "nibbles" => FlippedBitIsCorrected

-----------------------------------------------------------------------------
At(n) == Seqnum!SeqAdd(start, n)

\* Within half the circle the comparisons are a strict order.
OrderFollowsTheWalk ==
    far - near < HalfCircle =>
        /\ Seqnum!SeqDiff(At(far), At(near)) = far - near
        /\ Seqnum!SeqLt(At(near), At(far)) <=> near < far
        /\ Seqnum!SeqGt(At(far), At(near)) <=> near < far
        /\ Seqnum!SeqLe(At(near), At(far)) /\ Seqnum!SeqGe(At(far), At(near))
        /\ near < far => ~Seqnum!SeqLt(At(far), At(near))

\* Windows of every size, up to the whole circle.
WindowIsWalked == Seqnum!SeqInWindow(At(near), start, far) <=> near < far

\* Closed ranges shorter than half the circle.
BetweenIsWalked ==
    far < HalfCircle => \A s \in Seqnum!Seqnums :
        Seqnum!SeqBetween(s, start, At(far)) <=> \E k \in 0..far : s = At(k)

\* Comparisons, windows and ranges of sequence numbers agree with walking
\* along the circle, also where it wraps (seqnum.c).
SequenceNumbersFollowTheCircle ==
    which = "seqnum" => OrderFollowsTheWalk /\ WindowIsWalked /\ BetweenIsWalked
-----------------------------------------------------------------------------
(* Messages.  A builder has Room; the message it builds is The message.    *)

Room == 2048
The(built) == CHOOSE m \in built : TRUE

\* A message was built, and the parser reads exactly this from it.
Reads(built, Parse(_), value) == built # Refused /\ Parse(The(built)) = {value}

Mac1 == <<0, 27, 68, 17, 58, 183>>
Mac2 == <<2, 66, 172, 17, 0, 2>>
Ip1 == <<192, 168, 0, 1>>
Ip2 == <<10, 255, 0, 254>>

WithWord(buf, off, word) == Part(buf, 0, off) \o Be(word, 2) \o From(buf, off + 2)

UdpHead(sum) == [src_port |-> 4660, dst_port |-> 53, length |-> 8 + Len(data), checksum |-> sum]
UdpSegment ==
    LET plain == The(UdpBuild(UdpHead(0), data, Room)) IN WithWord(plain, 6, UdpChecksum(Ip1, Ip2, plain))

IpHead(protocol, len) ==
    [version |-> 4, ihl |-> 5, dscp |-> 46, ecn |-> 1, total_length |-> 20 + len,
     identification |-> 4660, flags |-> 2, frag_offset |-> 8190, ttl |-> 64, protocol |-> protocol,
     src_addr |-> Ip1, dst_addr |-> Ip2]
IpPacket == The(Ipv4Build(IpHead(17, Len(UdpSegment)), Room)) \o UdpSegment

EthHead == [dst |-> Mac2, src |-> Mac1, ethertype |-> 2048]
Frame == The(EthBuild(EthHead, IpPacket, Room))

\* A datagram in a packet in a padded frame with a tag: every layer finds its
\* own end, and the priority does not mix with a VLAN identifier that is too
\* large for its field.
LayersAreUnwrapped ==
    LET tagged == The(VlanInsert(Frame, 4096 + 100, 5, Room))
        stripped == The(VlanStrip(tagged, Room))
        eth == The(EthParse(stripped.frame))
        ip == The(Ipv4Parse(eth.payload))
        segment == Part(eth.payload, 4 * ip.ihl, ip.total_length - 4 * ip.ihl)
    IN /\ VlanTci(Part(tagged, 12, 4)) = <<5, 0, 100>> /\ stripped.vid = 100
       /\ eth.hdr = EthHead /\ FrameParse(stripped.frame) = {eth}
       /\ ip = IpHead(17, Len(UdpSegment))
       /\ UdpValid(ip.src_addr, ip.dst_addr, segment)
       /\ UdpParse(segment) = {UdpHead(At16(segment, 6))} /\ From(segment, 8) = data

\* nfs_wifi_fc with a direction, and a header with four different addresses.
WifiHead(type, subtype, to, from) ==
    [fc |-> [f \in Range(FcFields) |->
                CASE f = "type" -> type [] f = "subtype" -> subtype [] f = "to_ds" -> to
                  [] f = "from_ds" -> from [] f \in {"retry", "htc_order"} -> 1 [] OTHER -> 0],
     duration |-> 314, addr1 |-> Mac1, addr2 |-> Mac2, addr3 |-> Broadcast, addr4 |-> Zeros(5) \o <<7>>,
     seq_ctrl |-> SeqCtrl(4095, 1)]

\* What is in the header is read back, and the two ends of the frame are told
\* by the direction.
WifiHeadersAreRead ==
    \A type \in 0..2, subtype \in {0, 11, 12}, to, from \in 0..1 :
        LET h == WifiHead(type, subtype, to, from)
            size == WifiHdrSize(h.fc)
            r == The(WifiParse(The(WifiBuild(h, Room)) \o data))
        IN /\ r.fc = h.fc /\ r.duration = h.duration /\ r.addr1 = h.addr1
           /\ size >= 16 => r.addr2 = h.addr2
           /\ size >= 24 => r.addr3 = h.addr3 /\ SeqFrag(r.seq_ctrl) = <<4095, 1>>
           /\ type = 2 => /\ <<WifiDa(r), WifiSa(r)>> = CASE to = 0 /\ from = 0 -> <<Mac1, Mac2>>
                                                          [] to = 1 /\ from = 0 -> <<Broadcast, Mac2>>
                                                          [] to = 0 /\ from = 1 -> <<Mac1, Broadcast>>
                                                          [] OTHER -> <<Broadcast, h.addr4>>
                          /\ WifiBssid(r) = Refused <=> to + from = 2

\* A capture file is read back record by record to its end.
CapturesAreRead ==
    LET file == PcapHeader(65535, 1, "little") \o PcapPacket(7, 1, data, "little")
                    \o PcapPacket(8, 2, Mac1, "little")
        second == 24 + 16 + Len(data)
    IN /\ \A order \in {"little", "big"} :
              PcapReadHeader(PcapHeader(65535, 1, order)) =
                  {[major |-> 2, minor |-> 4, snaplen |-> 65535, linktype |-> 1]}
       /\ PcapReadPacket(file, 24, Room) = {[ts_sec |-> 7, data |-> data]}
       /\ PcapReadPacket(file, second, Room) = {[ts_sec |-> 8, data |-> Mac1]}
       /\ ~PcapAtEnd(file, second) /\ PcapAtEnd(file, second + 16 + 6)

\* A message that is scattered over buffers and gathered again is the
\* message, up to the room in them; a byte is found where it was put.
BuffersAreRead ==
    LET iov == <<<<>>, <<7>>, <<7, 7>>, <<>>>>
        filled == IovScatter(iov, data)
        whole == The(IovGather(filled, Room))
    IN /\ IovGather(iov, 2) = Refused
       /\ \A k \in 1..3 : whole[k] = IF k <= Len(data) THEN data[k] ELSE 7
       /\ \A k \in 0..2 : \A at \in IovFindByte(filled, k) : filled[at.idx + 1][at.offset + 1] = whole[k + 1]
       /\ {k \in 0..4 : IovFindByte(filled, k) # Refused} = 0..2

Bpdu(type) ==
    [f \in {BpduLayout[k][1] : k \in DOMAIN BpduLayout} |->
        CASE f = "type" -> type
          [] f \in {"proto_id", "version"} -> 0
          [] f = "root_id" -> IF type = 0 THEN BridgeId(32768, Mac1) ELSE Zeros(8)
          [] f = "sender_id" -> IF type = 0 THEN BridgeId(4096, Mac2) ELSE Zeros(8)
          [] f = "root_path_cost" -> IF type = 0 THEN Ip2 ELSE Zeros(4)
          [] OTHER -> IF type = 0 THEN 200 ELSE 0]

FramesAreRead ==
    /\ LayersAreUnwrapped /\ WifiHeadersAreRead /\ CapturesAreRead /\ BuffersAreRead
    /\ \A type \in {0, 128} : Reads(BpduBuild(Bpdu(type), Room), BpduParse, Bpdu(type))
    /\ \A m \in PktBuild(1, 2, 255, Ip1, data, Room) :
           {[p EXCEPT !.hdr = @.id] : p \in PktParse(m \o Mac2)} = {[hdr |-> Ip1, payload |-> data]}
    /\ Reads(TunWrap(IpPacket, Room), TunUnwrap, [proto |-> 2048, payload |-> IpPacket])
    /\ \A pw \in {<<>>, Ip1, Mac2} : Reads(WolBuild(Mac1, pw, Room), WolValidate, Mac1)
    /\ PreambleDetect(data \o Preamble \o Frame) = {Len(data) + 7}

GreHead(flags) ==
    [flags |-> flags, protocol |-> 2048, key |-> IF "K" \in flags THEN Ip1 ELSE Zeros(4),
     seq |-> IF "S" \in flags THEN Ip2 ELSE Zeros(4), hdr_len |-> 4 + 4 * Cardinality(flags)]

TunnelsAreRead ==
    /\ Reads(IpipEncapsulate(Ip1, Ip2, 64, IpPacket, Room), IpipDecapsulate, IpPacket)
    /\ \A flags \in SUBSET {"C", "K", "S"} :
           LET packet == GreEncapsulate(flags, 2048, Ip1, Ip2, data, Room)
           IN Reads(packet, GreParse, GreHead(flags)) /\ Reads(packet, GrePayload, data)

Ip6A == <<254, 128>> \o Zeros(13) \o <<1>>
Ip6B == <<32, 1, 13, 184>> \o Zeros(12)

NdpHeads ==
    LET head == [code |-> 0, checksum |-> 0, reserved |-> Zeros(4), target |-> Ip6A, flags |-> Zeros(4)]
    IN {[f \in {layout[k][1] : k \in DOMAIN layout} |-> IF f = "type" THEN t ELSE head[f]] :
            <<t, layout>> \in {<<t, NdpLayout(t)>> : t \in {133, 135}}}
       \cup {[type |-> 136, code |-> 0, checksum |-> 0, target |-> Ip6B, flags |-> <<96, 0, 0, 0>>],
             [type |-> 134, code |-> 0, checksum |-> 0, cur_hop_limit |-> 64, flags |-> 128,
              router_lifetime |-> 1800, reachable_time |-> Zeros(4), retrans_timer |-> Ip1]}

\* A neighbour message with the sender's address as its only option.
NdpIsRead ==
    \A h \in NdpHeads :
        LET m == The(NdpBuild(h, Mac1, Room))
        IN /\ NdpParse(h.type, m) = {h} /\ NdpType(m) = {h.type}
           /\ Walk(m, SizeOf(NdpLayout(h.type)), 9, NdpOptionNext) =
                  {<<[type |-> IF h.type = 136 THEN 2 ELSE 1, total_len |-> 8, data |-> Mac1]>>}

PacketsAreRead ==
    /\ TunnelsAreRead /\ NdpIsRead
    /\ \A m \in IcmpEchoRequest(4660, 7, data, Room) :
           IcmpValid(m) /\ From(m, 8) = data
               /\ \A h \in IcmpParse(m) : h.type = 8 /\ h.id = 4660 /\ h.seq = 7
    /\ Reads(Ipv6Build(255, <<15, 0, 171>>, 17, 64, Ip6A, Ip6B, Len(data), Room), Ipv6Parse,
             [tc |-> 255, flow |-> <<15, 0, 171>>, payload_len |-> Len(data), next_hdr |-> 17,
              hop_limit |-> 64, src |-> Ip6A, dst |-> Ip6B])
    /\ LET opts == The(RecordRoute(2, Room)) \o The(Timestamps(1, Room)) \o [i \in DOMAIN data |-> 1]
           read == The(IpOptsParse(The(IpOptsPad(opts)), 40))
       IN /\ Len(The(IpOptsPad(opts))) % 4 = 0
          /\ SelectSeq([i \in DOMAIN read |-> read[i].type], LAMBDA t : t > 1) = <<7, 68>>
    /\ DhcpMessageType(The(DhcpOptions(From(The(DhcpDiscover(Mac1, Ip1, Room)), 236), 8))) = {1}
    /\ DhcpOptions(DhcpCookie \o <<0, 53, 1, 3, 50, Len(data)>> \o data \o <<255>>, 8) =
           {<<[code |-> 53, data |-> <<3>>], [code |-> 50, data |-> data]>>}

TcpHead == [src_port |-> 4660, dst_port |-> 80, seq |-> <<255, 255, 255, 254>>, ack |-> Ip2,
            flags |-> 18, window |-> 65535]
TcpSegment ==
    LET plain == The(TcpBuild(TcpHead, Room)) \o data IN WithWord(plain, 16, TcpChecksum(Ip1, Ip2, plain))

\* The options of a SYN, each written by its builder.
SynOptions ==
    The(TcpOption(2, Be(1460, 2), Room)) \o The(TcpOption(4, <<>>, Room)) \o The(WscaleOption(7, Room))
        \o The(TcpOption(8, Ip1 \o Ip2, Room)) \o [i \in DOMAIN data |-> 1]

\* A value of one, two, four or eight octets.
Varint(n) == Zeros(8 - n) \o [i \in 1..n |-> IF i = 1 THEN 63 ELSE 255]

SegmentsAreRead ==
    /\ TcpValid(Ip1, Ip2, TcpSegment)
    /\ \A Parsed \in {TcpParse(TcpSegment), SegmentParse(TcpSegment)} :
           /\ Parsed # Refused
           /\ \A h \in Parsed : TcpDataOffset(h) = 5 /\ TcpFlags(h) = 18 /\ h.seq = TcpHead.seq
                                    /\ From(TcpSegment, 4 * TcpDataOffset(h)) = data
                                    /\ SegmentSerialize(h, Room) = {Part(TcpSegment, 0, 20)}
    /\ LET read == The(TcpOptsParse(TcpOptsPad(SynOptions), 40))
       IN SelectSeq(read, LAMBDA o : o.kind > 1) =
              <<[kind |-> 2, length |-> 4, data |-> Be(1460, 2)], [kind |-> 4, length |-> 2, data |-> <<>>],
                [kind |-> 3, length |-> 3, data |-> <<7>>], [kind |-> 8, length |-> 10, data |-> Ip1 \o Ip2]>>
    /\ LET blocks == [i \in DOMAIN data |-> [left |-> Ip1, right |-> Be(data[i], 4)]]
           Parse(buf) == SackParse(buf \o Mac1, 4)
       IN IF data = <<>> THEN SackOption(blocks, Room) = {<<>>} ELSE Reads(SackOption(blocks, Room), Parse, blocks)
    /\ Reads(WscaleOption(14, Room), WscaleParse, 14) /\ WscaleOption(15, Room) = Refused
    /\ LET text == SelectSeq(data, LAMBDA b : b # 0) \o <<65>>
       IN /\ Reads(TftpRequest(1, text, <<111>>, Room), TftpParse,
                   [opcode |-> 1, filename |-> text, mode |-> <<111>>])
          /\ Reads(TftpError(2, text, Room), TftpParse, [opcode |-> 5, code |-> 2, msg |-> text])
    /\ Reads(TftpData(65535, data, Room), TftpParse, [opcode |-> 3, block |-> 65535, data |-> data])
    /\ Reads(TftpAck(256, Room), TftpParse, [opcode |-> 4, block |-> 256])
    /\ \A n \in {1, 2, 4, 8} : Reads(VarintEncode(Varint(n), Room), VarintDecode, [value |-> Varint(n), used |-> n])
    /\ Reads(LongHdrBuild([first_byte |-> 64 + 35, version |-> Ip1, dcid |-> data, scid |-> Mac1], Room),
             LongHdrParse, [first_byte |-> 227, version |-> Ip1, dcid |-> data, scid |-> Mac1])
    /\ LET Parse(buf) == ShortHdrParse(buf, Len(data))
       IN Reads(ShortHdrBuild([first_byte |-> 128 + 36, dcid |-> data], Room), Parse,
                [first_byte |-> 100, dcid |-> data])
    /\ LongHdrType(227) = 2 /\ SpinAndKeyPhase(100) = <<1, 1>>
    /\ \A type \in 0..31 : IsStreamFrame(type) <=> type = 8 + Join(StreamBits(type), <<1, 1, 1>>)

ClientHello ==
    [legacy_version |-> 771, random |-> Ip6A \o Ip6B, session_id |-> data, cipher_suites |-> <<4865, 4867>>,
     compression |-> <<0>>, extensions |-> <<[type |-> 43, data |-> <<2, 3, 4>>], [type |-> 0, data |-> data]>>]

NtpPacket ==
    [li_vn_mode |-> <<0, 4, 3>>, stratum |-> 1, poll |-> 250, precision |-> 6, root_delay |-> Ip1,
     root_dispersion |-> Zeros(4), ref_id |-> Ip2, ref_ts |-> Varint(8), origin_ts |-> Zeros(8),
     recv_ts |-> Varint(4), xmit_ts |-> data \o Zeros(8 - Len(data))]

EdnsOptions == <<The(EdnsNsid(data)), The(EdnsCookie(Varint(8), <<>>)), The(EdnsPadding(2))>>
EdnsRecord == EdnsBuild(1232, 1, 0, TRUE, EdnsOptions, Room)

\* What a receiver does with a whole frame: unmask as far as the length says.
WsPayload(buf, h) ==
    LET body == Part(buf, h.header_len, Num(Part(h.payload_len, 4, 4)))
    IN IF h.key = <<>> THEN body ELSE WsMask(body, h.key)

WsFramesAreRead ==
    \A key \in {<<>>, Ip1, <<1, 0, 255, 85>>} : \A fill \in {0, 125 - Len(data), 126, 300} :
        LET payload == data \o [i \in 1..fill |-> i % 7]
            m == The(WsBuild(2, 1, key, payload, Room))
            h == The(WsParse(m))
        IN /\ ~h.more /\ h.fin = 1 /\ h.opcode = 2 /\ h.key = key
           /\ WsPayload(m, h) = payload /\ Len(m) = h.header_len + Len(payload)

MessagesAreRead ==
    /\ WsFramesAreRead
    /\ Reads(H2Build(0, 1, <<255, 0, 0, 3>>, data, Room), H2Parse,
             [type |-> 0, flags |-> 1, stream_id |-> <<127, 0, 0, 3>>, payload |-> data])
    /\ LET settings == <<[id |-> 4, value |-> Ip1], [id |-> 1, value |-> Ip2]>>
           Parse(buf) == H2SettingsParse(buf, 8)
       IN Reads(H2Settings(settings, Room), Parse, settings)
    /\ Reads(NtpBuild(NtpPacket, Room), NtpParse, NtpPacket)
    /\ Reads(EdnsRecord, EdnsParse, [udp_payload_size |-> 1232, ext_rcode |-> 1, version |-> 0, do_bit |-> TRUE,
                                     options |-> EdnsOptions, used |-> Len(The(EdnsRecord))])
    /\ \A i \in DOMAIN EdnsOptions :
           Walk(The(EdnsOption(EdnsOptions[i], Room)), 0, 1, EdnsDecode) = {<<EdnsOptions[i]>>}
    /\ LET exts == ClientHello.extensions
           block == Extension(exts[1]) \o Extension(exts[2])
           first == ExtIterNext(block, 0)
           second == ExtIterNext(block, first.offset)
       IN first.ext = {exts[1]} /\ second.ext = {exts[2]} /\ ExtIterNext(block, second.offset).ext = Refused
    /\ LET hello == The(ChBuild(ClientHello, Room))
           record == RecordBuild(22, 769, hello, Room)
       IN /\ Reads(record, RecordParse, [content_type |-> 22, version |-> 769, fragment |-> hello,
                                         used |-> 5 + Len(hello)])
          /\ {[f \in DOMAIN ClientHello |-> ch[f]] : ch \in ChParse(hello \o data)} = {ClientHello}
          /\ {ch.used : ch \in ChParse(hello \o data)} = {Len(hello)}
    /\ Reads(AlertBuild(2, 40, Room), AlertParse, [level |-> 2, description |-> 40])

\* Every text survives both encodings, a name loses its empty labels only,
\* and a pointer stands for the rest of a name.
TextsAreRead ==
    LET name == JoinWith(SelectSeq(SplitOn(data, Period), LAMBDA l : l # <<>>), Period)
        wire == The(NameEncode(data, Room))
    IN /\ \A form \in BOOLEAN :
              LET Decode(text) == UrlDecode(text, form, Room) IN Reads(UrlEncode(data, form, Room), Decode, data)
       /\ NameDecode(wire, 0) = {[name |-> name, used |-> Len(wire)]}
       /\ NameDecode(wire \o <<1, 65, 192, 0>>, Len(wire)) =
              {[name |-> JoinWith(SelectSeq(<<<<65>>, name>>, LAMBDA l : l # <<>>), Period), used |-> 4]}

\* What a builder writes its parser reads back, whatever the payload and
\* through every layer that is wrapped around it: padding, tags, optional
\* fields, options, masks and compressed names change nothing (ethernet.c,
\* vlan.c, wifi.c, pcap.c, ipv4.c, tunnel.c, ndp.c, dhcp.c, tcp_opts.c, tftp.c,
\* quic.c, dns_resolver.c, edns.c, h2frame.c, websocket.c, tls_clienthello.c).
MessagesAreUnderstood ==
    /\ which = "frames" => FramesAreRead
    /\ which = "packets" => PacketsAreRead
    /\ which = "segments" => SegmentsAreRead
    /\ which = "messages" => MessagesAreRead
    /\ which = "text" => TextsAreRead
-----------------------------------------------------------------------------
(* Damage.                                                                 *)

\* Whatever is cut off at the end, nothing is made of the rest.
CutsAreRefused(Parse(_), msg) == \A n \in 0..(Len(msg) - 1) : Parse(SubSeq(msg, 1, n)) = Refused

\* No flipped bit passes.
FlipsAreNoticed(Accepts(_), msg) ==
    \A i \in DOMAIN msg, k \in 0..7 : ~Accepts([msg EXCEPT ![i] = OctetXor(@, 2 ^ k)])

FrameDamageIsNoticed ==
    LET wol == The(WolBuild(Mac1, <<>>, Room))
        Packet(file) == PcapReadPacket(file, 0, Room)
        Wakes(packet) == WolValidate(packet) # Refused
    IN /\ CutsAreRefused(WolValidate, wol) /\ FlipsAreNoticed(Wakes, wol)
       /\ CutsAreRefused(WifiParse, The(WifiBuild(WifiHead(2, 0, 1, 1), Room)))
       /\ CutsAreRefused(Packet, PcapPacket(7, 1, data, "little"))
       /\ CutsAreRefused(PktParse, The(PktBuild(1, 2, 255, Ip1, data, Room)))
       /\ CutsAreRefused(BpduParse, The(BpduBuild(Bpdu(0), Room)))

PacketDamageIsNoticed ==
    LET header == The(Ipv4Build(IpHead(17, Len(data)), Room))
        Header(buf) == Ipv4Parse(buf \o data) # Refused
        Packet(buf) == IpipDecapsulate(buf)
    IN /\ CutsAreRefused(Ipv4Parse, header) /\ FlipsAreNoticed(Header, header)
       /\ FlipsAreNoticed(IcmpValid, The(IcmpEchoRequest(4660, 7, data, Room)))
       /\ CutsAreRefused(Packet, The(IpipEncapsulate(Ip1, Ip2, 64, IpPacket, Room)))

\* A UDP checksum of zero means none: one flip of a checksum of one bit.
SegmentDamageIsNoticed ==
    LET Udp(segment) == UdpValid(Ip1, Ip2, segment) /\ At16(segment, 6) # 0
        Tcp(segment) == TcpValid(Ip1, Ip2, segment)
        Misdelivered(dst) == UdpValid(Ip1, dst, UdpSegment) \/ TcpValid(Ip1, dst, TcpSegment)
        long == The(LongHdrBuild([first_byte |-> 3, version |-> Ip1, dcid |-> data, scid |-> Mac1], Room))
    IN /\ FlipsAreNoticed(Udp, UdpSegment) /\ FlipsAreNoticed(Tcp, TcpSegment)
       /\ FlipsAreNoticed(Misdelivered, Ip2)
       /\ CutsAreRefused(TcpParse, WithWord(TcpSegment, 12, 28672) \o Zeros(8 - Len(data)))
       /\ CutsAreRefused(TftpParse, The(TftpRequest(2, <<65>>, <<111, 99>>, Room)))
       /\ CutsAreRefused(LongHdrParse, long)
       /\ \A n \in {1, 2, 4, 8} : CutsAreRefused(VarintDecode, The(VarintEncode(Varint(n), Room)))

MessageDamageIsNoticed ==
    LET hello == The(ChBuild(ClientHello, Room))
        Ws(buf) == WsParse(buf) \ NeedMore
        \* A message inside one that is longer: its own length is shortened.
        shortened == [hello EXCEPT ![4] = @ - 1]
    IN /\ CutsAreRefused(H2Parse, The(H2Build(0, 1, Ip1, data, Room)))
       /\ CutsAreRefused(NtpParse, The(NtpBuild(NtpPacket, Room)))
       /\ CutsAreRefused(EdnsParse, The(EdnsRecord))
       /\ CutsAreRefused(RecordParse, The(RecordBuild(22, 769, hello, Room)))
       /\ CutsAreRefused(ChParse, hello) /\ ChParse(shortened) = Refused
       /\ CutsAreRefused(Ws, SubSeq(The(WsBuild(1, 1, Ip1, data \o Zeros(200), Room)), 1, 8))

\* In any octets at all a reader of options goes forward, and not beyond the
\* end: a list is read in at most as many steps as it has octets.
OptionsGoForward ==
    LET Forward(Step(_, _)) ==
            \A off \in 0..(Len(data) - 1) : \A s \in Step(data \o Zeros(8), off) :
                s.last \/ (off < s.next /\ s.next <= Len(data) + 8)
    IN /\ Forward(IpOption) /\ Forward(TcpOptionRead) /\ Forward(NdpOptionNext) /\ Forward(DhcpOption)
       /\ Forward(EdnsDecode) /\ Forward(ExtensionAt) /\ Forward(TcpMessage)
       /\ \A loop \in {<<192, 0>>, data \o <<192, Len(data)>>} : NameDecode(loop, Len(loop) - 2) = Refused

\* Messages that were cut off are refused or wait for more, one flipped bit is
\* noticed wherever there is a checksum (ipv4.c, icmp.c, udp_csum.c,
\* tcp_csum.c) or a repetition (wol.c), a segment for another address is
\* noticed too, inner lengths do not reach beyond outer ones
\* (tls_clienthello.c), and no octets make a reader of options or names go
\* round in circles (ip_opts.c, tcp_opts.c, ndp.c, dns_resolver.c).
DamageIsNoticed ==
    /\ which = "frames" => FrameDamageIsNoticed
    /\ which = "packets" => PacketDamageIsNoticed
    /\ which = "segments" => SegmentDamageIsNoticed
    /\ which = "messages" => MessageDamageIsNoticed
    /\ which = "options" => OptionsGoForward

-----------------------------------------------------------------------------
(* Arithmetic on addresses, checksums, windows and times.                  *)

PrefixLens == {0, 1, 8, 17, 24, 31, 32}

\* Two blocks overlap when one of them holds the beginning of the other, and
\* the hosts are the addresses between network and broadcast address.
BlocksAgree ==
    LET Block(addr, p) == [addr |-> addr, prefix_len |-> p]
    IN /\ \A p \in PrefixLens : LET c == Block(data, p) IN
              /\ CidrContains(c, data) /\ CidrContains(c, CidrNetwork(c)) /\ CidrContains(c, CidrBroadcast(c))
              /\ CidrParse(CidrFormat(c)) = {c}
              /\ \A i \in 1..4 : CidrMask(p)[i] + CidrBroadcast(Block(Zeros(4), p))[i] = 255
              /\ \A q \in PrefixLens, other \in {Ip1, <<128, 128, 1, 255>>, <<0, 1, 128, 0>>} :
                     LET d == Block(other, q)
                     IN CidrOverlap(c, d) <=> CidrContains(c, CidrNetwork(d)) \/ CidrContains(d, CidrNetwork(c))
       /\ \A p \in 18..30 : LET c == Block(data, p) IN
              Num(Part(CidrBroadcast(c), 2, 2)) = At16(CidrNetwork(c), 2) + Num(CidrHostCount(p)) + 1

\* An updated checksum is the one that is computed anew.
UpdatesAgree ==
    LET message == <<69, 0>> \o data
    IN /\ \A word \in {0, 1, 256, 65535} :
              ChecksumUpdate(Checksum(message), At16(message, 2), word) = Checksum(WithWord(message, 2, word))
       /\ ChecksumUpdateN(Checksum(message), data, Ip1) = Checksum(<<69, 0>> \o Ip1)

\* The prefix is kept to the bit, and the hardware address can be told.
SlaacAgrees ==
    LET mac == data \o <<17, 2>>
        prefix == data \o data \o data \o data
        id == Eui64(mac)
    IN /\ \A len \in {0, 1, 48, 63, 64, 65, 71, 128} : \A addr \in SlaacAddress(prefix, len, mac) :
              /\ Len(addr) = 16 /\ FirstBits(addr, len) = FirstBits(prefix, len)
              /\ len <= 64 => From(addr, 8) = id
       /\ <<FlipUl(id[1])>> \o Part(id, 1, 2) \o From(id, 5) = mac /\ id[1] # mac[1]
       /\ Ipv6Type(LinkLocal(mac)) = "link-local" /\ Ipv6Type(SolicitedNode(LinkLocal(mac))) = "multicast"
       /\ From(SolicitedNode(prefix), 13) = From(prefix, 13)
       /\ MacType(mac) = "unicast/local" <=> IsUnicast(mac) /\ ~IsLocal(id)
       /\ SlaacPrefixValid(prefix, 64, TRUE) => \A addr \in SlaacAddress(prefix, 64, mac) :
              Ipv6Type(addr) \notin {"multicast", "link-local", "loopback", "unspecified"}

AddressTextsAgree ==
    LET mac == data \o <<10, 160>>
        addr == data \o Ip2 \o data \o Ip1
    IN /\ MacParse(MacFormat(mac)) = {mac} /\ WolMacParse(MacFormat(mac)) = {mac}
       /\ IpParse(IpFormat(data)) = {data}
       /\ Ipv6ParseFull(Ipv6Format(addr)) = {addr} /\ Ipv6ParseGroups(Ipv6Format(addr)) = {addr}

\* The number in a text of hpack.c's encoding.
HpackValue(d) ==
    d.first + FoldLeft(LAMBDA v, k : v + d.groups[k] * (128 ^ (k - 1)), 0, [k \in DOMAIN d.groups |-> k])

\* Two clocks that are `theta' apart, and delays there and back: the estimate
\* is off by less than the delay it reports.
ClockIsBounded(t1, theta, there, back) ==
    LET t2 == t1 + theta + there
        t3 == t2 + 5
        t4 == t3 - theta + back
        error == NtpOffset2(t1, t2, t3, t4) - 2 * theta
    IN NtpRtt(t1, t2, t3, t4) = there + back /\ error = there - back

NumbersAgree ==
    LET w == data[1]
        shift == WscaleCompute(w)
        seen == WscaleApply(WscaleCompress(w, shift), shift)
    IN /\ seen <= w /\ w - seen < 2 ^ shift /\ (w > 0 => seen > 0)
       /\ \A bits \in 1..8 : {HpackValue(d) : d \in HpackDecodeInt(The(HpackEncodeInt(w, bits, 9)), bits)} = {w}
       /\ \A m \in Range(data) : MtuPayloadFits(PathMtu(data), m)
       /\ \E m \in Range(data) : MtuNeedsFragmentation(PathMtu(data) + 1, m)
       /\ \A there, back \in {0, 3, 10} : ClockIsBounded(w, data[Len(data)], there, back)

\* The frames that are built are the ones that are valid, by either rule.
FrameSizesAgree ==
    /\ \A n \in {0, 45, 46, 47, 1500} : \A f \in FrameBuild(EthHead, Zeros(n), Room) :
           FrameValid(f) /\ MtuFrameValid(Len(f) + 4, 1500)
    /\ FrameBuild(EthHead, Zeros(1501), Room) = Refused
    /\ \A n \in {45, 46, 1500, 1501} :
           FrameValid(Pack(EthLayout, EthHead) \o Zeros(n)) <=> MtuFrameValid(14 + n + 4, 1500)
    /\ \A p \in MtuProfiles : /\ MtuFrameValid(p.min_frame, p.mtu) /\ ~MtuFrameValid(p.min_frame - 1, p.mtu)
                             /\ MtuFrameValid(p.max_frame, p.mtu) /\ ~MtuFrameValid(p.max_frame + 1, p.mtu)

\* Two ways to the same number agree: an incremental and a full checksum
\* (incremental.c), overlap and containment of blocks (cidr.c), a generated
\* address and its prefix (slaac.c), the frame sizes of frame.c and mtu.c, a
\* scaled window and the window (wscale.c), an offset and the delay it was
\* measured with (ntp.c), an integer and its encoding (hpack.c).
ArithmeticAgrees ==
    /\ which = "addresses" /\ Len(data) = 4 => BlocksAgree /\ UpdatesAgree /\ SlaacAgrees /\ AddressTextsAgree
    /\ which = "numbers" /\ data # <<>> => NumbersAgree
    /\ which = "frames" /\ data = <<>> => FrameSizesAgree

-----------------------------------------------------------------------------
(* Questions and answers.                                                  *)

SameName(a, b) == a = b \/ {a, b} = {Ex, ExUpper}

Names == {Ex, ExUpper, WwwEx, Stranger}

\* The zone with the entries so far: addresses, name servers and an authority.
Zone ==
    LET Added(zone, e) == CASE e[2] = 1 -> The(ZoneAddA(zone, e[1], Ttl, e[3]))
                            [] e[2] = 2 -> The(ZoneAddNs(zone, e[1], Ttl, e[3]))
                            [] e[2] = 6 -> The(ZoneAddSoa(zone, e[1], Ttl, e[3], Ex, Zeros(20)))
    IN FoldLeft(Added, The(ZoneInit(Ex)), data)

Reply(name, qtype) == The(BuildResponse(Zone, The(QueryBuild(name, qtype, 4660, Room)), Room))

\* The resolver reads from the server's reply the records that were entered
\* for the name, in either case, and only a name without any does not exist.
ReplyIsRight(name, qtype) ==
    LET r == The(ResponseParse(Reply(name, qtype)))
        asked == SelectSeq(data, LAMBDA e : SameName(e[1], name) /\ (qtype = 255 \/ e[2] = qtype))
    IN /\ r.hdr.id = 4660 /\ r.question = <<name, qtype, 1>>
       /\ [i \in DOMAIN r.answers |-> <<r.answers[i].name, r.answers[i].type>>] =
              [i \in DOMAIN asked |-> <<asked[i][1], asked[i][2]>>]
       /\ \A i \in DOMAIN asked : asked[i][2] = 1 => r.answers[i].rdata = asked[i][3]
       /\ Rcode(r.hdr.flags) = 3 <=> \A i \in DOMAIN data : ~SameName(data[i][1], name)

\* A reply that is too long for UDP says so and promises nothing that is not
\* there; over TCP it arrives whole.
ReplyFits(name, qtype) ==
    LET reply == Reply(name, qtype)
        framed == The(TcpFrame(reply, Room))
    IN /\ \A max \in {m \in {12, 24, Len(reply) - 1} : m < Len(reply)} :
              LET cut == The(TruncateResponse(reply, max, Room))
                  r == ResponseParse(cut)
              IN /\ Len(cut) <= max /\ IsTruncated(cut) /\ ~IsTruncated(The(ClearTruncated(cut)))
                 /\ r # Refused /\ \A x \in r : x.answers = <<>> /\ x.hdr.id = 4660
       /\ Len(reply) <= UdpMax => TruncateResponse(reply, UdpMax, Room) = {reply}
       /\ ClearTruncated(The(SetTruncated(reply))) = {reply}
       /\ TcpUnframe(framed \o <<0>>) = {[msg |-> reply, used |-> Len(framed)]}
       /\ TcpParseStream(framed \o framed \o SubSeq(framed, 1, 9), 8) = {<<reply, reply>>}

\* The table after the first n entries; an alias of a host that does not
\* exist is refused and changes nothing.
Table(n) ==
    LET Added(table, e) == LET new == IF e.of = 0 THEN VhostAdd(table, e.name, <<47>>, e.default)
                                      ELSE VhostAddAlias(table, e.of, e.name)
                           IN IF new = Refused THEN table ELSE The(new)
    IN FoldLeft(Added, VhostInit, SubSeq(data, 1, n))

\* The hosts a name belongs to, by its entries.
Owners(name) ==
    LET hosts == SelectSeq([n \in DOMAIN data |-> n], LAMBDA n : data[n].of = 0)
    IN {i \in DOMAIN hosts : SameName(data[hosts[i]].name, name)}
       \cup {data[n].of : n \in {m \in DOMAIN data :
                 /\ data[m].of \in DOMAIN hosts /\ SameName(data[m].name, name)
                 /\ hosts[data[m].of] < m}}

Request(lines) == [version |-> "HTTP/1.1", lines |-> lines]
HostLine(value) == [name |-> <<72, 111, 83, 116>>, value |-> value]

\* A request goes to the first host its name belongs to, whatever its case
\* and port, else to the default; a new host takes no name from another.
RequestIsRouted(name) ==
    LET table == Table(Len(data))
        request == Request(<<HostLine(<<Space>> \o name \o <<PortColon, 56, 48>>)>>)
        found == VhostRoute(table, request)
    IN /\ found = VhostLookup(table, name) /\ VhostValidate(request)
       /\ found = IF Owners(name) # {} THEN {Min(Owners(name))} ELSE VhostDefault(table)
       /\ VhostDefault(table) = Refused <=> table.hosts = <<>>
       /\ VhostRoute(table, Request(<<>>)) = VhostDefault(table) /\ ~VhostValidate(Request(<<>>))
       /\ data # <<>> /\ data[Len(data)].of = 0 =>
              \A i \in DOMAIN Table(Len(data) - 1).hosts :
                  VhostHas(Table(Len(data) - 1).hosts[i], name) =>
                      found = VhostLookup(Table(Len(data) - 1), name)

\* A station that looks for an address is told once: the answer is for it
\* alone, names the right station, and is not answered again.
ArpIsAnsweredOnce ==
    LET request == Pack(EthLayout, [dst |-> Broadcast, src |-> Mac1, ethertype |-> 2054])
                       \o Pack(ArpLayout, [hw_type |-> 1, proto_type |-> 2048, hw_addr_len |-> 6,
                                           proto_addr_len |-> 4, opcode |-> 1, sender_hw |-> Mac1,
                                           sender_proto |-> Ip1, target_hw |-> Zeros(6), target_proto |-> Ip2])
        reply == The(ArpRespond(request \o data, Mac2, Ip2))
        arp == Unpack(ArpLayout, From(reply, 14))
    IN /\ ArpRespond(request, Mac1, Ip1) = Refused
       /\ Part(reply, 0, 6) = Mac1 /\ arp.sender_hw = Mac2 /\ arp.sender_proto = Ip2
       /\ arp.target_hw = Mac1 /\ arp.target_proto = Ip1
       /\ ArpRespond(reply, Mac1, Ip1) = Refused /\ ArpRespond(reply, Mac2, Ip2) = Refused

\* Who asks gets the answer that the tables hold: a resolver from a name
\* server, also when the reply is cut or sent over TCP (dns_auth.c,
\* dns_transport.c, dns_resolver.c), a request from the host that has its name
\* (vhost.c), and a station from the one it looks for (arp.c).
RequestsAreAnsweredRight ==
    /\ which = "zone" => \A name \in Names, qtype \in {1, 2, 255} :
           ReplyIsRight(name, qtype) /\ ReplyFits(name, qtype)
    /\ which = "hosts" => \A name \in Names : RequestIsRouted(name)
    /\ which = "frames" => ArpIsAnsweredOnce

\* Every frame the wire took is counted where it ended, on the wire and at
\* the card (vwire.c, promisc.c).
FramesAreAccountedFor == which = "wire" => Wire!TypeOK /\ Wire!FramesAreAccountedFor
=============================================================================
