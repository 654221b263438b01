----------------------------- MODULE LineCodes ------------------------------
(***************************************************************************)
(* Codes of the physical and link layers, and the chunked code of HTTP:    *)
(* byte stuffing, bit stuffing and COBS (phases/01-bits-and-wires/         *)
(* 10-framing-byte-stuffing-bit-stuffing/framing.c), SLIP                  *)
(* (phases/02-link-layer/15-ppp-and-slip-briefly/slip_ppp.c), line codes   *)
(* (01/05-manchester-nrz-4b5b-encodings/encoding.c), the Hamming(7,4) code *)
(* (01/09-forward-error-correction-hamming-74/hamming.c), the table-driven *)
(* CRCs (01/08-errors-and-crcs-crc-81632/crc.c) and the PPP frame check.   *)
(* Frames and payloads are sequences of bytes or of bits; an output buffer *)
(* is always large enough (a smaller one makes every function return -1).  *)
(***************************************************************************)
EXTENDS Integers, Sequences, SequencesExt, FiniteSetsExt, Folds

CONSTANT FullBlock    \* 0xFF: the COBS code of a block that no zero ends

FramingConstants == FullBlock \in Nat /\ FullBlock > 1

Refused == <<-1>>

-----------------------------------------------------------------------------
(* Byte stuffing.                                                          *)

PppFlag == 126
PppEscape == 125
\* b ^ 0x20
Flipped(b) == IF (b \div 32) % 2 = 1 THEN b - 32 ELSE b + 32

\* Mutant: the escape byte itself goes out as it is.
MustEscapeFlag(b) == b = PppFlag

MustEscape(b) == b \in {PppFlag, PppEscape}

\* nfs_byte_stuff.
ByteStuff(data) ==
    <<PppFlag>>
    \o FlattenSeq([i \in DOMAIN data |->
           IF MustEscape(data[i]) THEN <<PppEscape, Flipped(data[i])>> ELSE <<data[i]>>])
    \o <<PppFlag>>

RECURSIVE UnstuffFrom(_, _)
\* The loop of nfs_byte_unstuff over the inside of a frame, from index i on.
UnstuffFrom(s, i) ==
    LET Then(b, j) == LET rest == UnstuffFrom(s, j)
                      IN IF rest = Refused THEN Refused ELSE <<b>> \o rest
    IN IF i > Len(s) THEN <<>>
       ELSE IF s[i] = PppFlag THEN Refused
       ELSE IF s[i] # PppEscape THEN Then(s[i], i + 1)
       ELSE IF i = Len(s) THEN Refused
       ELSE Then(Flipped(s[i + 1]), i + 2)

\* nfs_byte_unstuff.
ByteUnstuff(frame) ==
    IF Len(frame) < 2 \/ frame[1] # PppFlag \/ Last(frame) # PppFlag THEN Refused
    ELSE UnstuffFrom(SubSeq(frame, 2, Len(frame) - 1), 1)

-----------------------------------------------------------------------------
(* Bit stuffing.                                                           *)

Run == 5

OnesAfter(ones, b) == IF b = 1 THEN ones + 1 ELSE 0

RECURSIVE BitStuffFrom(_, _, _)
\* The loop of nfs_bit_stuff, with consecutive_ones.
BitStuffFrom(bits, i, ones) ==
    IF i > Len(bits) THEN <<>>
    ELSE IF OnesAfter(ones, bits[i]) = Run THEN <<bits[i], 0>> \o BitStuffFrom(bits, i + 1, 0)
    ELSE <<bits[i]>> \o BitStuffFrom(bits, i + 1, OnesAfter(ones, bits[i]))

BitStuff(bits) == BitStuffFrom(bits, 1, 0)

RECURSIVE BitUnstuffFrom(_, _, _)
\* The loop of nfs_bit_unstuff; six ones in a row are refused.
BitUnstuffFrom(bits, i, ones) ==
    IF i > Len(bits) THEN <<>>
    ELSE IF ones = Run THEN IF bits[i] # 0 THEN Refused ELSE BitUnstuffFrom(bits, i + 1, 0)
    ELSE LET rest == BitUnstuffFrom(bits, i + 1, IF bits[i] = 1 THEN ones + 1 ELSE 0)
         IN IF rest = Refused THEN Refused ELSE <<bits[i]>> \o rest

BitUnstuff(bits) == BitUnstuffFrom(bits, 1, 0)

-----------------------------------------------------------------------------
(* COBS.                                                                   *)

RECURSIVE CobsFrom(_, _, _)
\* The loop of nfs_cobs_encode: block holds the bytes since the code byte,
\* which is one more than their number.
CobsFrom(data, i, block) ==
    LET Emit(b) == <<Len(b) + 1>> \o b
        longer == Append(block, data[i])
    IN IF i > Len(data) THEN Emit(block)
       ELSE IF data[i] = 0 THEN Emit(block) \o CobsFrom(data, i + 1, <<>>)
       ELSE IF Len(longer) + 1 = FullBlock THEN Emit(longer) \o CobsFrom(data, i + 1, <<>>)
       ELSE CobsFrom(data, i + 1, longer)

CobsEncode(data) == CobsFrom(data, 1, <<>>)

\* Mutant: a full block is followed by a zero too.
ZeroAfterAny(code, atEnd) == ~atEnd

\* A zero follows a block unless it was full or the last.
ZeroAfter(code, atEnd) == code < FullBlock /\ ~atEnd

RECURSIVE CobsDecodeFrom(_, _)
\* The loop of nfs_cobs_decode from a code byte at index i on.
CobsDecodeFrom(s, i) ==
    LET end == i + s[i] - 1
        block == SubSeq(s, i + 1, end)
        rest == CobsDecodeFrom(s, end + 1)
    IN IF i > Len(s) THEN <<>>
       ELSE IF s[i] = 0 \/ end > Len(s) THEN Refused
       ELSE IF 0 \in Range(block) \/ rest = Refused THEN Refused
       ELSE block \o (IF ZeroAfter(s[i], end = Len(s)) THEN <<0>> ELSE <<>>) \o rest

CobsDecode(s) == CobsDecodeFrom(s, 1)

-----------------------------------------------------------------------------
(* SLIP.                                                                   *)

SlipEnd == 192
SlipEsc == 219
SlipEscEnd == 220
SlipEscEsc == 221

SlipEscape(b) == IF b = SlipEnd THEN SlipEscEnd ELSE SlipEscEsc

\* nfs_slip_encode.
SlipEncode(data) ==
    <<SlipEnd>>
    \o FlattenSeq([i \in DOMAIN data |->
           IF data[i] \in {SlipEnd, SlipEsc} THEN <<SlipEsc, SlipEscape(data[i])>> ELSE <<data[i]>>])
    \o <<SlipEnd>>

RECURSIVE SlipFrom(_, _)
\* The loop of nfs_slip_decode over the inside of a frame; an END there is
\* taken for the end of the frame.
SlipFrom(s, i) ==
    LET Then(b, j) == LET rest == SlipFrom(s, j) IN IF rest = Refused THEN Refused ELSE <<b>> \o rest
    IN IF i > Len(s) THEN <<>>
       ELSE IF s[i] = SlipEnd THEN <<>>
       ELSE IF s[i] # SlipEsc THEN Then(s[i], i + 1)
       ELSE IF i = Len(s) THEN Refused
       ELSE IF s[i + 1] = SlipEscEnd THEN Then(SlipEnd, i + 2)
       ELSE IF s[i + 1] = SlipEscEsc THEN Then(SlipEsc, i + 2)
       ELSE Refused

\* nfs_slip_decode.
SlipDecode(frame) ==
    IF Len(frame) < 2 \/ frame[1] # SlipEnd \/ Last(frame) # SlipEnd THEN Refused
    ELSE SlipFrom(SubSeq(frame, 2, Len(frame) - 1), 1)

-----------------------------------------------------------------------------
(* Chunked transfer encoding (phases/06-application-protocols/             *)
(* 11-chunked-transfer-encoding/chunked.c), on sequences of characters.    *)
(* Chunks are shorter than 16 bytes, so that a size line is one hex digit; *)
(* chunk extensions and the fields of trailers are left out, trailer lines *)
(* are skipped.                                                            *)

Crlf == <<"CR", "LF">>
Digits == <<"0", "1", "2", "3", "4", "5", "6", "7", "8", "9", "a", "b", "c", "d", "e", "f">>

\* "%zx"
HexLine(n) == <<Digits[n + 1]>>

\* nfs_chunked_encode_chunk.
EncodeChunk(data) == HexLine(Len(data)) \o Crlf \o data \o Crlf

\* nfs_chunked_encode_last.
EncodeLast == <<"0">> \o Crlf \o Crlf

RECURSIVE ChunksFrom(_, _, _)
\* The loop of nfs_chunked_encode.
ChunksFrom(data, offset, size) ==
    LET end == Min({offset + size, Len(data)})
    IN IF offset >= Len(data) THEN <<>>
       ELSE EncodeChunk(SubSeq(data, offset + 1, end)) \o ChunksFrom(data, end, size)

\* nfs_chunked_encode, with chunk_size > 0.
ChunkedEncode(data, size) == ChunksFrom(data, 0, size) \o EncodeLast

\* find_crlf: the index of the first CR LF from pos on, as a set.
FindCrlf(s, pos) ==
    LET all == {i \in pos..(Len(s) - 1) : s[i] = "CR" /\ s[i + 1] = "LF"}
    IN IF all = {} THEN {} ELSE {Min(all)}

\* nfs_chunked_parse_hex of one digit, as a set.
HexValue(line) == IF Len(line) = 1 THEN {n - 1 : n \in {k \in DOMAIN Digits : Digits[k] = line[1]}} ELSE {}

\* Mutant: the CR LF after the data is searched for, not counted to.
DataEndSearched(s, start, size) == IF FindCrlf(s, start) = {} THEN Len(s) ELSE Min(FindCrlf(s, start)) - 1

\* The last index of the data of a chunk.
DataEnd(s, start, size) == start + size - 1

\* nfs_chunk_parse_next from pos on: <<data, index behind the chunk>> and the
\* empty set where it returns -1.
ParseNext(s, pos) ==
    UNION {LET line == SubSeq(s, pos, eol - 1)
               start == eol + 2
           IN UNION {IF size = 0 THEN {<<<<>>, start>>}
                     ELSE LET end == DataEnd(s, start, size)
                          IN IF end + 2 <= Len(s) /\ SubSeq(s, end + 1, end + 2) = Crlf
                             THEN {<<SubSeq(s, start, end), end + 3>>} ELSE {}
                     : size \in HexValue(line)}
           : eol \in FindCrlf(s, pos)}

RECURSIVE SkipTrailers(_, _)
\* The loop over the trailer lines: to the empty line, or as far as lines go.
SkipTrailers(s, pos) ==
    IF pos > Len(s) \/ FindCrlf(s, pos) = {} THEN pos
    ELSE IF FindCrlf(s, pos) = {pos} THEN pos + 2
    ELSE SkipTrailers(s, Min(FindCrlf(s, pos)) + 2)

RECURSIVE DecodeFrom(_, _, _)
\* The loop of nfs_chunked_decode: the set of <<data, bytes consumed>>, empty
\* where it returns -1.
DecodeFrom(s, pos, out) ==
    IF pos > Len(s) THEN {<<out, pos - 1>>}
    ELSE UNION {IF c[1] = <<>> THEN {<<out, SkipTrailers(s, c[2]) - 1>>}
                ELSE DecodeFrom(s, c[2], out \o c[1]) : c \in ParseNext(s, pos)}

ChunkedDecode(s) == DecodeFrom(s, 1, <<>>)

-----------------------------------------------------------------------------
(* Line codes.                                                             *)

\* nfs_manchester_encode: low-high for 1, high-low for 0.
ManchesterEncode(bits) ==
    FlattenSeq([i \in DOMAIN bits |-> IF bits[i] = 1 THEN <<0, 1>> ELSE <<1, 0>>])

IsTransition(s0, s1) == s0 # s1

\* nfs_manchester_decode: every pair must have its transition.
ManchesterDecode(symbols) ==
    LET n == Len(symbols) \div 2
    IN IF Len(symbols) % 2 = 0 /\ \A i \in 1..n : IsTransition(symbols[2 * i - 1], symbols[2 * i])
       THEN [i \in 1..n |-> symbols[2 * i]] ELSE Refused

\* nfs_nrzi_encode: the level so far is the parity of the ones so far.
NrziEncode(bits) ==
    LET level[i \in 0..Len(bits)] == IF i = 0 THEN 0 ELSE (level[i - 1] + bits[i]) % 2
    IN [i \in DOMAIN bits |-> level[i]]

LevelBefore(symbols, i) == IF i = 1 THEN 0 ELSE symbols[i - 1]

\* nfs_nrzi_decode: a change of level is a 1.
NrziDecode(symbols) ==
    [i \in DOMAIN symbols |-> IF symbols[i] # LevelBefore(symbols, i) THEN 1 ELSE 0]

\* encode_4b5b and decode_4b5b, from 0 on; -1 marks a code that is not used.
Encode4b5b == <<30, 9, 20, 21, 10, 11, 14, 15, 18, 19, 22, 23, 26, 27, 28, 29>>
Decode4b5b == <<-1, -1, -1, -1, -1, -1, -1, -1, -1, 1, 4, 5, -1, -1, 6, 7,
                -1, -1, 8, 9, 2, 3, 10, 11, -1, -1, 12, 13, 14, 15, 0, -1>>

\* The w bits of n, the most significant first.
BitsOf(n, w) == [i \in 1..w |-> (n \div 2^(w - i)) % 2]

-----------------------------------------------------------------------------
(* Hamming(7,4): a codeword is the set of the positions 1..7 that hold a 1. *)

Parity(cw, positions) == LET ones[p \in 0..7] ==
                                 IF p = 0 THEN 0
                                 ELSE ones[p - 1] + (IF p \in positions \cap cw THEN 1 ELSE 0)
                         IN ones[7] % 2

\* d1 (the most significant) to d4 stand at these positions.
DataPosition == <<3, 5, 6, 7>>
Covered(p) == CASE p = 1 -> {1, 3, 5, 7} [] p = 2 -> {2, 3, 6, 7} [] p = 4 -> {4, 5, 6, 7}

\* nfs_hamming74_encode: every parity bit makes its group even.
Hamming74Encode(nibble) ==
    LET data == {DataPosition[i] : i \in {j \in 1..4 : BitsOf(nibble, 4)[j] = 1}}
    IN data \cup {p \in {1, 2, 4} : Parity(data, Covered(p)) = 1}

\* Mutant: the third check is read as the second one's.
SyndromeSwapped(cw) == Parity(cw, Covered(1)) + 4 * Parity(cw, Covered(2)) + 2 * Parity(cw, Covered(4))

\* nfs_hamming74_syndrome: the position of a single error, 0 for none.
Hamming74Syndrome(cw) ==
    Parity(cw, Covered(1)) + 2 * Parity(cw, Covered(2)) + 4 * Parity(cw, Covered(4))

\* nfs_hamming74_decode: <<the nibble, whether a bit was corrected>>.
Hamming74Decode(cw) ==
    LET s == Hamming74Syndrome(cw)
        fixed == IF s = 0 THEN cw ELSE (cw \cup {s}) \ (cw \cap {s})
        Bit(i) == IF DataPosition[i] \in fixed THEN 1 ELSE 0
    IN <<8 * Bit(1) + 4 * Bit(2) + 2 * Bit(3) + Bit(4), s # 0>>

-----------------------------------------------------------------------------
(* CRCs: a byte and a register are the sets of their one bits, so that ^ is *)
(* the symmetric difference of two sets.                                    *)

Byte == 8
Xor(a, b) == (a \cup b) \ (a \cap b)

\* A register of w bits moved up or down by n bits.
Up(r, n, w) == {k + n : k \in r} \cap (0..(w - 1))
Down(r, n) == {k - n : k \in {j \in r : j >= n}}
Mirror(r, w) == {w - 1 - k : k \in r}

\* NFS_CRC8_POLY 0x07, NFS_CRC16_POLY 0x1021, the Ethernet polynomial.
Poly8 == {0, 1, 2}
Poly16 == {0, 5, 12}
Poly32 == {0, 1, 2, 4, 5, 7, 8, 10, 11, 12, 16, 22, 23, 26}

RECURSIVE Shifted(_, _, _, _)
\* The loops over the bits in nfs_crc8_init_table and nfs_crc16_init_table.
Shifted(r, n, w, poly) ==
    IF n = 0 THEN r
    ELSE Shifted(IF w - 1 \in r THEN Xor(Up(r, 1, w), poly) ELSE Up(r, 1, w), n - 1, w, poly)

RECURSIVE ShiftedDown(_, _, _)
\* The loop of nfs_crc32_init_table, for a mirrored polynomial.
ShiftedDown(r, n, poly) ==
    IF n = 0 THEN r
    ELSE ShiftedDown(IF 0 \in r THEN Xor(Down(r, 1), poly) ELSE Down(r, 1), n - 1, poly)

\* Mutant: the low end of the register picks the entry of the table.
IndexLow(r, b, w) == Xor(r \cap (0..(Byte - 1)), b)

\* (crc >> (w - 8)) ^ data[i]
Index(r, b, w) == Xor(Down(r, w - Byte), b)

\* nfs_crc8 (w = 8) and nfs_crc16: the register's top byte goes out through
\* the table and the rest moves up.
CrcMsb(data, w, poly, init) ==
    FoldLeft(LAMBDA r, b : Xor(Up(r, Byte, w), Shifted(Up(Index(r, b, w), w - Byte, w), Byte, w, poly)),
             init, data)

Crc8(data) == CrcMsb(data, 8, Poly8, {})
Crc16(data) == CrcMsb(data, 16, Poly16, 0..15)

\* crc >> 8
Rest(r) == Down(r, Byte)

\* nfs_crc32 and nfs_ppp_fcs16: mirrored, starting from ones and inverted.
CrcLsb(data, w, poly) ==
    Xor(0..(w - 1),
        FoldLeft(LAMBDA r, b : Xor(Rest(r), ShiftedDown(Xor(r \cap (0..(Byte - 1)), b), Byte, poly)),
                 0..(w - 1), data))

Crc32(data) == CrcLsb(data, 32, Mirror(Poly32, 32))
PppFcs16(data) == CrcLsb(data, 16, Mirror(Poly16, 16))

\* PPP frames: 0x7E, 0xFF 0x03, two bytes of protocol, the payload, the FCS
\* with its low byte first, 0x7E.
FlagByte == 1..6
PppHead == <<0..7, {0, 1}>>
MaxPppPayload == 1500

FcsBytes(body) == <<PppFcs16(body) \cap (0..7), Down(PppFcs16(body), Byte)>>

\* nfs_ppp_frame_build into a buffer that is large enough.  A flag in the
\* payload is not escaped here.
PppBuild(protocol, payload) ==
    LET body == PppHead \o protocol \o payload
    IN IF Len(payload) > MaxPppPayload THEN {} ELSE {<<FlagByte>> \o body \o FcsBytes(body) \o <<FlagByte>>}

\* Mutant: the check sequence is read but not compared.
FcsMatchesAny(body, fcs) == TRUE

FcsMatches(body, fcs) == fcs = FcsBytes(body)

\* nfs_ppp_frame_parse.
PppParse(frame) ==
    LET n == Len(frame)
        body == SubSeq(frame, 2, n - 3)
    IN IF n < 8 THEN {}
       ELSE IF \/ frame[1] # FlagByte \/ frame[n] # FlagByte \/ SubSeq(frame, 2, 3) # PppHead
               \/ n - 8 > MaxPppPayload \/ ~FcsMatches(body, SubSeq(frame, n - 2, n - 1)) THEN {}
       ELSE {[protocol |-> SubSeq(frame, 4, 5), payload |-> SubSeq(frame, 6, n - 3)]}
=============================================================================
