---------------------------- MODULE VirtualWire -----------------------------
(***************************************************************************)
(* A simulated wire that drops frames and flips bits (phases/              *)
(* 01-bits-and-wires/12-capstone-a-virtual-wire/vwire.c) and the frame     *)
(* filter of the card at its end (phases/02-link-layer/                    *)
(* 11-promiscuous-mode/promisc.c).  The caller hands what the wire         *)
(* delivers to the filter before it sends again.                           *)
(*                                                                         *)
(* A frame is the set of the bits of its destination address that are one, *)
(* bit 0 the group bit; `short' frames have no whole Ethernet header.  The *)
(* pseudo-random numbers of the wire are a choice.                         *)
(***************************************************************************)
EXTENDS Integers, FiniteSets, FiniteSetsExt

CONSTANTS AddrBits,        \* the bits of an address, 0 among them
          LocalMac,        \* the address of the card
          Senders,         \* the destinations of the frames that are sent
          MaxFlips,        \* bit errors per frame
          MaxFrames        \* bound of the model: frames sent between resets

VirtualWireConstants ==
    /\ IsFiniteSet(AddrBits) /\ 0 \in AddrBits
    /\ LocalMac \subseteq AddrBits /\ 0 \notin LocalMac
    /\ Senders \subseteq SUBSET AddrBits
    /\ MaxFlips \in Nat /\ MaxFrames \in Nat

VARIABLES
    tx_frames, rx_frames, dropped, bit_errors,                          \* struct nfs_wire
    promiscuous, total_seen, accepted, rejected,                        \* struct nfs_frame_filter
    broadcast_count, multicast_count, unicast_count, other_unicast,
    buffer,                \* the caller's buffer: what the wire has delivered
    misjudged              \* history: frames since ResetWire that were taken or
                           \* not against the destination they were sent with

wireStats == <<tx_frames, rx_frames, dropped, bit_errors>>
classes == <<broadcast_count, multicast_count, unicast_count, other_unicast>>
filterStats == <<total_seen, accepted, rejected, classes>>
vars == <<wireStats, promiscuous, filterStats, buffer, misjudged>>

Empty == [full |-> FALSE, dst |-> {}, short |-> FALSE, flips |-> {}]

TypeOK ==
    /\ {tx_frames, rx_frames, dropped, bit_errors} \subseteq Nat
    /\ {total_seen, accepted, rejected} \subseteq Nat
    /\ {broadcast_count, multicast_count, unicast_count, other_unicast} \subseteq Nat
    /\ misjudged \in Nat
    /\ promiscuous \in BOOLEAN
    /\ buffer \in [full : BOOLEAN, dst : SUBSET AddrBits, short : BOOLEAN, flips : SUBSET AddrBits]

\* nfs_wire_init, nfs_filter_init.
Init ==
    /\ tx_frames = 0 /\ rx_frames = 0 /\ dropped = 0 /\ bit_errors = 0
    /\ promiscuous \in BOOLEAN
    /\ total_seen = 0 /\ accepted = 0 /\ rejected = 0
    /\ broadcast_count = 0 /\ multicast_count = 0 /\ unicast_count = 0 /\ other_unicast = 0
    /\ buffer = Empty /\ misjudged = 0

-----------------------------------------------------------------------------
(* The wire.                                                               *)

Flipped(dst, flips) == (dst \cup flips) \ (dst \cap flips)

\* Mutant: a dropped frame counts as received.
ReceivedDespiteDrop(drop) == rx_frames + 1

Received(drop) == IF drop THEN rx_frames ELSE rx_frames + 1

\* nfs_wire_transmit: dropped (the buffer stays empty), or copied with the
\* bit errors of nfs_wire_apply_ber.
Transmit(dst, short, drop, flips) ==
    /\ ~buffer.full /\ tx_frames < MaxFrames /\ total_seen < MaxFrames
    /\ tx_frames' = tx_frames + 1
    /\ rx_frames' = Received(drop)
    /\ dropped' = IF drop THEN dropped + 1 ELSE dropped
    /\ bit_errors' = IF drop THEN bit_errors ELSE bit_errors + Cardinality(flips)
    /\ buffer' = IF drop THEN Empty
                 ELSE [full |-> TRUE, dst |-> Flipped(dst, flips), short |-> short, flips |-> flips]
    /\ UNCHANGED <<promiscuous, filterStats, misjudged>>

\* nfs_wire_reset_stats.
ResetWire ==
    /\ ~buffer.full /\ tx_frames > 0
    /\ tx_frames' = 0 /\ rx_frames' = 0 /\ dropped' = 0 /\ bit_errors' = 0
    /\ misjudged' = 0
    /\ UNCHANGED <<promiscuous, filterStats, buffer>>

-----------------------------------------------------------------------------
(* The card.                                                               *)

IsBroadcast(dst) == dst = AddrBits
IsMulticast(dst) == ~IsBroadcast(dst) /\ 0 \in dst
IsToUs(dst) == dst = LocalMac

\* Mutant: group addresses other than the broadcast address are not for us.
WantedNoGroups(dst) == promiscuous \/ IsBroadcast(dst) \/ IsToUs(dst)

Wanted(dst) == promiscuous \/ IsBroadcast(dst) \/ IsMulticast(dst) \/ IsToUs(dst)

\* What the filter is for, by the address on the frame before the wire.
MeantForUs(dst) == promiscuous \/ dst = LocalMac \/ 0 \in dst

One(b) == IF b THEN 1 ELSE 0

\* nfs_filter_accept: a short frame is refused before anything is counted.
Accept ==
    /\ buffer.full
    /\ buffer' = Empty
    /\ IF buffer.short THEN UNCHANGED <<filterStats, misjudged>>
       ELSE LET dst == buffer.dst
                sent == Flipped(dst, buffer.flips)
            IN /\ total_seen' = total_seen + 1
               /\ broadcast_count' = broadcast_count + One(IsBroadcast(dst))
               /\ multicast_count' = multicast_count + One(IsMulticast(dst))
               /\ unicast_count' = unicast_count + One(IsToUs(dst))
               /\ other_unicast' = other_unicast + One(~IsToUs(dst) /\ 0 \notin dst)
               /\ accepted' = accepted + One(Wanted(dst))
               /\ rejected' = rejected + One(~Wanted(dst))
               /\ misjudged' = misjudged + One(Wanted(dst) # MeantForUs(sent))
    /\ UNCHANGED <<wireStats, promiscuous>>

\* nfs_filter_reset_stats: the mode and the address stay.
ResetFilter ==
    /\ ~buffer.full /\ total_seen > 0
    /\ total_seen' = 0 /\ accepted' = 0 /\ rejected' = 0
    /\ broadcast_count' = 0 /\ multicast_count' = 0 /\ unicast_count' = 0 /\ other_unicast' = 0
    /\ UNCHANGED <<wireStats, promiscuous, buffer, misjudged>>

Next ==
    \/ \E dst \in Senders, short, drop \in BOOLEAN :
           \E flips \in {f \in SUBSET AddrBits : Cardinality(f) <= MaxFlips} :
               Transmit(dst, short, drop, IF drop THEN {} ELSE flips)
    \/ Accept \/ ResetWire \/ ResetFilter

Spec == Init /\ [][Next]_vars

-----------------------------------------------------------------------------
\* Frames on the wire were received or dropped (vwire.c); every frame the card
\* has seen is in one class, and in normal mode those of other stations are
\* the ones it has not taken (promisc.c); and it takes or leaves a frame
\* against what the sender meant only for a bit error the wire has counted.
FramesAreAccountedFor ==
    /\ tx_frames = rx_frames + dropped
    /\ total_seen = accepted + rejected
    /\ total_seen = broadcast_count + multicast_count + unicast_count + other_unicast
    /\ rejected = IF promiscuous THEN 0 ELSE other_unicast
    /\ misjudged <= bit_errors
=============================================================================
