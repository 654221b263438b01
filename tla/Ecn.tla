-------------------------------- MODULE Ecn ---------------------------------
(***************************************************************************)
(* Explicit congestion notification (phases/04-transport/                  *)
(* 31-explicit-congestion-notification-ecn/ecn.c): the negotiation of two  *)
(* ends in SYN and SYN-ACK, and packets that a congested router marks or   *)
(* drops.  TCP flags are sets of names; a TOS byte is its DSCP bits and    *)
(* its ECN codepoint.                                                      *)
(***************************************************************************)
CONSTANTS
    Dscp,    \* values of the upper six bits of the TOS byte
    NoDscp   \* not one of them: no packet is under way

EcnConstants == NoDscp \notin Dscp

VARIABLES
    initiator, responder,  \* struct nfs_ecn_negotiation of each end
    kind,                  \* what answers: "ecn" (this code), "plain", "reflects", "none" yet
    seg,                   \* the flags under way, {} when none
    packet, sent           \* the packet under way and, history, as it was sent

vars == <<initiator, responder, kind, seg, packet, sent>>

Negotiation == [state : {"UNKNOWN", "REQUESTED", "ACCEPTED", "REJECTED"}, ecn_capable : BOOLEAN]
Codepoint == {"NOT_ECT", "ECT0", "ECT1", "CE"}
NoPacket == [dscp |-> NoDscp, ecn |-> "NOT_ECT"]

\* nfs_ecn_nego_init.
Fresh == [state |-> "UNKNOWN", ecn_capable |-> FALSE]

Init ==
    /\ initiator = Fresh
    /\ responder = Fresh
    /\ kind = "none"
    /\ seg = {}
    /\ packet = NoPacket
    /\ sent = NoPacket

\* nfs_ecn_build_syn_flags, and a SYN of a host without ECN.
SynFlags == {"SYN", "ECE", "CWR"}
SynAckAcceptFlags == {"SYN", "ACK", "ECE"}
SynAckRejectFlags == {"SYN", "ACK"}

Connect(k, flags) ==
    /\ kind = "none"
    /\ kind' = k
    /\ seg' = flags
    /\ UNCHANGED <<initiator, responder, packet, sent>>

\* nfs_ecn_nego_process on a SYN.
RequestsEcn(flags) == {"SYN", "ECE", "CWR"} \subseteq flags

\* A responder: one that runs this code accepts what was requested, one
\* without ECN rejects it, and a broken one copies the SYN's reserved bits.
Respond ==
    /\ seg # {} /\ "ACK" \notin seg
    /\ CASE kind = "ecn" ->
                /\ responder' = IF RequestsEcn(seg) THEN [responder EXCEPT !.state = "REQUESTED"]
                                ELSE responder
                /\ seg' = IF RequestsEcn(seg) THEN SynAckAcceptFlags ELSE SynAckRejectFlags
         [] kind = "plain" -> seg' = SynAckRejectFlags /\ UNCHANGED responder
         [] kind = "reflects" -> seg' = seg \cup {"ACK"} /\ UNCHANGED responder
    /\ UNCHANGED <<initiator, kind, packet, sent>>

\* Mutant: the CWR bit is not looked at.
AcceptsAnyEce(flags) == "ECE" \in flags

\* nfs_ecn_nego_process on a SYN-ACK.
Accepts(flags) == "ECE" \in flags /\ "CWR" \notin flags

ProcessSynAck ==
    /\ {"SYN", "ACK"} \subseteq seg
    /\ initiator' = IF Accepts(seg) THEN [state |-> "ACCEPTED", ecn_capable |-> TRUE]
                    ELSE [state |-> "REJECTED", ecn_capable |-> FALSE]
    /\ seg' = {}
    /\ UNCHANGED <<responder, kind, packet, sent>>

\* The initiator sends data, ECN-capable when that was negotiated:
\* nfs_ecn_set_ip.
Send(dscp, ect) ==
    /\ initiator.state # "UNKNOWN"
    /\ packet' = [dscp |-> dscp, ecn |-> IF initiator.ecn_capable THEN ect ELSE "NOT_ECT"]
    /\ sent' = packet'
    /\ UNCHANGED <<initiator, responder, kind, seg>>

\* nfs_ecn_is_ect.
IsEct(p) == p.ecn \in {"ECT0", "ECT1"}

Markable(p) == IsEct(p)

\* A congested router: nfs_ecn_mark_ce, and -1 means the packet is dropped.
Congested ==
    /\ packet # NoPacket
    /\ packet' = IF Markable(packet) THEN [packet EXCEPT !.ecn = "CE"]
                 ELSE IF packet.ecn = "CE" THEN packet ELSE NoPacket
    /\ UNCHANGED <<initiator, responder, kind, seg, sent>>

Next ==
    \/ \E k \in {"ecn", "plain", "reflects"} : Connect(k, SynFlags) \/ Connect(k, {"SYN"})
    \/ Respond
    \/ ProcessSynAck
    \/ \E d \in Dscp, e \in {"ECT0", "ECT1"} : Send(d, e)
    \/ Congested

Spec == Init /\ [][Next]_vars

-----------------------------------------------------------------------------
TypeOK ==
    /\ initiator \in Negotiation /\ responder \in Negotiation
    /\ kind \in {"none", "ecn", "plain", "reflects"}
    /\ seg \subseteq {"SYN", "ACK", "ECE", "CWR"}
    /\ {packet, sent} \subseteq [dscp : Dscp \cup {NoDscp}, ecn : Codepoint]

\* ECN is on at the initiator only with a peer that asked for nothing less:
\* the responder runs ECN and took the request, and a congestion mark arrives
\* only on such a connection, with the DSCP bits as they were sent.
CapableMeansAgreed ==
    /\ initiator.ecn_capable => kind = "ecn" /\ responder.state = "REQUESTED"
    /\ packet # NoPacket => packet.dscp = sent.dscp
    /\ packet.ecn = "CE" => initiator.ecn_capable
=============================================================================
