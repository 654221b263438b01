-------------------------------- MODULE Rdt --------------------------------
(***************************************************************************)
(* Reliable data transfer, stop-and-wait and Go-Back-N                     *)
(* (phases/04-transport/16-reliable-data-transfer/rdt.c).                  *)
(*                                                                         *)
(* One nfs_rdt_sender and one nfs_rdt_receiver over a network that may     *)
(* lose, duplicate and reorder segments and acknowledgements.  A C index i *)
(* into segments[] is segments[i + 1] here.                                *)
(***************************************************************************)
EXTENDS Naturals, Sequences

CONSTANTS
    Byte,       \* the values of one payload byte
    MaxData,    \* NFS_RDT_MAX_DATA, the longest payload
    MaxSegs,    \* NFS_RDT_MAX_SEGS, the sender's segment slots
    RecvBuf,    \* NFS_RDT_RECV_BUF, the receiver's buffer in bytes
    WindowArg,  \* the window_size given to nfs_rdt_sender_init
    Word        \* 2^32: the modulus of the uint32_t window arithmetic

ASSUME RdtConstants ==
    /\ MaxData \in Nat \ {0}
    /\ MaxSegs \in Nat
    /\ RecvBuf \in Nat
    /\ WindowArg \in Nat
    /\ Word \in Nat
    /\ MaxSegs < Word
    /\ WindowArg < Word

VARIABLES
    segments,      \* sender: segments[0 .. count - 1]; count is its length
    base,          \* sender: index of the oldest unacked segment
    next_seq,      \* sender: next sequence number to assign
    window_size,   \* sender: 0 once nfs_rdt_sender_free has run
    expected_seq,  \* receiver
    recv_buf,      \* receiver: the bytes of recv_buf[0 .. recv_len - 1]
    net,           \* segments in the network
    acks,          \* acknowledgement numbers in the network
    sent,          \* history: every byte nfs_rdt_send accepted
    off            \* history: off[k] = Len(sent) before segment k - 1

senderVars == <<segments, base, next_seq, window_size>>
receiverVars == <<expected_seq, recv_buf>>
netVars == <<net, acks>>
history == <<sent, off>>
vars == <<senderVars, receiverVars, netVars, history>>

Payload == UNION {[1..n -> Byte] : n \in 1..MaxData}
Segment == [seq : Nat, data : Payload]
Count == Len(segments)

(***************************************************************************)
(* Sender.                                                                 *)
(***************************************************************************)
Init ==
    /\ segments = <<>>
    /\ base = 0
    /\ next_seq = 0
    /\ window_size = IF WindowArg > 0 THEN WindowArg ELSE 1
    /\ expected_seq = 0
    /\ recv_buf = <<>>
    /\ net = {}
    /\ acks = {}
    /\ sent = <<>>
    /\ off = <<0>>

InFlight == Count - base

\* nfs_rdt_send: refused when the window or the segment array is full.
Send(data) ==
    /\ InFlight < window_size
    /\ Count < MaxSegs
    /\ segments' = Append(segments, [seq |-> next_seq, data |-> data, acked |-> FALSE])
    /\ next_seq' = next_seq + 1
    /\ net' = net \cup {[seq |-> next_seq, data |-> data]}
    /\ sent' = sent \o data
    /\ off' = Append(off, Len(sent) + Len(data))
    /\ UNCHANGED <<base, window_size, receiverVars, acks>>

\* Mutant: the loop compares with <= and takes one segment too many.
AckCoversInclusive(seq, a) == seq <= a

AckCovers(seq, a) == seq < a

\* nfs_rdt_ack: the loop passes every leading segment the number covers.
Ack(a) ==
    /\ a \in acks
    /\ \E b \in base..Count :
          /\ \A i \in base..(b - 1) : AckCovers(segments[i + 1].seq, a)
          /\ b < Count => ~AckCovers(segments[b + 1].seq, a)
          /\ base' = b
          /\ segments' = [k \in DOMAIN segments |->
                            IF k \in (base + 1)..b
                            THEN [segments[k] EXCEPT !.acked = TRUE]
                            ELSE segments[k]]
    /\ UNCHANGED <<next_seq, window_size, receiverVars, netVars, history>>

\* Mutant: the end of the window is counted from segment 0, not from base.
WindowEndFromZero ==
    IF window_size > Count THEN Count ELSE window_size

\* base + window_size is a uint32_t sum, then clamped to count.
WindowEnd ==
    LET end == (base + window_size) % Word
    IN  IF end > Count THEN Count ELSE end

\* nfs_rdt_timeout: every unacked segment of the window goes out again.
Timeout ==
    /\ base < Count
    /\ net' = net \cup {[seq |-> segments[i].seq, data |-> segments[i].data] :
                          i \in {k \in (base + 1)..WindowEnd : ~segments[k].acked}}
    /\ UNCHANGED <<senderVars, receiverVars, acks, history>>

\* nfs_rdt_sender_free: the whole struct is zeroed.
SenderFree ==
    /\ window_size > 0
    /\ segments' = <<>>
    /\ base' = 0
    /\ next_seq' = 0
    /\ window_size' = 0
    /\ UNCHANGED <<receiverVars, netVars, history>>

(***************************************************************************)
(* Receiver.                                                               *)
(***************************************************************************)
\* Mutant: a later segment is taken as if it were the expected one.
InOrderOrLater(m) == m.seq >= expected_seq

InOrder(m) == m.seq = expected_seq

\* Mutant: memcpy of the whole payload.
CopiedWhole(data) == data

\* The bytes of a payload that fit into what is left of recv_buf.
Copied(data) ==
    LET space == RecvBuf - Len(recv_buf)
    IN  SubSeq(data, 1, IF Len(data) < space THEN Len(data) ELSE space)

\* nfs_rdt_receive, in-order branch: copy, advance, acknowledge.
ReceiveInOrder(m) ==
    /\ m \in net
    /\ InOrder(m)
    /\ recv_buf' = recv_buf \o Copied(m.data)
    /\ expected_seq' = expected_seq + 1
    /\ acks' = acks \cup {expected_seq + 1}
    /\ UNCHANGED <<senderVars, net, history>>

\* nfs_rdt_receive, any other sequence number: a duplicate acknowledgement.
ReceiveOutOfOrder(m) ==
    /\ m \in net
    /\ ~InOrder(m)
    /\ acks' = acks \cup {expected_seq}
    /\ UNCHANGED <<senderVars, receiverVars, net, history>>

(***************************************************************************)
(* The network between the two.  A message stays until it is lost, so it   *)
(* may arrive any number of times and in any order.                        *)
(***************************************************************************)
LoseSegment(m) ==
    /\ m \in net
    /\ net' = net \ {m}
    /\ UNCHANGED <<senderVars, receiverVars, acks, history>>

LoseAck(a) ==
    /\ a \in acks
    /\ acks' = acks \ {a}
    /\ UNCHANGED <<senderVars, receiverVars, net, history>>

Next ==
    \/ \E data \in Payload : Send(data)
    \/ \E a \in acks : Ack(a)
    \/ Timeout
    \/ SenderFree
    \/ \E m \in net : ReceiveInOrder(m)
    \/ \E m \in net : ReceiveOutOfOrder(m)
    \/ \E m \in net : LoseSegment(m)
    \/ \E a \in acks : LoseAck(a)

Spec == Init /\ [][Next]_vars

(***************************************************************************)
(* The caller's timer keeps firing, and a message that is put into the     *)
(* network again and again gets through.                                   *)
(***************************************************************************)
Fairness ==
    /\ WF_vars(Timeout)
    /\ SF_vars(\E m \in net : ReceiveInOrder(m))
    /\ SF_vars(\E m \in net : m.seq < expected_seq /\ ReceiveOutOfOrder(m))
    /\ SF_vars(\E a \in acks : a > base /\ Ack(a))

FairSpec == Spec /\ Fairness

(***************************************************************************)
(* Properties.                                                             *)
(***************************************************************************)
\* Types, and the two arrays are never written past their end.
TypeOK ==
    /\ segments \in Seq([seq : Nat, data : Payload, acked : BOOLEAN])
    /\ Len(segments) <= MaxSegs
    /\ base \in Nat
    /\ next_seq \in Nat
    /\ window_size \in Nat
    /\ expected_seq \in Nat
    /\ recv_buf \in Seq(Byte)
    /\ Len(recv_buf) <= RecvBuf
    /\ net \subseteq Segment
    /\ acks \subseteq Nat
    /\ sent \in Seq(Byte)
    /\ off \in Seq(Nat)

\* What the receiver holds is an initial piece of what nfs_rdt_send accepted,
\* whatever the network loses, repeats or reorders.
DeliveredIsPrefix ==
    /\ Len(recv_buf) <= Len(sent)
    /\ \A i \in 1..Len(recv_buf) : recv_buf[i] = sent[i]

\* The sender gives up a segment (moves base past it) only when the receiver
\* has taken it, and never has more than a window outstanding.
BaseFollowsReceiver ==
    /\ base <= expected_seq
    /\ base <= Count
    /\ InFlight <= window_size

\* A byte below base, which the sender has been told is received and will not
\* send again, is missing from recv_buf only where recv_buf is full: rdt.c cuts
\* the payload to the space left (rdt.c:93) and acknowledges the whole segment.
AckedBytesAreHeld ==
    base > 0 => \/ Len(recv_buf) >= off[base + 1]
                \/ Len(recv_buf) = RecvBuf

\* rdt.h on nfs_rdt_timeout: "retransmit all unacked segments in the current
\* window"; together with fair delivery, everything accepted is acknowledged
\* unless the sender is freed first.
EverythingAcked ==
    \A k \in 1..MaxSegs : (Count >= k) ~> (base >= k \/ window_size = 0)

\* rdt.c implements the byte pipe: recv_buf only grows, and only into what
\* nfs_rdt_send was given.
Pipe == INSTANCE BytePipe WITH delivered <- recv_buf
PipeSpec == Pipe!Spec
=============================================================================
