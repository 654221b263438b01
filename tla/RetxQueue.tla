----------------------------- MODULE RetxQueue ------------------------------
(***************************************************************************)
(* The retransmission queue                                                *)
(* (phases/04-transport/18-retransmission-queue/retx_queue.c) of a sender  *)
(* whose segments and acknowledgements cross a network that loses,         *)
(* repeats and reorders them.  Positions in the stream are absolute; the   *)
(* code only sees them modulo Word, as sequence numbers.  send_time is     *)
(* kept as an age, which saturates at the largest RTO.  retx_count is a    *)
(* statistic nothing reads and is left out.                                *)
(***************************************************************************)
EXTENDS Naturals, Sequences, FiniteSets

CONSTANTS
    Mss,          \* NFS_RETX_MSS
    Capacity,     \* the capacity given to nfs_retx_queue_init
    Word,         \* 2^32
    Isn,          \* sequence number of stream position 0
    Rtos,         \* the RTO values the caller passes
    MaxBytes,     \* bound: length of the stream
    PartialAcks   \* may the peer acknowledge a part of a segment?

RetxQueueConstants ==
    /\ Mss \in Nat /\ Capacity \in Nat /\ Word \in Nat \ {0} /\ Isn \in 0..(Word - 1)
    /\ Rtos \subseteq Nat \ {0} /\ \E r \in Rtos : \A s \in Rtos : s <= r
    /\ MaxBytes \in Nat /\ PartialAcks \in BOOLEAN

VARIABLES
    q,        \* segments[0 .. count - 1]
    snd_nxt,  \* position after the last byte pushed
    una,      \* history: the highest acknowledgement processed
    rcv,      \* the peer: position after the last byte it holds
    wire,     \* segments in the network
    acks      \* acknowledgements in the network

vars == <<q, snd_nxt, una, rcv, wire, acks>>

MaxRto == CHOOSE r \in Rtos : \A s \in Rtos : s <= r
SeqOf(pos) == (Isn + pos) % Word
OnWire(seg) == [pos |-> seg.pos, len |-> seg.len]

Init ==
    /\ q = <<>>
    /\ snd_nxt = 0
    /\ una = 0
    /\ rcv = 0
    /\ wire = {}
    /\ acks = {}

HasRoom == Len(q) < Capacity

\* nfs_retx_queue_push, of a segment the caller has just sent.
Push(len) ==
    /\ HasRoom
    /\ len <= Mss
    /\ snd_nxt + len <= MaxBytes
    /\ q' = Append(q, [pos |-> snd_nxt, len |-> len, age |-> 0])
    /\ snd_nxt' = snd_nxt + len
    /\ wire' = wire \cup {[pos |-> snd_nxt, len |-> len]}
    /\ UNCHANGED <<una, rcv, acks>>

\* Mutant: the segment that starts at the acknowledgement goes too.
AckCoversNext(seg, n) == SeqOf(seg.pos) <= SeqOf(n)

AckCovers(seg, n) == SeqOf(seg.pos) < SeqOf(n)

Kept(n) == {i \in DOMAIN q : ~AckCovers(q[i], n)}

\* nfs_retx_queue_ack: what is kept moves up, in its order (place[j] is the
\* `read' index of the segment that is copied to `write' index j).
Ack(n) ==
    /\ n \in acks
    /\ \E place \in [1..Cardinality(Kept(n)) -> Kept(n)] :
          /\ \A j, k \in DOMAIN place : j < k => place[j] < place[k]
          /\ q' = [j \in DOMAIN place |-> q[place[j]]]
    /\ una' = IF n > una THEN n ELSE una
    /\ UNCHANGED <<snd_nxt, rcv, wire, acks>>

Due(seg, rto) == seg.age >= rto

\* nfs_retx_queue_timeout; the caller resends what it marks.
Timeout(rto) ==
    /\ \E i \in DOMAIN q : Due(q[i], rto)
    /\ q' = [i \in DOMAIN q |-> IF Due(q[i], rto) THEN [q[i] EXCEPT !.age = 0] ELSE q[i]]
    /\ wire' = wire \cup {OnWire(q[i]) : i \in {j \in DOMAIN q : Due(q[j], rto)}}
    /\ UNCHANGED <<snd_nxt, una, rcv, acks>>

\* Time passes for every queued segment.
Tick ==
    /\ \E i \in DOMAIN q : q[i].age < MaxRto
    /\ q' = [i \in DOMAIN q |->
               IF q[i].age < MaxRto THEN [q[i] EXCEPT !.age = @ + 1] ELSE q[i]]
    /\ UNCHANGED <<snd_nxt, una, rcv, wire, acks>>

\* The peer takes the next bytes of the stream and acknowledges what it holds.
PeerReceive(m) ==
    /\ m \in wire
    /\ \E end \in rcv..MaxBytes :
          /\ IF m.pos <= rcv /\ rcv < m.pos + m.len
             THEN IF PartialAcks THEN end \in (rcv + 1)..(m.pos + m.len)
                                 ELSE end = m.pos + m.len
             ELSE end = rcv
          /\ rcv' = end
          /\ acks' = acks \cup {end}
    /\ UNCHANGED <<q, snd_nxt, una, wire>>

Lose ==
    /\ \/ \E m \in wire : wire' = wire \ {m} /\ UNCHANGED acks
       \/ \E n \in acks : acks' = acks \ {n} /\ UNCHANGED wire
    /\ UNCHANGED <<q, snd_nxt, una, rcv>>

Next ==
    \/ \E len \in 0..Mss : Push(len)
    \/ \E n \in acks : Ack(n)
    \/ \E rto \in Rtos : Timeout(rto)
    \/ Tick
    \/ \E m \in wire : PeerReceive(m)
    \/ Lose

Spec == Init /\ [][Next]_vars

\* The steps that bring the stream forward; a run is fair to each of them.
SomeTimeout == \E rto \in Rtos : Timeout(rto)
ReceiveNew == \E m \in wire : m.pos <= rcv /\ m.pos + m.len > rcv /\ PeerReceive(m)
ReceiveOld == \E m \in wire : m.pos + m.len <= rcv /\ PeerReceive(m)
AckNew == \E n \in acks : n > una /\ Ack(n)

-----------------------------------------------------------------------------
\* Types; the array of nfs_retx_queue_push is never written past its end.
TypeOK ==
    /\ q \in Seq([pos : 0..MaxBytes, len : 0..Mss, age : 0..MaxRto])
    /\ Len(q) <= Capacity
    /\ snd_nxt \in 0..MaxBytes /\ una \in 0..MaxBytes /\ rcv \in 0..MaxBytes
    /\ wire \subseteq [pos : 0..MaxBytes, len : 0..Mss]
    /\ acks \subseteq 0..MaxBytes

\* Whatever the network does to segments and acknowledgements, every byte the
\* peer does not hold is still in the queue, in stream order, so that a
\* timeout can send it again.
UnheldBytesAreQueued ==
    /\ \A b \in rcv..(snd_nxt - 1) :
          \E i \in DOMAIN q : q[i].pos <= b /\ b < q[i].pos + q[i].len
    /\ \A i, j \in DOMAIN q : i < j => q[i].pos + q[i].len <= q[j].pos

\* What the highest acknowledgement covered has left the queue for good:
\* nothing acknowledged is resent, even when older acknowledgements arrive
\* late.
AckedIsGone ==
    \A i \in DOMAIN q : q[i].pos >= una

\* Every byte pushed reaches the peer and is acknowledged: a timeout resends
\* it until an acknowledgement gets back.
EverythingGetsThrough ==
    \A n \in 1..MaxBytes : snd_nxt >= n ~> una >= n
=============================================================================
