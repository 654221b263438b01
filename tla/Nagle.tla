------------------------------- MODULE Nagle --------------------------------
(***************************************************************************)
(* Nagle's algorithm at a sender and delayed acknowledgements at its peer  *)
(* (phases/04-transport/20-delayed-acks-and-nagles-algorithm/nagle.c): the *)
(* sender waits for an ACK that the receiver delays.  Data arrive in       *)
(* order; acknowledgements may overtake one another when Reorders is TRUE. *)
(* A deadline is kept as the time left.                                    *)
(***************************************************************************)
EXTENDS Naturals, Sequences, FiniteSets, SequencesExt

CONSTANTS
    Mss,       \* maximum segment size
    Delay,     \* the delay given to nfs_delayed_ack_init, in ticks
    MaxBytes,  \* bound: bytes the application writes
    Reorders   \* may acknowledgements be reordered?

NagleConstants ==
    Mss \in Nat \ {0} /\ Delay \in Nat /\ MaxBytes \in Nat /\ Reorders \in BOOLEAN

VARIABLES
    enabled, snd_una, snd_nxt,  \* nfs_nagle
    pending, left, seg_count,   \* nfs_delayed_ack
    queued, written,            \* the application: bytes not sent, bytes written
    wire, acks,                 \* the network
    rcv, acked,                 \* bytes received, bytes an ACK was sent for
    smalls                      \* history: ends of short segments sent under Nagle

nagleVars == <<enabled, snd_una, snd_nxt, queued, written, smalls>>
delackVars == <<pending, left, seg_count, rcv, acked>>
vars == <<nagleVars, delackVars, wire, acks>>

Init ==
    /\ enabled = TRUE /\ snd_una = 0 /\ snd_nxt = 0
    /\ pending = FALSE /\ left = 0 /\ seg_count = 0
    /\ queued = 0 /\ written = 0
    /\ wire = <<>> /\ acks = <<>>
    /\ rcv = 0 /\ acked = 0
    /\ smalls = {}

Write(n) ==
    /\ written + n <= MaxBytes
    /\ written' = written + n
    /\ queued' = queued + n
    /\ UNCHANGED <<enabled, snd_una, snd_nxt, smalls, delackVars, wire, acks>>

\* nfs_nagle_can_send.
CanSend(len) == ~enabled \/ len >= Mss \/ snd_una = snd_nxt

\* The caller sends what it may; nfs_nagle_sent records it.
SendData ==
    LET len == IF queued < Mss THEN queued ELSE Mss
    IN  /\ queued > 0
        /\ CanSend(len)
        /\ snd_nxt' = snd_nxt + len
        /\ queued' = queued - len
        /\ wire' = Append(wire, len)
        /\ smalls' = IF enabled /\ len < Mss THEN smalls \cup {snd_nxt'} ELSE smalls
        /\ UNCHANGED <<enabled, snd_una, written, delackVars, acks>>

\* nfs_nagle_enable and nfs_nagle_disable.
SetNagle(on) ==
    /\ enabled' = on
    /\ UNCHANGED <<snd_una, snd_nxt, queued, written, smalls, delackVars, wire, acks>>

\* nfs_nagle_acked: whatever number arrives becomes snd_una.
AckArrives(i) ==
    /\ i \in DOMAIN acks
    /\ i = 1 \/ Reorders
    /\ snd_una' = acks[i]
    /\ acks' = RemoveAt(acks, i)
    /\ UNCHANGED <<enabled, snd_nxt, queued, written, smalls, delackVars, wire>>

\* An ACK for everything received leaves; nfs_delayed_ack_sent resets the state.
SendAck ==
    /\ acks' = Append(acks, rcv')
    /\ acked' = rcv'
    /\ pending' = FALSE /\ left' = 0 /\ seg_count' = 0

\* Mutant: the timer is not started.
StartTimerNot == pending' = pending /\ left' = left

StartTimer == pending' = TRUE /\ left' = Delay

AckNow == seg_count + 1 >= 2

\* nfs_delayed_ack_receive: every second segment is acknowledged at once.
Receive ==
    /\ wire # <<>>
    /\ rcv' = rcv + Head(wire)
    /\ wire' = Tail(wire)
    /\ \/ /\ AckNow
          /\ SendAck
       \/ /\ ~AckNow
          /\ seg_count' = seg_count + 1
          /\ StartTimer
          /\ UNCHANGED <<acks, acked>>
    /\ UNCHANGED nagleVars

\* Mutant: the timer is compared the wrong way round.
ExpiredNever == pending /\ left > Delay

\* nfs_delayed_ack_check.
Expired == pending /\ left = 0

DelayedAck ==
    /\ Expired
    /\ rcv' = rcv
    /\ SendAck
    /\ UNCHANGED <<nagleVars, wire>>

Tick ==
    /\ left > 0
    /\ left' = left - 1
    /\ UNCHANGED <<nagleVars, pending, seg_count, rcv, acked, wire, acks>>

Next ==
    \/ \E n \in 1..Mss : Write(n)
    \/ SendData
    \/ \E on \in BOOLEAN : SetNagle(on)
    \/ \E i \in 1..Len(acks) : AckArrives(i)
    \/ Receive
    \/ DelayedAck
    \/ Tick

Spec == Init /\ [][Next]_vars

SomeAckArrives == \E i \in 1..Len(acks) : AckArrives(i)

\* Timers run, the network delivers and the sender sends what it may.
FairSpec ==
    /\ Spec
    /\ WF_vars(SendData) /\ WF_vars(SomeAckArrives) /\ WF_vars(Receive)
    /\ WF_vars(DelayedAck) /\ WF_vars(Tick)

-----------------------------------------------------------------------------
TypeOK ==
    /\ enabled \in BOOLEAN /\ pending \in BOOLEAN
    /\ {snd_una, snd_nxt, queued, written, rcv, acked} \subseteq 0..MaxBytes
    /\ left \in 0..Delay /\ seg_count \in 0..1
    /\ wire \in Seq(1..Mss) /\ acks \in Seq(0..MaxBytes)
    /\ smalls \subseteq 0..MaxBytes

\* Nagle's promise: of the short segments sent with the algorithm on, at most
\* one is unacknowledged, however Nagle is switched off and on in between.
OneShortSegment ==
    Cardinality({e \in smalls : e > snd_una}) <= 1

\* Whatever was received and not acknowledged has a running delayed-ACK timer:
\* no order of segments and timer expiries leaves an ACK nobody will send.
OwedAckHasATimer ==
    acked < rcv => pending /\ seg_count = 1

\* Nagle and delayed ACKs together never stop the stream: everything written
\* is sent, because the timer ends the receiver's wait and the ACK the
\* sender's (nagle.h on nfs_nagle_acked: "advance snd_una").
EverythingIsSent == []<>(queued = 0)
=============================================================================
