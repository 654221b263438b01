----------------------------- MODULE RecvWindow -----------------------------
(***************************************************************************)
(* The receive window and the zero-window probe timer                      *)
(* (phases/04-transport/21-receive-window-and-zero-window-probes/          *)
(* recv_win.c) between a sender and an application, over a network that    *)
(* loses, repeats and reorders segments and window advertisements.         *)
(*                                                                         *)
(* Byte number p of the stream is represented by p, so the buffer shows    *)
(* which bytes it holds.  last_probe_time is kept as the time elapsed.     *)
(***************************************************************************)
EXTENDS Naturals, Sequences

CONSTANTS
    Capacity,  \* the capacity given to nfs_recv_window_init
    Interval,  \* the interval given to nfs_zwp_init, in ticks
    Total      \* bound: length of the stream

RecvWindowConstants ==
    Capacity \in Nat \ {0} /\ Interval \in Nat /\ Total \in Nat

VARIABLES
    buffer, rcv_nxt,     \* nfs_recv_window; used is Len(buffer)
    consumed,            \* history: bytes the application has read
    active, elapsed,     \* nfs_zwp: probing, time since the last probe
    snd_una, snd_wnd,    \* the sender: oldest unacknowledged byte, its window
    segs, acks           \* the network

recvVars == <<buffer, rcv_nxt, consumed>>
zwpVars == <<active, elapsed>>
vars == <<recvVars, zwpVars, snd_una, snd_wnd, segs, acks>>

Smaller(a, b) == IF a < b THEN a ELSE b

Init ==
    /\ buffer = <<>> /\ rcv_nxt = 0 /\ consumed = 0
    /\ active = FALSE /\ elapsed = 0
    /\ snd_una = 0 /\ snd_wnd = Capacity
    /\ segs = {} /\ acks = {}

\* Mutant: the capacity, whatever is used.
AdvertisedAll == Capacity

Advertised == Capacity - Len(buffer)

\* An acknowledgement carries rcv_nxt and the advertised window.
Acknowledge == acks' = acks \cup {[ack |-> rcv_nxt', wnd |-> Advertised']}

Accepted(len) == Smaller(len, Capacity - Len(buffer))

\* nfs_recv_window_receive, a segment that starts at rcv_nxt.
ReceiveInOrder(m) ==
    /\ m.seq = rcv_nxt
    /\ buffer' = buffer \o [i \in 1..Accepted(m.len) |-> m.seq + i - 1]
    /\ rcv_nxt' = rcv_nxt + Accepted(m.len)
    /\ Acknowledge
    /\ UNCHANGED <<consumed, zwpVars, snd_una, snd_wnd, segs>>

\* nfs_recv_window_receive returns -1; the caller repeats its acknowledgement.
ReceiveOther(m) ==
    /\ m.seq # rcv_nxt
    /\ UNCHANGED <<recvVars, zwpVars, snd_una, snd_wnd, segs>>
    /\ Acknowledge

Remaining(n) == SubSeq(buffer, n + 1, Len(buffer))

\* nfs_recv_window_read, followed by the caller's window update.
Read(max) ==
    LET n == Smaller(Len(buffer), max)
    IN  /\ n > 0
        /\ buffer' = Remaining(n)
        /\ consumed' = consumed + n
        /\ UNCHANGED <<rcv_nxt, zwpVars, snd_una, snd_wnd, segs>>
        /\ Acknowledge

(***************************************************************************)
(* The sender.  It sends within the window it knows of, again and again.   *)
(***************************************************************************)
Send(len) ==
    /\ len <= snd_wnd
    /\ snd_una + len <= Total
    /\ segs' = segs \cup {[seq |-> snd_una, len |-> len]}
    /\ UNCHANGED <<recvVars, zwpVars, snd_una, snd_wnd, acks>>

\* A window of zero starts the probes (nfs_zwp_start), any other stops them
\* (nfs_zwp_stop).
SenderAck(a) ==
    /\ a.ack >= snd_una
    /\ snd_una' = a.ack
    /\ snd_wnd' = a.wnd
    /\ active' = (a.wnd = 0)
    /\ elapsed' = IF active /\ a.wnd = 0 THEN elapsed ELSE 0
    /\ UNCHANGED <<recvVars, segs, acks>>

\* Mutant: strictly more than the interval.
ProbeDueLater == elapsed > Interval

ProbeDue == elapsed >= Interval

\* nfs_zwp_check returns 1: one byte is sent beyond the window.
Probe ==
    /\ active
    /\ ProbeDue
    /\ elapsed' = 0
    /\ segs' = IF snd_una < Total THEN segs \cup {[seq |-> snd_una, len |-> 1]} ELSE segs
    /\ UNCHANGED <<recvVars, active, snd_una, snd_wnd, acks>>

Tick ==
    /\ active
    /\ elapsed < Interval
    /\ elapsed' = elapsed + 1
    /\ UNCHANGED <<recvVars, active, snd_una, snd_wnd, segs, acks>>

Lose ==
    /\ \/ \E m \in segs : segs' = segs \ {m} /\ UNCHANGED acks
       \/ \E a \in acks : acks' = acks \ {a} /\ UNCHANGED segs
    /\ UNCHANGED <<recvVars, zwpVars, snd_una, snd_wnd>>

Next ==
    \/ \E m \in segs : ReceiveInOrder(m)
    \/ \E m \in segs : ReceiveOther(m)
    \/ \E max \in 1..Capacity : Read(max)
    \/ \E len \in 1..Capacity : Send(len)
    \/ \E a \in acks : SenderAck(a)
    \/ Probe
    \/ Tick
    \/ Lose

Spec == Init /\ [][Next]_vars

\* The steps that bring the stream forward; a run is fair to each of them.
SomeRead == \E max \in 1..Capacity : Read(max)
SomeSend == \E len \in 1..Capacity : Send(len)
SomeReceiveInOrder == \E m \in segs : ReceiveInOrder(m)
SomeReceiveOther == \E m \in segs : ReceiveOther(m)
AckNew == \E a \in acks : a.ack > snd_una /\ SenderAck(a)
AckOpens == \E a \in acks : a.ack = snd_una /\ a.wnd > snd_wnd /\ SenderAck(a)

-----------------------------------------------------------------------------
\* Types; the buffer is never filled past its capacity.
TypeOK ==
    /\ buffer \in Seq(0..Total) /\ Len(buffer) <= Capacity
    /\ rcv_nxt \in 0..Total /\ consumed \in 0..Total
    /\ active \in BOOLEAN /\ elapsed \in 0..Interval
    /\ snd_una \in 0..Total /\ snd_wnd \in 0..Capacity
    /\ segs \subseteq [seq : 0..Total, len : 1..Capacity]
    /\ acks \subseteq [ack : 0..Total, wnd : 0..Capacity]

\* The application reads the stream in order: the buffer holds exactly the
\* bytes from the first unread one to rcv_nxt, through every partial accept
\* and every compaction.
BufferHoldsTheUnread ==
    buffer = [i \in 1..(rcv_nxt - consumed) |-> consumed + i - 1]

\* The window is never taken back: what an old or reordered advertisement
\* allows the sender still fits into the buffer, although the buffer filled
\* in the meantime.
AdvertisedSpaceIsThere ==
    snd_una + snd_wnd <= consumed + Capacity

\* No lost window update stops the transfer: the zero-window probe finds the
\* reopened window and the whole stream is read.
EverythingIsRead == <>(consumed = Total)
=============================================================================
